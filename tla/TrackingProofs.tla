--------------------------- MODULE TrackingProofs ---------------------------
(***************************************************************************)
(* Theorems about Tracking, for any threads, events, trackers and Subjects:*)
(* the tracker uses its session as ClientSession describes, an event is    *)
(* stored once or its call of track() throws, the store and the session    *)
(* keep the order of the calls, and the pairs of a request are those that  *)
(* were tracked, which needs that base64_decode undoes base64_encode and   *)
(* that a query string is received as the payload it was made of.          *)
(***************************************************************************)
EXTENDS Tracking, ClientSessionProofs, NatRecursion, FiniteSetTheorems

(***************************************************************************)
(* Base64                                                                  *)
(***************************************************************************)
LEMMA CharIs ==
  ASSUME NEW i \in 0..63
  PROVE  base64_chars[i] = IF i < 26 THEN 65 + i ELSE IF i < 52 THEN 71 + i
                           ELSE IF i < 62 THEN i - 4 ELSE IF i = 62 THEN 43 ELSE 47
BY DEF base64_chars

\* The characters are bytes, which find() tells apart from each other and from
\* the padding.
LEMMA FoundIs ==
  /\ \A i \in 0..63 : base64_chars[i] \in Byte \ {0, Pad} /\ Find[base64_chars[i]] = i
  /\ Find[Pad] = 255
<1>1. ASSUME NEW i \in 0..63 PROVE base64_chars[i] \in Byte \ {0, Pad}
  BY CharIs DEF Byte, Pad
<1>2. ASSUME NEW i \in 0..63, NEW j \in 0..63, base64_chars[i] = base64_chars[j]
      PROVE  i = j
  BY <1>2, CharIs
<1>3. ASSUME NEW i \in 0..63 PROVE Find[base64_chars[i]] = i
  <2> DEFINE char == base64_chars[i]
  <2>1. char \in Byte /\ \E j \in 0..63 : base64_chars[j] = char
    BY <1>1
  <2>2. Find[char] = CHOOSE j \in 0..63 : base64_chars[j] = char
    BY <2>1 DEF Find
  <2> DEFINE f == CHOOSE j \in 0..63 : base64_chars[j] = char
  <2>3. f \in 0..63 /\ base64_chars[f] = char
    BY <2>1
  <2> HIDE DEF f
  <2>4. f = i
    BY <1>2, <2>3
  <2> QED BY <2>2, <2>4 DEF f
<1>4. Find[Pad] = 255
  <2>1. Pad \in Byte
    BY DEF Pad, Byte
  <2>2. ~\E i \in 0..63 : base64_chars[i] = Pad
    BY <1>1
  <2> QED BY <2>1, <2>2 DEF Find
<1> QED BY <1>1, <1>3, <1>4

\* Three bytes make four numbers below 64, of which each two make a byte again.
LEMMA SextetsIs ==
  ASSUME NEW c \in [1..3 -> Byte]
  PROVE  LET s == Sextets(c) IN
         /\ \A k \in 1..4 : s[k] \in 0..63
         /\ (s[1] * 4 + (s[2] % 64) \div 16) % 256 = c[1]
         /\ (s[2] % 16) * 16 + (s[3] % 64) \div 4 = c[2]
         /\ ((s[3] % 4) * 64 + s[4]) % 256 = c[3]
<1> DEFINE x == c[1]
           y == c[2]
           z == c[3]
<1>1. x \in 0..255 /\ y \in 0..255 /\ z \in 0..255
  BY DEF Byte
<1> DEFINE s == Sextets(c)
<1>2. /\ s[1] = x \div 4 /\ s[2] = (x % 4) * 16 + y \div 16
      /\ s[3] = (y % 16) * 4 + z \div 64 /\ s[4] = z % 64
  BY DEF Sextets
<1> HIDE DEF s
<1> HIDE DEF x, y, z
<1>3. s[1] \in 0..63 /\ s[2] \in 0..63 /\ s[3] \in 0..63 /\ s[4] \in 0..63
  BY <1>1, <1>2
<1>4. (s[1] * 4 + (s[2] % 64) \div 16) % 256 = x
  BY <1>1, <1>2
<1>5. (s[2] % 16) * 16 + (s[3] % 64) \div 4 = y
  BY <1>1, <1>2
<1>6. ((s[3] % 4) * 64 + s[4]) % 256 = z
  BY <1>1, <1>2
<1>7. \A k \in 1..4 : s[k] \in 0..63
  BY <1>3
<1> QED BY <1>4, <1>5, <1>6, <1>7 DEF s, x, y, z

\* Numbers of groups, characters and bytes.
LEMMA Base64Sizes ==
  ASSUME NEW n \in Nat
  PROVE  LET N == (n + 2) \div 3 IN
         /\ N \in Nat /\ n + N \in 0..4 * N
         /\ (3 * (n + N)) \div 4 = n
         /\ \A j \in 1..4 * N : LET g == (j - 1) \div 4
                                    k == ((j - 1) % 4) + 1
                                IN  g \in Nat /\ k \in 1..4 /\ j = 4 * g + k
                                    /\ (3 * g + k > n + 1 <=> j > n + N)
         /\ \A j \in 1..n : LET g == (j - 1) \div 3
                                k == ((j - 1) % 3) + 1
                            IN  g \in Nat /\ k \in 1..3 /\ j = 3 * g + k
                                /\ 4 * g + k + 1 <= n + N
<1> DEFINE N == (n + 2) \div 3
           d == 3 * N - n
<1>1. N \in Nat /\ d \in 0..2 /\ n = 3 * N - d
  OBVIOUS
<1> HIDE DEF N, d
<1>2. n + N \in 0..4 * N /\ (3 * (n + N)) \div 4 = n
  <2>1. 3 * (n + N) = 4 * n + d
    BY <1>1
  <2> QED BY <1>1, <2>1
<1>3. ASSUME NEW j \in 1..4 * N
      PROVE  LET g == (j - 1) \div 4
                 k == ((j - 1) % 4) + 1
             IN  g \in Nat /\ k \in 1..4 /\ j = 4 * g + k /\ (3 * g + k > n + 1 <=> j > n + N)
  <2> DEFINE g == (j - 1) \div 4
             k == ((j - 1) % 4) + 1
  <2>1. g \in Nat /\ k \in 1..4 /\ j = 4 * g + k
    BY <1>1
  <2> HIDE DEF g, k
  <2>2. g <= N - 1
    BY <1>1, <2>1
  <2>3. 3 * g + k > n + 1 <=> j > n + N
    <3>1. CASE g = N - 1
      BY <1>1, <2>1, <3>1
    <3>2. CASE g < N - 1
      BY <1>1, <2>1, <3>2
    <3> QED BY <1>1, <2>1, <2>2, <3>1, <3>2
  <2> QED BY <2>1, <2>3 DEF g, k
<1>4. ASSUME NEW j \in 1..n
      PROVE  LET g == (j - 1) \div 3
                 k == ((j - 1) % 3) + 1
             IN  g \in Nat /\ k \in 1..3 /\ j = 3 * g + k /\ 4 * g + k + 1 <= n + N
  <2> DEFINE g == (j - 1) \div 3
             k == ((j - 1) % 3) + 1
  <2>1. g \in Nat /\ k \in 1..3 /\ j = 3 * g + k
    OBVIOUS
  <2> HIDE DEF g, k
  <2>2. g <= N - 1
    BY <1>1, <2>1
  <2>3. 4 * g + k + 1 <= n + N
    BY <1>1, <2>1, <2>2
  <2> QED BY <2>1, <2>3 DEF g, k
<1> QED BY <1>1, <1>2, <1>3, <1>4 DEF N

LEMMA TakenBytes ==
  ASSUME NEW bytes \in Seq(Byte), NEW i \in Nat
  PROVE  /\ Taken(bytes, i, 3) \in [1..3 -> Byte]
         /\ \A k \in 1..3 : i + k <= Len(bytes) => Taken(bytes, i, 3)[k] = bytes[i + k]
<1>1. ASSUME NEW k \in 1..3
      PROVE  (IF i + k <= Len(bytes) THEN bytes[i + k] ELSE 0) \in Byte
  <2>1. CASE i + k <= Len(bytes)
    <3>1. i + k \in 1..Len(bytes)
      BY <2>1
    <3>2. bytes[i + k] \in Byte
      BY <3>1
    <3> QED BY <2>1, <3>2
  <2>2. CASE ~(i + k <= Len(bytes))
    BY <2>2 DEF Byte
  <2> QED BY <2>1, <2>2
<1> QED BY <1>1 DEF Taken

\* Where the characters come from.
LEMMA Encoded ==
  ASSUME NEW bytes \in Seq(Byte)
  PROVE  LET E == base64_encode(bytes)
             N == (Len(bytes) + 2) \div 3
         IN  /\ E \in Seq(Byte) /\ Len(E) = 4 * N
             /\ \A j \in 1..4 * N :
                  LET g == (j - 1) \div 4
                      k == ((j - 1) % 4) + 1
                  IN  E[j] = IF j > Len(bytes) + N THEN Pad
                             ELSE base64_chars[Sextets(Taken(bytes, 3 * g, 3))[k]]
<1> DEFINE E == base64_encode(bytes)
           n == Len(bytes)
           N == (n + 2) \div 3
<1>0. n \in Nat /\ N \in Nat
  BY Base64Sizes
<1>1. ASSUME NEW j \in 1..4 * N
      PROVE  LET g == (j - 1) \div 4
                 k == ((j - 1) % 4) + 1
             IN  /\ E[j] = IF j > n + N THEN Pad
                           ELSE base64_chars[Sextets(Taken(bytes, 3 * g, 3))[k]]
                 /\ E[j] \in Byte
  <2> DEFINE g == (j - 1) \div 4
             k == ((j - 1) % 4) + 1
             s == Sextets(Taken(bytes, 3 * g, 3))
  <2>1. g \in Nat /\ k \in 1..4 /\ (3 * g + k > n + 1 <=> j > n + N)
    BY <1>0, Base64Sizes
  <2>2. E[j] = IF 3 * g + k > n + 1 THEN Pad ELSE base64_chars[s[k]]
    BY DEF base64_encode
  <2> HIDE DEF g, k
  <2>3. \A i \in 1..4 : s[i] \in 0..63
    <3>1. 3 * g \in Nat
      BY <2>1
    <3>2. Taken(bytes, 3 * g, 3) \in [1..3 -> Byte]
      BY <3>1, TakenBytes
    <3> QED BY <3>2, SextetsIs
  <2> HIDE DEF s
  <2>4. base64_chars[s[k]] \in Byte
    <3>1. s[k] \in 0..63
      BY <2>1, <2>3
    <3> QED BY <3>1, FoundIs
  <2>5. Pad \in Byte
    BY DEF Pad, Byte
  <2> QED BY <2>1, <2>2, <2>4, <2>5 DEF g, k, s
<1>2. E = [j \in 1..4 * N |-> E[j]]
  BY DEF base64_encode
<1> HIDE DEF E, N
<1>3. \A j \in 1..4 * N : E[j] \in Byte
  BY <1>1 DEF N
<1>4. E \in Seq(Byte) /\ Len(E) = 4 * N
  <2>1. 4 * N \in Nat
    BY <1>0
  <2> QED BY <1>2, <1>3, <2>1
<1> QED BY <1>1, <1>4 DEF E, N

\* base64_decode undoes base64_encode for every sequence of bytes: base64.cpp's
\* groups of three bytes, its padding and the stop at the first character that
\* is not one of base64_chars.
THEOREM Base64Decodes ==
  ASSUME NEW bytes \in Seq(Byte)
  PROVE  base64_decode(base64_encode(bytes)) = bytes
<1> DEFINE E == base64_encode(bytes)
           n == Len(bytes)
           N == (n + 2) \div 3
           M == n + N
           Source(j) == base64_chars[Sextets(Taken(bytes, 3 * ((j - 1) \div 4), 3))
                                     [((j - 1) % 4) + 1]]
           end == SelectInSeq(E, LAMBDA c : Find[c] = 255)
           text == IF end = 0 THEN E ELSE SubSeq(E, 1, end - 1)
<1>0. n \in Nat /\ N \in Nat /\ M \in 0..4 * N /\ (3 * M) \div 4 = n
  BY Base64Sizes
<1>1. E \in Seq(Byte) /\ Len(E) = 4 * N
  BY Encoded
<1>2. \A j \in 1..4 * N : E[j] = IF j > M THEN Pad ELSE Source(j)
  BY Encoded
<1> HIDE DEF E
\* The numbers the characters stand for.
<1>3. ASSUME NEW g \in Nat, NEW k \in 1..4, 4 * g + k <= M
      PROVE  Find[E[4 * g + k]] = Sextets(Taken(bytes, 3 * g, 3))[k]
             /\ Find[E[4 * g + k]] \in 0..63
  <2> DEFINE j == 4 * g + k
  <2>1. j \in 1..4 * N /\ ~(j > M) /\ (j - 1) \div 4 = g /\ ((j - 1) % 4) + 1 = k
    BY <1>0, <1>3
  <2>2. E[j] = base64_chars[Sextets(Taken(bytes, 3 * g, 3))[k]]
    BY <1>2, <2>1
  <2> DEFINE q == Sextets(Taken(bytes, 3 * g, 3))[k]
  <2>3. q \in 0..63
    <3>1. Taken(bytes, 3 * g, 3) \in [1..3 -> Byte]
      <4>1. 3 * g \in Nat
        OBVIOUS
      <4> QED BY <4>1, TakenBytes
    <3> QED BY <3>1, SextetsIs
  <2>4. E[j] = base64_chars[q]
    BY <2>2
  <2> HIDE DEF q
  <2>5. Find[base64_chars[q]] = q
    BY <2>3, FoundIs
  <2>6. Find[E[j]] = q /\ Find[E[j]] \in 0..63
    BY <2>3, <2>4, <2>5
  <2> QED BY <2>6 DEF q
<1>4. ASSUME NEW j \in 1..4 * N PROVE Find[E[j]] = 255 <=> j > M
  <2>1. CASE j > M
    BY <1>2, <2>1, FoundIs
  <2>2. CASE ~(j > M)
    <3> DEFINE g == (j - 1) \div 4
               k == ((j - 1) % 4) + 1
    <3>1. g \in Nat /\ k \in 1..4 /\ 4 * g + k = j /\ 4 * g + k <= M
      BY <1>0, <2>2
    <3> HIDE DEF g, k
    <3>2. Find[E[4 * g + k]] \in 0..63
      BY <1>3, <3>1
    <3>3. Find[E[j]] \in 0..63
      BY <3>1, <3>2, Zenon
    <3>4. Find[E[j]] # 255
      <4>1. \A v \in 0..63 : v # 255
        OBVIOUS
      <4> QED BY <3>3, <4>1, Zenon
    <3> QED BY <2>2, <3>4
  <2> QED BY <2>1, <2>2
<1> HIDE DEF M, N
<1> DEFINE I == {j \in 1..Len(E) : Find[E[j]] = 255}
<1>5. end = IF I # {} THEN Min(I) ELSE 0
  BY DEF SelectInSeq
<1> HIDE DEF end
<1>6. text \in Seq(Byte) /\ Len(text) = M /\ \A j \in 1..M : text[j] = E[j]
  <2>1. CASE M = 4 * N
    <3>1. I = {}
      BY <1>0, <1>1, <1>4, <2>1
    <3> QED BY <1>1, <1>5, <2>1, <3>1
  <2>2. CASE M < 4 * N
    <3>1. M + 1 \in I /\ I \subseteq Nat
      BY <1>0, <1>1, <1>4, <2>2
    <3>2. \A i \in I : M + 1 <= i
      BY <1>0, <1>1, <1>4
    <3> HIDE DEF I
    <3>3. Min(I) = M + 1 /\ I # {}
      BY <3>1, <3>2, MinIs
    <3>4. end = M + 1 /\ end # 0 /\ end - 1 = M
      BY <1>0, <1>5, <3>3
    <3>5. text = SubSeq(E, 1, M)
      BY <3>4
    <3> HIDE DEF text
    <3> QED BY <1>0, <1>1, <2>2, <3>5
  <2> QED BY <1>0, <2>1, <2>2
<1> DEFINE B(j) == Octets([k \in 1..4 |-> Find[Taken(text, 4 * ((j - 1) \div 3), 4)[k]]])
                   [((j - 1) % 3) + 1]
<1>7. base64_decode(E) = [j \in 1..(3 * Len(text)) \div 4 |-> B(j)]
  BY DEF base64_decode, end
<1> HIDE DEF text
<1>8. ASSUME NEW j \in 1..n PROVE B(j) = bytes[j]
  <2> DEFINE g == (j - 1) \div 3
             k == ((j - 1) % 3) + 1
             c == Taken(bytes, 3 * g, 3)
             s == Sextets(c)
             x == [i \in 1..4 |-> Find[Taken(text, 4 * g, 4)[i]]]
  <2>1. g \in Nat /\ k \in 1..3 /\ j = 3 * g + k /\ 4 * g + k + 1 <= M
    BY <1>0, Base64Sizes DEF M, N
  <2>2. B(j) = Octets(x)[k]
    OBVIOUS
  <2> HIDE DEF g, k
  <2>3. c[k] = bytes[j] /\ c \in [1..3 -> Byte]
    <3>1. 3 * g \in Nat /\ 3 * g + k <= n
      BY <2>1
    <3> QED BY <2>1, <3>1, TakenBytes
  <2>4. ASSUME NEW i \in 1..4, 4 * g + i <= M PROVE x[i] = s[i]
    <3>1. Taken(text, 4 * g, 4)[i] = text[4 * g + i]
      BY <1>6, <2>4 DEF Taken
    <3>2. 4 * g + i \in 1..M
      BY <1>0, <2>1, <2>4
    <3>3. x[i] = Find[text[4 * g + i]]
      BY <2>4, <3>1
    <3>4. text[4 * g + i] = E[4 * g + i]
      BY <1>6, <3>2
    <3>5. Find[E[4 * g + i]] = s[i]
      BY <1>3, <2>1, <2>4
    <3> HIDE DEF x, s, c
    <3> QED BY <3>3, <3>4, <3>5, Zenon
  <2>5. x[k] = s[k] /\ x[k + 1] = s[k + 1]
    <3>1. k \in 1..4 /\ k + 1 \in 1..4 /\ 4 * g + k <= M /\ 4 * g + (k + 1) <= M
      BY <1>0, <2>1
    <3> QED BY <2>4, <3>1
  <2>6. /\ (s[1] * 4 + (s[2] % 64) \div 16) % 256 = c[1]
        /\ (s[2] % 16) * 16 + (s[3] % 64) \div 4 = c[2]
        /\ ((s[3] % 4) * 64 + s[4]) % 256 = c[3]
    BY <2>3, SextetsIs
  <2> HIDE DEF x, s, c
  <2>7. /\ Octets(x)[1] = (x[1] * 4 + (x[2] % 64) \div 16) % 256
        /\ Octets(x)[2] = (x[2] % 16) * 16 + (x[3] % 64) \div 4
        /\ Octets(x)[3] = ((x[3] % 4) * 64 + x[4]) % 256
    BY DEF Octets
  <2>8. Octets(x)[k] = c[k]
    <3>1. CASE k = 1
      <4>1. x[1] = s[1] /\ x[2] = s[2]
        BY <2>5, <3>1
      <4> QED BY <2>6, <2>7, <3>1, <4>1
    <3>2. CASE k = 2
      <4>1. x[2] = s[2] /\ x[3] = s[3]
        BY <2>5, <3>2
      <4> QED BY <2>6, <2>7, <3>2, <4>1
    <3>3. CASE k = 3
      <4>1. x[3] = s[3] /\ x[4] = s[4]
        BY <2>5, <3>3
      <4> QED BY <2>6, <2>7, <3>3, <4>1
    <3> QED BY <2>1, <3>1, <3>2, <3>3
  <2> QED BY <2>2, <2>3, <2>8 DEF k
<1>9. base64_decode(E) = [j \in 1..n |-> bytes[j]]
  BY <1>0, <1>6, <1>7, <1>8
<1> QED BY <1>9 DEF E

(***************************************************************************)
(* Query strings                                                           *)
(***************************************************************************)
\* Percent signs and ampersands are escaped, and an escape can be read back.
LEMMA EncodedByteIs ==
  ASSUME NEW c \in Byte
  PROVE  LET s == EncodedByte(c) IN
         /\ s \in Seq(Byte) /\ (Len(s) = 1 \/ Len(s) = 3)
         /\ \A k \in 1..Len(s) : s[k] # Ampersand /\ (s[k] = Percent <=> k = 1 /\ Len(s) = 3)
         /\ Len(s) = 1 => s[1] = c
         /\ Len(s) = 3 => 16 * HexValue(s[2]) + HexValue(s[3]) = c
<1>0. c \in 0..255
  BY DEF Byte
<1>1. CASE Unreserved(c)
  <2>1. c # Percent /\ c # Ampersand
    BY <1>1, CodecAssumption DEF Unreserved, Alnum, Digit, Percent, Ampersand,
       CodecAssumption
  <2> QED BY <1>1, <2>1 DEF EncodedByte, Byte
<1>2. CASE ~Unreserved(c)
  <2> DEFINE h == c \div 16
             l == c % 16
  <2>1. h \in 0..15 /\ l \in 0..15 /\ c = 16 * h + l
    BY <1>0
  <2> HIDE DEF h, l
  <2>2. EncodedByte(c) = << Percent, HexChar(h), HexChar(l) >>
    BY <1>2 DEF EncodedByte, Escaped, h, l
  <2>3. ASSUME NEW d \in 0..15
        PROVE  /\ HexChar(d) \in Byte /\ HexChar(d) # Percent /\ HexChar(d) # Ampersand
               /\ HexValue(HexChar(d)) = d
    <3>1. CASE d < 10
      <4>1. HexChar(d) = 48 + d /\ HexChar(d) \in Digit
        BY <3>1 DEF HexChar, Digit
      <4> QED BY <3>1, <4>1 DEF HexValue, Byte, Percent, Ampersand
    <3>2. CASE d >= 10
      <4>1. HexChar(d) = 55 + d /\ HexChar(d) \notin Digit
        BY <3>2 DEF HexChar, Digit
      <4> QED BY <3>2, <4>1 DEF HexValue, Byte, Percent, Ampersand
    <3> QED BY <3>1, <3>2
  <2> DEFINE x == HexChar(h)
             y == HexChar(l)
  <2>4. /\ x \in Byte /\ x # Percent /\ x # Ampersand /\ HexValue(x) = h
        /\ y \in Byte /\ y # Percent /\ y # Ampersand /\ HexValue(y) = l
    BY <2>1, <2>3
  <2> HIDE DEF x, y
  <2>5. EncodedByte(c) = << Percent, x, y >>
    BY <2>2 DEF x, y
  <2> DEFINE s == << Percent, x, y >>
  <2>6. s \in Seq(Byte) /\ Len(s) = 3 /\ s[1] = Percent /\ s[2] = x /\ s[3] = y
    BY <2>4 DEF Byte, Percent
  <2>7. Percent # Ampersand
    BY DEF Percent, Ampersand
  <2> HIDE DEF s
  <2>8. \A k \in 1..3 : s[k] # Ampersand /\ (s[k] = Percent <=> k = 1)
    BY <2>4, <2>6, <2>7
  <2>9. 16 * HexValue(s[2]) + HexValue(s[3]) = c
    BY <2>1, <2>4, <2>6
  <2> QED BY <2>5, <2>6, <2>8, <2>9 DEF s
<1> QED BY <1>1, <1>2

Encodings(text) == [i \in DOMAIN text |-> EncodedByte(text[i])]

LEMMA EncodingsTyped ==
  ASSUME NEW text \in Seq(Byte)
  PROVE  /\ Encodings(text) \in Seq(Seq(Byte)) /\ Len(Encodings(text)) = Len(text)
         /\ Len(text) \in Nat
         /\ \A i \in 1..Len(text) : text[i] \in Byte /\ Encodings(text)[i] = EncodedByte(text[i])
<1>1. Len(text) \in Nat /\ DOMAIN text = 1..Len(text) /\ \A i \in 1..Len(text) : text[i] \in Byte
  OBVIOUS
<1>2. \A i \in 1..Len(text) : EncodedByte(text[i]) \in Seq(Byte)
  BY <1>1, EncodedByteIs
<1> QED BY <1>1, <1>2 DEF Encodings

\* What url_encode returns, and where the encodings of the bytes are in it.
LEMMA UrlEncoded ==
  ASSUME NEW text \in Seq(Byte)
  PROVE  /\ url_encode(text) \in Seq(Byte)
         /\ \E off : Joins(url_encode(text), Encodings(text), off)
         /\ \A j \in 1..Len(url_encode(text)) : url_encode(text)[j] # Ampersand
<1> DEFINE seqs == Encodings(text)
           E == url_encode(text)
<1>1. E = FlattenSeq(seqs)
  BY DEF url_encode, Encodings
<1>2. seqs \in Seq(Seq(Byte))
  BY EncodingsTyped
<1> HIDE DEF E, seqs
<1>3. E \in Seq(Byte) /\ \E off : Joins(E, seqs, off)
  BY <1>1, <1>2, FlattenJoins
<1>4. PICK off : Joins(E, seqs, off)
  BY <1>3
<1>5. ASSUME NEW j \in 1..Len(E) PROVE E[j] # Ampersand
  <2>1. PICK i \in 1..Len(seqs) : \E k \in 1..Len(seqs[i]) : j = off[i] + k /\ E[j] = seqs[i][k]
    BY <1>4, JoinsCovers
  <2>2. PICK k \in 1..Len(seqs[i]) : E[j] = seqs[i][k]
    BY <2>1
  <2>3. i \in 1..Len(text) /\ seqs[i] = EncodedByte(text[i]) /\ text[i] \in Byte
    BY EncodingsTyped DEF seqs
  <2> QED BY <2>2, <2>3, EncodedByteIs
<1> QED BY <1>3, <1>5 DEF E, seqs

\* The collector decodes the text that was encoded.
DecodedPieces(text) == [j \in DOMAIN text |->
    IF \E i \in {j - 1, j - 2} : i \in DOMAIN text /\ text[i] = Percent THEN << >>
    ELSE IF text[j] = Percent
         THEN << 16 * HexValue(text[j + 1]) + HexValue(text[j + 2]) >>
         ELSE << text[j] >>]

LEMMA InOneOrThree ==
  ASSUME NEW s, Len(s) = 1 \/ Len(s) = 3
  PROVE  \A k \in 1..Len(s) : k = 1 \/ (Len(s) = 3 /\ (k = 2 \/ k = 3))
<1>1. CASE Len(s) = 1
  BY <1>1
<1>2. CASE Len(s) = 3
  BY <1>2
<1> QED BY <1>1, <1>2

LEMMA DecodedIsText ==
  ASSUME NEW text \in Seq(Byte)
  PROVE  Decoded(url_encode(text)) = text
<1> DEFINE E == url_encode(text)
           seqs == Encodings(text)
           n == Len(text)
           D == DecodedPieces(E)
<1>1. n \in Nat /\ Len(seqs) = n
      /\ \A i \in 1..n : text[i] \in Byte /\ seqs[i] = EncodedByte(text[i])
  BY EncodingsTyped
<1>2. E \in Seq(Byte) /\ \E off : Joins(E, seqs, off)
  BY UrlEncoded
<1>3. PICK off : Joins(E, seqs, off)
  BY <1>2
<1> HIDE DEF E, seqs
<1>4. Len(E) \in Nat /\ DOMAIN E = 1..Len(E) /\ off[1] = 0 /\ off[n + 1] = Len(E)
  BY <1>1, <1>2, <1>3 DEF Joins
<1>5. ASSUME NEW i \in 1..n
      PROVE  /\ off[i] \in Nat /\ off[i + 1] \in Nat /\ off[i + 1] = off[i] + Len(seqs[i])
             /\ (Len(seqs[i]) = 1 \/ Len(seqs[i]) = 3) /\ off[i + 1] <= Len(E)
             /\ off[i] + 1 \in 1..Len(E)
             /\ Len(seqs[i]) = 3 => off[i] + 2 \in 1..Len(E) /\ off[i] + 3 \in 1..Len(E)
  <2>1. Len(seqs[i]) = 1 \/ Len(seqs[i]) = 3
    BY <1>1, EncodedByteIs
  <2>2. off[i] \in Nat /\ off[i + 1] \in Nat
    BY <1>1, <1>3, JoinsTypes
  <2>3. off[i + 1] = off[i] + Len(seqs[i])
    BY <1>1, <1>3 DEF Joins
  <2>4. off[i + 1] <= off[n + 1]
    <3>1. i + 1 \in 1..Len(seqs) + 1 /\ n + 1 \in i + 1..Len(seqs) + 1
      BY <1>1
    <3> QED BY <1>3, <3>1, OffsetsGrow
  <2>5. CASE Len(seqs[i]) = 1
    <3>1. off[i + 1] = off[i] + 1 /\ off[i + 1] <= Len(E) /\ ~(1 = 3)
      BY <1>4, <2>3, <2>4, <2>5
    <3>2. off[i] + 1 \in 1..Len(E)
      BY <1>4, <2>2, <3>1
    <3> QED BY <2>2, <2>3, <2>5, <3>1, <3>2, Zenon
  <2>6. CASE Len(seqs[i]) = 3
    <3>1. off[i + 1] = off[i] + 3 /\ off[i + 1] <= Len(E)
      BY <1>4, <2>3, <2>4, <2>6
    <3>2. off[i] + 1 \in 1..Len(E) /\ off[i] + 2 \in 1..Len(E) /\ off[i] + 3 \in 1..Len(E)
      BY <1>4, <2>2, <3>1
    <3> QED BY <2>2, <2>3, <2>6, <3>1, <3>2, Zenon
  <2> QED BY <2>1, <2>5, <2>6
<1>20. ASSUME NEW i \in 1..n
       PROVE  /\ Len(seqs[i]) = 1 => E[off[i] + 1] = text[i] /\ E[off[i] + 1] # Percent
              /\ Len(seqs[i]) = 3 =>
                   /\ E[off[i] + 1] = Percent
                   /\ E[off[i] + 2] # Percent /\ E[off[i] + 3] # Percent
                   /\ 16 * HexValue(E[off[i] + 2]) + HexValue(E[off[i] + 3]) = text[i]
  <2>1. \A k \in 1..Len(seqs[i]) : /\ E[off[i] + k] = seqs[i][k]
                                  /\ (seqs[i][k] = Percent <=> (k = 1 /\ Len(seqs[i]) = 3))
    <3>1. \A k \in 1..Len(seqs[i]) : E[off[i] + k] = seqs[i][k]
      BY <1>1, <1>3 DEF Joins
    <3>2. \A k \in 1..Len(seqs[i]) : seqs[i][k] = Percent <=> (k = 1 /\ Len(seqs[i]) = 3)
      <4> DEFINE s == EncodedByte(text[i])
      <4>1. seqs[i] = s
        BY <1>1
      <4>2. \A k \in 1..Len(s) : s[k] = Percent <=> (k = 1 /\ Len(s) = 3)
        BY <1>1, EncodedByteIs
      <4> HIDE DEF s
      <4> QED BY <4>1, <4>2, Zenon
    <3> QED BY <3>1, <3>2, Zenon
  <2>2. CASE Len(seqs[i]) = 1
    <3>1. 1 \in 1..Len(seqs[i])
      BY <2>2
    <3>2. seqs[i][1] = text[i]
      BY <1>1, <2>2, EncodedByteIs
    <3>3. E[off[i] + 1] = seqs[i][1] /\ (seqs[i][1] = Percent => Len(seqs[i]) = 3)
      BY <2>1, <3>1, Zenon
    <3>4. E[off[i] + 1] = text[i] /\ E[off[i] + 1] # Percent
      <4>1. ~(1 = 3)
        OBVIOUS
      <4> QED BY <2>2, <3>2, <3>3, <4>1, Zenon
    <3>5. Len(seqs[i]) # 3
      BY <2>2
    <3> QED BY <3>4, <3>5, Zenon
  <2>3. CASE Len(seqs[i]) = 3
    <3>1. 1 \in 1..Len(seqs[i]) /\ 2 \in 1..Len(seqs[i]) /\ 3 \in 1..Len(seqs[i])
      BY <2>3
    <3>2. 16 * HexValue(seqs[i][2]) + HexValue(seqs[i][3]) = text[i]
      BY <1>1, <2>3, EncodedByteIs
    <3>3. ASSUME NEW k \in 1..Len(seqs[i])
          PROVE  E[off[i] + k] = seqs[i][k] /\ (E[off[i] + k] = Percent <=> k = 1)
      <4>1. E[off[i] + k] = seqs[i][k] /\ (seqs[i][k] = Percent <=> (k = 1 /\ Len(seqs[i]) = 3))
        BY <2>1, Zenon
      <4> QED BY <2>3, <4>1
    <3>4. /\ E[off[i] + 1] = seqs[i][1] /\ E[off[i] + 2] = seqs[i][2]
          /\ E[off[i] + 3] = seqs[i][3]
      BY <3>1, <3>3, Zenon
    <3>5. E[off[i] + 1] = Percent /\ E[off[i] + 2] # Percent /\ E[off[i] + 3] # Percent
      <4>1. 2 # 1 /\ 3 # 1
        OBVIOUS
      <4> QED BY <3>1, <3>3, <4>1, Zenon
    <3> QED BY <2>3, <3>2, <3>4, <3>5
  <2> QED BY <2>2, <2>3
\* Where an escape begins in what is encoded.
<1>6. ASSUME NEW j \in 1..Len(E), E[j] = Percent
      PROVE  \E i \in 1..n : j = off[i] + 1 /\ Len(seqs[i]) = 3
  <2>1. PICK i \in 1..n : \E k \in 1..Len(seqs[i]) : j = off[i] + k /\ E[j] = seqs[i][k]
    BY <1>1, <1>3, JoinsCovers
  <2>2. PICK k \in 1..Len(seqs[i]) : j = off[i] + k
    BY <2>1
  <2>3. k = 1 \/ (Len(seqs[i]) = 3 /\ (k = 2 \/ k = 3))
    BY <1>5, InOneOrThree
  <2>4. k = 1 /\ Len(seqs[i]) = 3
    <3>1. E[off[i] + k] = Percent
      BY <1>6, <2>2
    <3>2. CASE k = 1
      <4>1. Len(seqs[i]) # 1
        BY <1>20, <3>1, <3>2, Zenon
      <4> QED BY <1>5, <3>2, <4>1, Zenon
    <3>3. CASE Len(seqs[i]) = 3 /\ k = 2
      BY <1>20, <3>1, <3>3, Zenon
    <3>4. CASE Len(seqs[i]) = 3 /\ k = 3
      BY <1>20, <3>1, <3>4, Zenon
    <3> QED BY <2>3, <3>2, <3>3, <3>4
  <2> QED BY <2>2, <2>4
\* An encoding is not behind a part of another one.
<1>7. ASSUME NEW i \in 1..n, NEW j \in {off[i], off[i] - 1}, j \in 1..Len(E), E[j] = Percent
      PROVE  FALSE
  <2>1. PICK m \in 1..n : j = off[m] + 1 /\ Len(seqs[m]) = 3
    BY <1>6, <1>7
  <2>2. off[m + 1] = j + 2 /\ off[m] \in Nat /\ off[i] \in Nat
    <3>1. off[m + 1] = off[m] + 3 /\ off[m] \in Nat /\ off[i] \in Nat
      BY <1>5, <2>1
    <3> QED BY <2>1, <3>1
  <2>3. CASE m + 1 <= i
    <3>1. m + 1 \in 1..Len(seqs) + 1 /\ i \in m + 1..Len(seqs) + 1
      BY <1>1, <2>3
    <3>2. off[m + 1] <= off[i]
      BY <1>3, <3>1, OffsetsGrow
    <3> QED BY <2>1, <2>2, <3>2
  <2>4. CASE i <= m
    <3>1. i \in 1..Len(seqs) + 1 /\ m \in i..Len(seqs) + 1
      BY <1>1, <2>4
    <3>2. off[i] <= off[m]
      BY <1>3, <3>1, OffsetsGrow
    <3> QED BY <2>1, <2>2, <3>2
  <2> QED BY <1>1, <2>3, <2>4
\* The pieces Decoded makes of it.
<1>8. /\ Decoded(E) = FlattenSeq(D)
      /\ D = [j \in 1..Len(E) |-> D[j]]
      /\ \A j \in 1..Len(E) : D[j] =
           IF \E i \in {j - 1, j - 2} : i \in 1..Len(E) /\ E[i] = Percent THEN << >>
           ELSE IF E[j] = Percent
                THEN << 16 * HexValue(E[j + 1]) + HexValue(E[j + 2]) >>
                ELSE << E[j] >>
  BY <1>4 DEF Decoded, DecodedPieces
<1> HIDE DEF D
<1>9. ASSUME NEW i \in 1..n
      PROVE  /\ D[off[i] + 1] = << text[i] >>
             /\ Len(seqs[i]) = 3 => D[off[i] + 2] = << >> /\ D[off[i] + 3] = << >>
  <2>1. off[i] \in Nat /\ (Len(seqs[i]) = 1 \/ Len(seqs[i]) = 3)
    BY <1>5
  <2>2. off[i] + 1 \in 1..Len(E)
    BY <1>5
  <2>3. ~\E j \in {(off[i] + 1) - 1, (off[i] + 1) - 2} : j \in 1..Len(E) /\ E[j] = Percent
    <3>1. (off[i] + 1) - 1 = off[i] /\ (off[i] + 1) - 2 = off[i] - 1
      BY <2>1
    <3> QED BY <1>7, <3>1
  <2>4. D[off[i] + 1] = IF E[off[i] + 1] = Percent
                        THEN << 16 * HexValue(E[(off[i] + 1) + 1])
                                + HexValue(E[(off[i] + 1) + 2]) >>
                        ELSE << E[off[i] + 1] >>
    BY <1>8, <2>2, <2>3
  <2>5. CASE Len(seqs[i]) = 1
    <3>1. E[off[i] + 1] = text[i] /\ E[off[i] + 1] # Percent
      BY <1>20, <2>5, Zenon
    <3>2. Len(seqs[i]) # 3
      BY <2>5
    <3> QED BY <2>4, <3>1, <3>2
  <2>6. CASE Len(seqs[i]) = 3
    <3>1. /\ off[i] + 2 \in 1..Len(E) /\ off[i] + 3 \in 1..Len(E)
          /\ (off[i] + 1) + 1 = off[i] + 2 /\ (off[i] + 1) + 2 = off[i] + 3
          /\ (off[i] + 2) - 1 = off[i] + 1 /\ (off[i] + 3) - 2 = off[i] + 1
      <4>1. off[i] + 2 \in 1..Len(E) /\ off[i] + 3 \in 1..Len(E)
        BY <1>5, <2>6, Zenon
      <4> QED BY <2>1, <4>1
    <3>2. /\ E[off[i] + 1] = Percent
          /\ 16 * HexValue(E[off[i] + 2]) + HexValue(E[off[i] + 3]) = text[i]
      BY <1>20, <2>6, Zenon
    <3>3. D[off[i] + 1] = << text[i] >>
      BY <2>4, <3>1, <3>2
    <3>4. D[off[i] + 2] = << >>
      BY <1>8, <2>2, <3>1, <3>2
    <3>5. D[off[i] + 3] = << >>
      BY <1>8, <2>2, <3>1, <3>2
    <3> QED BY <3>3, <3>4, <3>5
  <2> QED BY <2>1, <2>5, <2>6
<1>10. D \in Seq(Seq(Int)) /\ Len(D) = Len(E)
  <2>1. ASSUME NEW j \in 1..Len(E) PROVE D[j] \in Seq(Int)
    <3>1. E[j] \in Byte
      BY <1>2
    <3>2. PICK i \in 1..n : \E k \in 1..Len(seqs[i]) : j = off[i] + k /\ E[j] = seqs[i][k]
      BY <1>1, <1>3, JoinsCovers
    <3>3. PICK k \in 1..Len(seqs[i]) : j = off[i] + k
      BY <3>2
    <3>4. << text[i] >> \in Seq(Int) /\ << >> \in Seq(Int)
      <4>1. text[i] \in Byte
        BY <1>1
      <4>2. text[i] \in Int
        <5>1. \A c \in Byte : c \in Int
          BY DEF Byte
        <5> QED BY <4>1, <5>1, Zenon
      <4> QED BY <4>2
    <3>5. k = 1 \/ (Len(seqs[i]) = 3 /\ (k = 2 \/ k = 3))
      BY <1>5, InOneOrThree
    <3>6. D[j] = << text[i] >> \/ D[j] = << >>
      BY <1>9, <3>3, <3>5, Zenon
    <3> QED BY <3>4, <3>6
  <2> QED BY <1>4, <1>8, <2>1
<1>11. PICK at : Joins(FlattenSeq(D), D, at)
  BY <1>10, FlattenJoins
<1>12. ASSUME NEW i \in 1..n
       PROVE  at[off[i] + 1] \in Nat /\ at[off[i + 1] + 1] = at[off[i] + 1] + 1
  <2>1. \A j \in 1..Len(E) : /\ at[j] \in Nat /\ at[j + 1] \in Nat
                              /\ at[j + 1] = at[j] + Len(D[j])
    <3>1. \A j \in 1..Len(E) : at[j] \in Nat /\ at[j + 1] \in Nat
      BY <1>10, <1>11, JoinsTypes
    <3>2. \A j \in 1..Len(E) : at[j + 1] = at[j] + Len(D[j])
      BY <1>10, <1>11 DEF Joins
    <3> QED BY <3>1, <3>2, Zenon
  <2>2. off[i] + 1 \in 1..Len(E) /\ off[i] \in Nat
    BY <1>5
  <2>3. Len(<< text[i] >>) = 1 /\ Len(<< >>) = 0
    OBVIOUS
  <2>4. at[(off[i] + 1) + 1] = at[off[i] + 1] + 1 /\ at[off[i] + 1] \in Nat
    BY <1>9, <2>1, <2>2, <2>3
  <2>5. CASE Len(seqs[i]) = 1
    <3>1. off[i + 1] + 1 = (off[i] + 1) + 1
      BY <1>5, <2>5
    <3> QED BY <2>4, <3>1
  <2>6. CASE Len(seqs[i]) = 3
    <3>1. /\ off[i] + 2 \in 1..Len(E) /\ off[i] + 3 \in 1..Len(E)
          /\ off[i + 1] + 1 = (off[i] + 3) + 1 /\ (off[i] + 1) + 1 = off[i] + 2
          /\ (off[i] + 2) + 1 = off[i] + 3
      <4>1. /\ off[i] + 2 \in 1..Len(E) /\ off[i] + 3 \in 1..Len(E)
            /\ off[i + 1] = off[i] + Len(seqs[i])
        BY <1>5, <2>6, Zenon
      <4> QED BY <2>2, <2>6, <4>1
    <3>2. at[off[i] + 3] = at[off[i] + 2] + 0 /\ at[(off[i] + 3) + 1] = at[off[i] + 3] + 0
      BY <1>9, <2>1, <2>3, <2>6, <3>1
    <3>3. at[off[i] + 2] \in Nat /\ at[off[i] + 3] \in Nat
      BY <2>1, <3>1
    <3> QED BY <2>4, <3>1, <3>2, <3>3
  <2> QED BY <1>5, <2>5, <2>6
\* The i-th byte comes from its encoding.
<1> DEFINE P == {i \in Nat : i <= n => at[off[i + 1] + 1] = i}
<1>13. 0 \in P
  <2>1. off[0 + 1] + 1 = 1
    BY <1>4
  <2> QED BY <1>11, <2>1 DEF Joins
<1>14. ASSUME NEW i \in Nat, i \in P PROVE i + 1 \in P
  <2> SUFFICES ASSUME i + 1 <= n PROVE at[off[(i + 1) + 1] + 1] = i + 1
    OBVIOUS
  <2>1. i + 1 \in 1..n /\ i <= n
    BY <1>1
  <2> QED BY <1>12, <1>14, <2>1
<1> HIDE DEF P
<1>15. ASSUME NEW i \in 0..n PROVE at[off[i + 1] + 1] = i
  <2>1. i \in Nat /\ i <= n
    BY <1>1
  <2>2. i \in P
    BY <1>13, <1>14, <2>1, InductiveSet
  <2> QED BY <2>1, <2>2 DEF P
<1> DEFINE F == FlattenSeq(D)
<1>16. F \in Seq(Int)
  BY <1>10, FlattenJoins
<1>17. Len(F) = n
  <2>1. Len(F) = at[Len(E) + 1]
    BY <1>10, <1>11 DEF Joins
  <2> QED BY <1>1, <1>4, <1>15, <2>1
<1>18. ASSUME NEW i \in 1..n PROVE F[i] = text[i]
  <2>1. i - 1 \in 0..n /\ (i - 1) + 1 = i
    BY <1>1
  <2>2. at[off[i] + 1] = i - 1
    BY <1>15, <2>1
  <2>3. off[i] + 1 \in 1..Len(E)
    BY <1>5
  <2>4. D[off[i] + 1] = << text[i] >> /\ 1 \in 1..Len(<< text[i] >>)
    BY <1>9
  <2>5. F[at[off[i] + 1] + 1] = D[off[i] + 1][1]
    BY <1>10, <1>11, <2>3, <2>4 DEF Joins
  <2>6. D[off[i] + 1][1] = text[i]
    BY <2>4
  <2> QED BY <2>1, <2>2, <2>5, <2>6
<1> HIDE DEF F
<1>19. F = text
  BY <1>16, <1>17, <1>18
<1> QED BY <1>8, <1>19 DEF E, F

LEMMA WiderSeq ==
  ASSUME NEW S, NEW T, S \subseteq T, NEW s \in Seq(S)
  PROVE  s \in Seq(T)
<1>1. Len(s) \in Nat /\ s = [i \in 1..Len(s) |-> s[i]] /\ \A i \in 1..Len(s) : s[i] \in T
  OBVIOUS
<1> QED BY <1>1

LEMMA JoinedPair ==
  ASSUME NEW S, NEW a \in Seq(S), NEW b \in Seq(S)
  PROVE  /\ a \o b \in Seq(S) /\ Len(a \o b) = Len(a) + Len(b)
         /\ Len(a) \in Nat /\ Len(b) \in Nat
         /\ \A i \in 1..Len(a) : (a \o b)[i] = a[i]
         /\ \A i \in 1..Len(b) : (a \o b)[Len(a) + i] = b[i]
OBVIOUS

\* Payloads whose values are texts.
IsQuery(m) == DOMAIN m \subseteq 256..LastKey /\ m = [k \in DOMAIN m |-> m[k]]
              /\ \A k \in DOMAIN m : m[k] \in Seq(Byte)
IsLast(m, k) == \A l \in DOMAIN m : l <= k

LEMMA QueryPairIs ==
  ASSUME NEW m, IsQuery(m), NEW k \in DOMAIN m
  PROVE  LET s == QueryPair(m, k)
             e == url_encode(m[k])
             n == Len(e)
         IN  /\ s \in Seq(Nat) /\ n \in Nat /\ e \in Seq(Byte)
             /\ IsLast(m, k) => Len(s) = n + 2
             /\ ~IsLast(m, k) => Len(s) = n + 3 /\ s[n + 3] = Ampersand
             /\ s[1] = k
             /\ \A j \in 1..n : s[j + 2] = e[j]
             /\ \A j \in 1..n + 2 : s[j] # Ampersand
             /\ \A j \in 2..Len(s) : s[j] \in Byte
<1> DEFINE e == url_encode(m[k])
           n == Len(e)
           t == << k, Equals >>
           u == IF IsLast(m, k) THEN << >> ELSE << Ampersand >>
           s == (t \o e) \o u
<1>1. e \in Seq(Byte) /\ \A j \in 1..n : e[j] # Ampersand
  BY UrlEncoded DEF IsQuery
<1> HIDE DEF e
<1>2. n \in Nat /\ \A j \in 1..n : e[j] \in Byte
  BY <1>1
<1>3. e \in Seq(Nat)
  <2>1. Byte \subseteq Nat
    BY DEF Byte
  <2> QED BY <1>1, <2>1, WiderSeq
<1>4. k \in Nat /\ k >= 256
  BY DEF IsQuery
<1>5. t \in Seq(Nat) /\ Len(t) = 2 /\ t[1] = k /\ t[2] = Equals
  BY <1>4 DEF Equals
<1>6. /\ u \in Seq(Nat)
      /\ IsLast(m, k) => Len(u) = 0
      /\ ~IsLast(m, k) => Len(u) = 1 /\ u[1] = Ampersand
  BY DEF Ampersand
<1> HIDE DEF t, u
<1>7. /\ t \o e \in Seq(Nat) /\ Len(t \o e) = n + 2
      /\ (t \o e)[1] = k /\ (t \o e)[2] = Equals
      /\ \A j \in 1..n : (t \o e)[j + 2] = e[j]
  <2>1. /\ t \o e \in Seq(Nat) /\ Len(t \o e) = Len(t) + Len(e)
        /\ \A i \in 1..Len(t) : (t \o e)[i] = t[i]
        /\ \A i \in 1..Len(e) : (t \o e)[Len(t) + i] = e[i]
    <3>1. t \in Seq(Nat) /\ e \in Seq(Nat)
      BY <1>3, <1>5
    <3> HIDE DEF n, s
    <3> QED BY <3>1, JoinedPair
  <2>2. 1 \in 1..2 /\ 2 \in 1..2 /\ \A j \in 1..n : j + 2 = 2 + j
    BY <1>2
  <2> HIDE DEF n
  <2> QED BY <1>2, <1>5, <2>1, <2>2 DEF n
<1> DEFINE v == t \o e
<1> HIDE DEF v
<1>8. /\ v \in Seq(Nat) /\ Len(v) = n + 2 /\ v[1] = k /\ v[2] = Equals
      /\ \A j \in 1..n : v[j + 2] = e[j]
  BY <1>7 DEF v
<1>9. /\ s \in Seq(Nat) /\ Len(s) = n + 2 + Len(u)
      /\ \A j \in 1..n + 2 : s[j] = v[j]
      /\ Len(u) = 1 => s[n + 3] = u[1]
  <2>1. /\ v \o u \in Seq(Nat) /\ Len(v \o u) = Len(v) + Len(u) /\ Len(u) \in Nat
        /\ \A i \in 1..Len(v) : (v \o u)[i] = v[i]
        /\ \A i \in 1..Len(u) : (v \o u)[Len(v) + i] = u[i]
    <3>1. v \in Seq(Nat) /\ u \in Seq(Nat)
      BY <1>6, <1>8
    <3> HIDE DEF n, s
    <3> QED BY <3>1, JoinedPair
  <2>2. Len(u) = 1 => (v \o u)[(n + 2) + 1] = u[1]
    <3>1. Len(u) = 1 => 1 \in 1..Len(u)
      OBVIOUS
    <3> QED BY <1>8, <2>1, <3>1, Zenon
  <2>3. (n + 2) + 1 = n + 3
    BY <1>2
  <2> QED BY <1>8, <2>1, <2>2, <2>3 DEF v
<1> HIDE DEF s
<1>10. /\ s[1] = k /\ s[2] = Equals
       /\ \A j \in 1..n : s[j + 2] = e[j]
  <2>1. 1 \in 1..n + 2 /\ 2 \in 1..n + 2 /\ \A j \in 1..n : j + 2 \in 1..n + 2
    BY <1>2
  <2> QED BY <1>8, <1>9, <2>1
<1>11. \A j \in 1..n + 2 : s[j] # Ampersand /\ (j # 1 => s[j] \in Byte)
  <2> TAKE j \in 1..n + 2
  <2>1. CASE j = 1
    BY <1>4, <1>10, <2>1 DEF Ampersand
  <2>2. CASE j = 2
    BY <1>10, <2>2 DEF Equals, Ampersand, Byte
  <2>3. CASE j > 2
    <3>1. j - 2 \in 1..n /\ (j - 2) + 2 = j
      BY <1>2, <2>3
    <3>2. s[j] = e[j - 2]
      BY <1>10, <3>1
    <3> QED BY <1>1, <1>2, <2>3, <3>1, <3>2
  <2> QED BY <1>2, <2>1, <2>2, <2>3
<1>12. CASE IsLast(m, k)
  <2>1. Len(s) = n + 2
    BY <1>2, <1>6, <1>9, <1>12
  <2>2. \A j \in 2..Len(s) : s[j] \in Byte
    BY <1>2, <1>11, <2>1
  <2> QED BY <1>1, <1>2, <1>9, <1>10, <1>11, <1>12, <2>1, <2>2 DEF s, QueryPair, IsLast, e, t, u
<1>13. CASE ~IsLast(m, k)
  <2>1. Len(s) = n + 3 /\ s[n + 3] = Ampersand
    <3>1. Len(u) = 1 /\ u[1] = Ampersand
      BY <1>6, <1>13
    <3>2. n + 2 + 1 = n + 3
      BY <1>2
    <3> QED BY <1>9, <3>1, <3>2
  <2>2. \A j \in 2..Len(s) : s[j] \in Byte
    <3> TAKE j \in 2..Len(s)
    <3>1. CASE j = n + 3
      BY <2>1, <3>1 DEF Ampersand, Byte
    <3>2. CASE j # n + 3
      BY <1>2, <1>11, <2>1, <3>2
    <3> QED BY <3>1, <3>2
  <2> QED BY <1>1, <1>2, <1>9, <1>10, <1>11, <1>13, <2>1, <2>2 DEF s, QueryPair, IsLast, e, t, u
<1> QED BY <1>12, <1>13

Parts(m) == [i \in 1..LastKey - 255 |->
              IF 255 + i \in DOMAIN m THEN QueryPair(m, 255 + i) ELSE << >>]

\* A query string Q, made of the pairs of m, which are behind the offsets.
Query(Q, m, off) ==
  IsQuery(m) /\ Q \in Seq(Nat) /\ Joins(Q, Parts(m), off)

LEMMA QueryJoins ==
  ASSUME NEW m, IsQuery(m)
  PROVE  \E off : Query(map_to_query_string(m), m, off)
<1> DEFINE n == LastKey - 255
<1>1. n \in Nat
  BY DEF LastKey
<1>2. ASSUME NEW i \in 1..n
      PROVE  (IF 255 + i \in DOMAIN m THEN QueryPair(m, 255 + i) ELSE << >>) \in Seq(Nat)
  <2>1. CASE 255 + i \in DOMAIN m
    <3>1. QueryPair(m, 255 + i) \in Seq(Nat)
      BY <2>1, QueryPairIs
    <3> QED BY <2>1, <3>1
  <2>2. CASE 255 + i \notin DOMAIN m
    BY <2>2
  <2> QED BY <2>1, <2>2
<1>3. Parts(m) \in Seq(Seq(Nat))
  <2> DEFINE part(i) == IF 255 + i \in DOMAIN m THEN QueryPair(m, 255 + i) ELSE << >>
  <2>1. \A i \in 1..n : part(i) \in Seq(Nat)
    BY <1>2
  <2>2. Parts(m) = [i \in 1..n |-> part(i)]
    BY DEF Parts
  <2> HIDE DEF part, n
  <2> DEFINE S == Seq(Nat)
  <2>3. \A i \in 1..n : part(i) \in S
    BY <2>1
  <2> HIDE DEF S
  <2>4. [i \in 1..n |-> part(i)] \in Seq(S)
    BY <1>1, <2>3
  <2> QED BY <2>2, <2>4 DEF S
<1>4. map_to_query_string(m) = FlattenSeq(Parts(m))
  BY DEF map_to_query_string, Parts
<1> QED BY <1>3, <1>4, FlattenJoins DEF Query

\* The parts, and where they are in Q.
LEMMA QueryParts ==
  ASSUME NEW Q, NEW m, NEW off, Query(Q, m, off)
  PROVE  /\ Len(Q) \in Nat /\ DOMAIN Q = 1..Len(Q)
         /\ \A k \in DOMAIN m :
              /\ k \in Nat /\ k >= 256 /\ k - 255 \in 1..Len(Parts(m))
              /\ Parts(m)[k - 255] = QueryPair(m, k)
              /\ off[k - 255] \in Nat
              /\ off[k - 255] + Len(QueryPair(m, k)) <= Len(Q)
              /\ \A j \in 1..Len(QueryPair(m, k)) : Q[off[k - 255] + j] = QueryPair(m, k)[j]
         /\ \A j \in 1..Len(Q) :
              \E k \in DOMAIN m : \E i \in 1..Len(QueryPair(m, k)) :
                j = off[k - 255] + i /\ Q[j] = QueryPair(m, k)[i]
<1> DEFINE n == LastKey - 255
           parts == Parts(m)
<1>1. n \in Nat /\ n = 26
  BY DEF LastKey
<1>2. Len(parts) = n /\ \A i \in 1..n : parts[i] =
        IF 255 + i \in DOMAIN m THEN QueryPair(m, 255 + i) ELSE << >>
  BY <1>1 DEF Parts
<1>3. Joins(Q, parts, off)
  BY DEF Query
<1>4. Len(Q) \in Nat /\ DOMAIN Q = 1..Len(Q)
  BY DEF Query
<1> HIDE DEF parts
<1>5. ASSUME NEW k \in DOMAIN m
      PROVE  /\ k \in Nat /\ k >= 256 /\ k - 255 \in 1..Len(parts)
             /\ parts[k - 255] = QueryPair(m, k)
             /\ off[k - 255] \in Nat
             /\ off[k - 255] + Len(QueryPair(m, k)) <= Len(Q)
             /\ \A j \in 1..Len(QueryPair(m, k)) : Q[off[k - 255] + j] = QueryPair(m, k)[j]
  <2> DEFINE i == k - 255
             q == QueryPair(m, k)
  <2>1. k \in 256..LastKey
    BY DEF Query, IsQuery
  <2>2. k \in Nat /\ k >= 256 /\ i \in 1..n /\ 255 + i = k
    BY <2>1 DEF LastKey
  <2>3. parts[i] = q
    BY <1>2, <2>2
  <2> HIDE DEF q, i
  <2>4. off[i] \in Nat /\ off[i + 1] \in Nat /\ i \in 1..Len(parts)
    BY <1>2, <1>3, <2>2, JoinsTypes
  <2>5. /\ off[i + 1] = off[i] + Len(q)
        /\ \A j \in 1..Len(q) : Q[off[i] + j] = q[j]
    BY <1>3, <2>3, <2>4 DEF Joins
  <2>6. off[i + 1] <= Len(Q)
    <3>1. i + 1 \in 1..Len(parts) + 1 /\ Len(parts) + 1 \in (i + 1)..Len(parts) + 1
      BY <1>1, <1>2, <2>4
    <3>2. off[i + 1] <= off[Len(parts) + 1]
      BY <1>3, <3>1, OffsetsGrow
    <3> QED BY <1>3, <3>2 DEF Joins
  <2> QED BY <2>2, <2>3, <2>4, <2>5, <2>6 DEF q, i
<1>7. \A j \in 1..Len(Q) : \E l \in 1..Len(parts) : \E i \in 1..Len(parts[l]) :
        j = off[l] + i /\ Q[j] = parts[l][i]
  BY <1>3, JoinsCovers
<1>6. ASSUME NEW j \in 1..Len(Q)
      PROVE  \E k \in DOMAIN m : \E i \in 1..Len(QueryPair(m, k)) :
               j = off[k - 255] + i /\ Q[j] = QueryPair(m, k)[i]
  <2>0. \E l \in 1..Len(parts) : \E i \in 1..Len(parts[l]) : j = off[l] + i /\ Q[j] = parts[l][i]
    BY <1>7
  <2>1. PICK l \in 1..Len(parts) : \E i \in 1..Len(parts[l]) : j = off[l] + i /\ Q[j] = parts[l][i]
    BY <2>0, Zenon
  <2>2. PICK i \in 1..Len(parts[l]) : j = off[l] + i /\ Q[j] = parts[l][i]
    BY <2>1
  <2>3. 255 + l \in DOMAIN m
    <3>1. SUFFICES ASSUME parts[l] = << >> PROVE FALSE
      BY <1>2
    <3>2. Len(<< >>) = 0
      OBVIOUS
    <3>3. i \in 1..0
      BY <2>2, <3>1, <3>2
    <3> QED BY <3>3
  <2>4. parts[l] = QueryPair(m, 255 + l) /\ (255 + l) - 255 = l
    BY <1>1, <1>2, <2>3
  <2> QED BY <2>2, <2>3, <2>4
<1> QED BY <1>4, <1>5, <1>6 DEF parts

\* The pairs are in the order of their keys.
LEMMA QueryOrder ==
  ASSUME NEW Q, NEW m, NEW off, Query(Q, m, off), NEW k \in DOMAIN m, NEW l \in DOMAIN m,
         k < l
  PROVE  off[k - 255] + Len(QueryPair(m, k)) <= off[l - 255]
<1> DEFINE parts == Parts(m)
           i == k - 255
<1>1. /\ k \in Nat /\ l \in Nat /\ i \in 1..Len(parts) /\ l - 255 \in 1..Len(parts)
      /\ parts[i] = QueryPair(m, k)
  BY QueryParts
<1>2. Joins(Q, parts, off) /\ Len(parts) \in Nat
  BY JoinsTypes DEF Query
<1> HIDE DEF parts
<1> HIDE DEF i
<1>3. off[i + 1] = off[i] + Len(QueryPair(m, k))
  <2>1. off[i + 1] = off[i] + Len(parts[i])
    BY <1>1, <1>2, Zenon DEF Joins
  <2> QED BY <1>1, <2>1, Zenon
<1>4. i + 1 \in 1..Len(parts) + 1 /\ l - 255 \in (i + 1)..Len(parts) + 1
  BY <1>1, <1>2 DEF i
<1>5. off[i + 1] <= off[l - 255]
  BY <1>2, <1>4, OffsetsGrow
<1> QED BY <1>3, <1>5 DEF i

\* Only the pairs' keys are above the bytes.
LEMMA KeyPlaces ==
  ASSUME NEW Q, NEW m, NEW off, Query(Q, m, off), NEW j \in 1..Len(Q), Q[j] >= 256
  PROVE  Q[j] \in DOMAIN m /\ j = off[Q[j] - 255] + 1
<1>1. PICK k \in DOMAIN m : \E i \in 1..Len(QueryPair(m, k)) :
        j = off[k - 255] + i /\ Q[j] = QueryPair(m, k)[i]
  BY QueryParts
<1>2. PICK i \in 1..Len(QueryPair(m, k)) : j = off[k - 255] + i /\ Q[j] = QueryPair(m, k)[i]
  BY <1>1
<1>3. IsQuery(m)
  BY DEF Query
<1> DEFINE s == QueryPair(m, k)
<1>4. s[1] = k /\ Len(s) \in Nat /\ \A h \in 2..Len(s) : s[h] \in Byte
  BY <1>3, QueryPairIs
<1> HIDE DEF s
<1>5. i = 1
  <2>1. SUFFICES ASSUME i \in 2..Len(s) PROVE FALSE
    BY <1>4 DEF s
  <2>2. Q[j] \in Byte
    BY <1>2, <1>4, <2>1 DEF s
  <2>3. \A b \in Byte : ~(b >= 256)
    BY DEF Byte
  <2> QED BY <2>2, <2>3, Zenon
<1> QED BY <1>2, <1>4, <1>5 DEF s

\* A pair ends with an ampersand, which is no other character of it, or is the last.
LEMMA Ampersands ==
  ASSUME NEW m, IsQuery(m), NEW k \in DOMAIN m
  PROVE  LET s == QueryPair(m, k) IN
         /\ Len(s) \in Nat /\ Len(s) >= 1
         /\ \A j \in 1..Len(s) : s[j] = Ampersand => j = Len(s) /\ ~IsLast(m, k)
         /\ ~IsLast(m, k) => s[Len(s)] = Ampersand
<1> DEFINE s == QueryPair(m, k)
           n == Len(url_encode(m[k]))
<1>1. /\ n \in Nat
      /\ IsLast(m, k) => Len(s) = n + 2
      /\ ~IsLast(m, k) => Len(s) = n + 3 /\ s[n + 3] = Ampersand
      /\ \A j \in 1..n + 2 : s[j] # Ampersand
  BY QueryPairIs
<1> HIDE DEF s, n
<1>2. CASE IsLast(m, k)
  BY <1>1, <1>2 DEF s
<1>3. CASE ~IsLast(m, k)
  <2>1. Len(s) = n + 3
    BY <1>1, <1>3
  <2>2. ASSUME NEW j \in 1..Len(s), s[j] = Ampersand PROVE j = Len(s)
    BY <1>1, <2>1, <2>2
  <2> QED BY <1>1, <1>3, <2>1, <2>2 DEF s
<1> QED BY <1>2, <1>3

\* A field begins where a pair begins.
LEMMA BeginsAreKeys ==
  ASSUME NEW Q, NEW m, NEW off, Query(Q, m, off)
  PROVE  /\ \A j \in FieldsBegin(Q) : j \in 1..Len(Q) /\ Q[j] \in DOMAIN m
         /\ \A k \in DOMAIN m : off[k - 255] + 1 \in FieldsBegin(Q) /\ Q[off[k - 255] + 1] = k
<1> DEFINE P(k) == off[k - 255]
           L(k) == Len(QueryPair(m, k))
<1>0. IsQuery(m)
  BY DEF Query
<1>1. \A k \in DOMAIN m : P(k) \in Nat /\ L(k) \in Nat /\ L(k) >= 1
                       /\ P(k) + L(k) <= Len(Q) /\ k \in Nat
  BY <1>0, QueryParts, Ampersands
<1>2. \A k, l \in DOMAIN m : k < l => P(k) + L(k) <= P(l)
  BY QueryOrder
<1>3. /\ Len(Q) \in Nat /\ DOMAIN Q = 1..Len(Q)
      /\ \A j \in 1..Len(Q) : \E k \in DOMAIN m : \E i \in 1..L(k) :
           j = P(k) + i /\ Q[j] = QueryPair(m, k)[i]
  BY QueryParts
<1>4. \A k \in DOMAIN m : Q[P(k) + 1] = k
  <2> TAKE k \in DOMAIN m
  <2>1. 1 \in 1..L(k)
    BY <1>1
  <2>2. Q[P(k) + 1] = QueryPair(m, k)[1]
    BY <2>1, QueryParts
  <2> QED BY <1>0, <2>2, QueryPairIs
<1> HIDE DEF P, L
<1>5. ASSUME NEW j \in FieldsBegin(Q) PROVE j \in 1..Len(Q) /\ Q[j] \in DOMAIN m
  <2>0. j \in 1..Len(Q) /\ (j = 1 \/ Q[j - 1] = Ampersand)
    BY <1>3 DEF FieldsBegin
  <2>1. PICK k \in DOMAIN m : \E i \in 1..L(k) : j = P(k) + i
    BY <1>3, <2>0
  <2>2. PICK i \in 1..L(k) : j = P(k) + i
    BY <2>1
  <2>3. i = 1
    <3>1. CASE j = 1
      BY <1>1, <2>2, <3>1
    <3>2. CASE j # 1
      <4>1. j - 1 \in 1..Len(Q)
        BY <1>3, <2>0, <3>2
      <4>2. PICK l \in DOMAIN m 
               : \E h \in 1..L(l) : j - 1 = P(l) + h /\ Q[j - 1] = QueryPair(m, l)[h]
        BY <1>3, <4>1
      <4>3. PICK h \in 1..L(l) : j - 1 = P(l) + h /\ Q[j - 1] = QueryPair(m, l)[h]
        BY <4>2
      <4>4. h = L(l)
        BY <1>0, <2>0, <3>2, <4>3, Ampersands DEF L
      <4>5. CASE k = l
        BY <1>1, <2>2, <4>3, <4>4, <4>5
      <4>6. CASE k < l
        <5>1. P(k) + L(k) <= P(l)
          BY <1>2, <4>6
        <5> QED BY <1>1, <2>2, <4>3, <5>1
      <4>7. CASE l < k
        <5>1. P(l) + L(l) <= P(k)
          BY <1>2, <4>7
        <5> QED BY <1>1, <2>2, <4>3, <4>4, <5>1
      <4> QED BY <1>1, <4>5, <4>6, <4>7
    <3> QED BY <3>1, <3>2
  <2> QED BY <1>4, <2>0, <2>2, <2>3
<1>6. ASSUME NEW k \in DOMAIN m PROVE P(k) + 1 \in FieldsBegin(Q)
  <2>1. P(k) + 1 \in 1..Len(Q) /\ (P(k) + 1) - 1 = P(k)
    BY <1>1, <1>3
  <2>2. SUFFICES ASSUME P(k) # 0 PROVE Q[P(k)] = Ampersand
    <3>1. CASE P(k) = 0
      <4>1. P(k) + 1 = 1
        BY <3>1
      <4> QED BY <1>3, <2>1, <4>1 DEF FieldsBegin
    <3>2. CASE Q[P(k)] = Ampersand
      BY <1>3, <2>1, <3>2 DEF FieldsBegin
    <3> QED BY <3>1, <3>2
  <2>3. P(k) \in 1..Len(Q)
    BY <1>1, <1>3, <2>2
  <2>4. PICK l \in DOMAIN m : \E h \in 1..L(l) : P(k) = P(l) + h /\ Q[P(k)] = QueryPair(m, l)[h]
    BY <1>3, <2>3
  <2>5. PICK h \in 1..L(l) : P(k) = P(l) + h /\ Q[P(k)] = QueryPair(m, l)[h]
    BY <2>4
  <2>6. k # l
    BY <1>1, <2>5
  <2>7. ~(k < l)
    <3>1. SUFFICES ASSUME k < l PROVE FALSE
      OBVIOUS
    <3>2. P(k) + L(k) <= P(l)
      BY <1>2, <3>1
    <3> QED BY <1>1, <2>5, <3>2
  <2>8. l < k
    BY <1>1, <2>6, <2>7
  <2>9. h = L(l)
    <3>1. P(l) + L(l) <= P(k)
      BY <1>2, <2>8
    <3> QED BY <1>1, <2>5, <3>1
  <2>10. ~IsLast(m, l)
    BY <1>1, <2>8 DEF IsLast
  <2> QED BY <1>0, <2>5, <2>9, <2>10, Ampersands DEF L
<1> QED BY <1>4, <1>5, <1>6 DEF P

\* It ends where the pair ends, but for the ampersand.
LEMMA FieldEnds ==
  ASSUME NEW Q, NEW m, NEW off, Query(Q, m, off), NEW k \in DOMAIN m
  PROVE  FieldEnd(Q, off[k - 255] + 1) = off[k - 255] + 2 + Len(url_encode(m[k]))
<1> DEFINE a == off[k - 255]
           s == QueryPair(m, k)
           n == Len(url_encode(m[k]))
           I == {j \in a + 1..Len(Q) : Q[j] = Ampersand}
           end == SelectInSubSeq(Q, a + 1, Len(Q), LAMBDA c : c = Ampersand)
<1>0. IsQuery(m)
  BY DEF Query
<1>1. /\ a \in Nat /\ Len(Q) \in Nat /\ a + Len(s) <= Len(Q)
      /\ \A j \in 1..Len(s) : Q[a + j] = s[j]
  <2> HIDE DEF n, I, end
  <2>1. Len(Q) \in Nat /\ a \in Nat
    BY QueryParts
  <2>2. a + Len(s) <= Len(Q) /\ \A j \in 1..Len(s) : Q[a + j] = s[j]
    BY QueryParts
  <2> QED BY <2>1, <2>2
<1>2. /\ n \in Nat
      /\ IsLast(m, k) => Len(s) = n + 2
      /\ ~IsLast(m, k) => Len(s) = n + 3 /\ s[n + 3] = Ampersand
      /\ \A j \in 1..n + 2 : s[j] # Ampersand
  BY <1>0, QueryPairIs
<1>3. end = IF I # {} THEN Min(I) ELSE 0
  BY DEF SelectInSubSeq
<1>4. FieldEnd(Q, a + 1) = IF end = 0 THEN Len(Q) ELSE end - 1
  BY DEF FieldEnd
<1>5. ASSUME IsLast(m, k), NEW j \in a + 1..Len(Q) PROVE j - a \in 1..Len(s) /\ Q[j] = s[j - a]
  <2>1. j \in 1..Len(Q)
    BY <1>1
  <2>2. PICK l \in DOMAIN m : \E i \in 1..Len(QueryPair(m, l)) :
          j = off[l - 255] + i /\ Q[j] = QueryPair(m, l)[i]
    BY <2>1, QueryParts
  <2>3. PICK i \in 1..Len(QueryPair(m, l)) : j = off[l - 255] + i /\ Q[j] = QueryPair(m, l)[i]
    BY <2>2
  <2>4. off[l - 255] \in Nat /\ Len(QueryPair(m, l)) \in Nat /\ l \in Nat /\ k \in Nat
    BY <1>0, QueryParts, Ampersands
  <2>5. ~(l < k)
    <3>1. SUFFICES ASSUME l < k PROVE FALSE
      OBVIOUS
    <3>2. off[l - 255] + Len(QueryPair(m, l)) <= a
      BY <3>1, QueryOrder
    <3> HIDE DEF a
    <3> QED BY <1>1, <2>3, <2>4, <3>2
  <2>6. l = k
    BY <1>5, <2>4, <2>5 DEF IsLast
  <2>7. j = a + i /\ i \in 1..Len(s) /\ Q[j] = s[i]
    BY <2>3, <2>6
  <2> HIDE DEF a, s
  <2>8. i = j - a
    BY <1>1, <1>2, <1>5, <2>7
  <2> QED BY <2>7, <2>8
<1> HIDE DEF a, s, n, end
<1>6. CASE IsLast(m, k)
  <2>1. I = {}
    BY <1>2, <1>5, <1>6
  <2>2. Len(Q) = a + 2 + n
    <3>1. Len(Q) \in a + 1..Len(Q)
      BY <1>1, <1>2, <1>6
    <3>2. Len(Q) - a \in 1..Len(s)
      BY <1>5, <1>6, <3>1
    <3> QED BY <1>1, <1>2, <1>6, <3>2
  <2> QED BY <1>3, <1>4, <2>1, <2>2 DEF a, n
<1>7. CASE ~IsLast(m, k)
  <2> DEFINE x == a + n + 3
  <2>1. Len(s) = n + 3 /\ x \in a + 1..Len(Q) /\ x = a + (n + 3) /\ n + 3 \in 1..Len(s)
    BY <1>1, <1>2, <1>7
  <2>2. Q[x] = Ampersand
    BY <1>1, <1>2, <1>7, <2>1
  <2>3. x \in I /\ I \subseteq Nat
    BY <1>1, <2>1, <2>2
  <2>4. ASSUME NEW j \in I PROVE x <= j
    <3>1. SUFFICES ASSUME j < x PROVE FALSE
      BY <1>1, <1>2
    <3>2. j - a \in 1..n + 2 /\ j - a \in 1..Len(s) /\ a + (j - a) = j
      BY <1>1, <1>2, <2>1, <3>1
    <3>3. Q[j] = s[j - a] /\ s[j - a] # Ampersand
      BY <1>1, <1>2, <3>2
    <3> QED BY <3>3
  <2> HIDE DEF x, I
  <2>5. Min(I) = x /\ I # {}
    BY <2>3, <2>4, MinIs
  <2>6. end = x /\ x # 0 /\ x - 1 = a + 2 + n
    BY <1>1, <1>2, <1>3, <2>5 DEF x
  <2> QED BY <1>4, <2>6 DEF a, n
<1> QED BY <1>6, <1>7

\* A collector that splits a query string at its ampersands and decodes the
\* escapes receives the payload map_to_query_string made it of: url_encode
\* leaves no ampersand and no percent sign of a value as it is.
THEOREM QueryReceived ==
  ASSUME NEW m, IsQuery(m)
  PROVE  Received(map_to_query_string(m)) = m
<1> DEFINE Q == map_to_query_string(m)
<1>1. PICK off : Query(Q, m, off)
  BY QueryJoins
<1> HIDE DEF Q
<1>2. {Q[i] : i \in FieldsBegin(Q)} = DOMAIN m
  <2>1. \A i \in FieldsBegin(Q) : Q[i] \in DOMAIN m
    BY <1>1, BeginsAreKeys
  <2>2. ASSUME NEW k \in DOMAIN m PROVE \E i \in FieldsBegin(Q) : Q[i] = k
    BY <1>1, BeginsAreKeys
  <2> QED BY <2>1, <2>2
<1>3. ASSUME NEW k \in DOMAIN m
      PROVE  LET begin == CHOOSE i \in FieldsBegin(Q) : Q[i] = k
             IN  Decoded(SubSeq(Q, begin + 2, FieldEnd(Q, begin))) = m[k]
  <2> DEFINE begin == CHOOSE i \in FieldsBegin(Q) : Q[i] = k
             a == off[k - 255]
             e == url_encode(m[k])
  <2>1. begin \in FieldsBegin(Q) /\ Q[begin] = k
    BY <1>1, BeginsAreKeys
  <2> HIDE DEF begin
  <2>2. begin = a + 1
    <3>1. begin \in 1..Len(Q)
      BY <1>1, <2>1, BeginsAreKeys
    <3>2. k >= 256
      BY <1>1, QueryParts
    <3> QED BY <1>1, <2>1, <3>1, <3>2, KeyPlaces
  <2>3. FieldEnd(Q, begin) = a + 2 + Len(e)
    BY <1>1, <2>2, FieldEnds
  <2>4. /\ a \in Nat /\ Len(Q) \in Nat /\ a + Len(QueryPair(m, k)) <= Len(Q)
        /\ \A j \in 1..Len(QueryPair(m, k)) : Q[a + j] = QueryPair(m, k)[j]
    BY <1>1, QueryParts
  <2>5. /\ Len(e) \in Nat /\ e \in Seq(Byte)
        /\ Len(QueryPair(m, k)) = Len(e) + 2 \/ Len(QueryPair(m, k)) = Len(e) + 3
        /\ \A j \in 1..Len(e) : QueryPair(m, k)[j + 2] = e[j]
    BY QueryPairIs
  <2> HIDE DEF a, e
  <2>6. Q \in Seq(Nat)
    BY <1>1 DEF Query
  <2> DEFINE L == Len(QueryPair(m, k))
             v == SubSeq(Q, a + 3, a + 2 + Len(e))
  <2>7. ASSUME NEW j \in 1..Len(e) PROVE v[j] = e[j]
    <3>1. j + 2 \in 1..L /\ a + (j + 2) = (a + 3) + j - 1 /\ (a + 3) + j - 1 \in 1..Len(Q)
      <4>1. j + 2 \in 1..L
        BY <2>5
      <4>2. a + (j + 2) = (a + 3) + j - 1
        BY <2>4, <2>5
      <4> QED BY <2>4, <2>5, <4>1, <4>2, SMTT(30)
    <3>2. v[j] = Q[(a + 3) + j - 1]
      <4>1. a + 3 \in 1..Len(Q) + 1 /\ a + 2 + Len(e) \in a + 2..Len(Q)
            /\ j \in 1..(a + 2 + Len(e)) - (a + 3) + 1
        BY <2>4, <2>5
      <4> QED BY <2>4, <2>5, <2>6, <4>1, SMTT(30)
    <3> QED BY <2>4, <2>5, <3>1, <3>2
  <2>8. v = e
    <3>1. Len(v) = Len(e) /\ v \in Seq(Nat)
      <4>1. a + 3 \in Nat /\ a + 2 + Len(e) \in Nat /\ 1 <= a + 3 /\ a + 2 + Len(e) <= Len(Q)
            /\ (a + 2 + Len(e)) - (a + 3) + 1 = Len(e)
        BY <2>4, <2>5
      <4> QED BY <2>4, <2>5, <2>6, <4>1
    <3> HIDE DEF v
    <3> QED BY <2>5, <2>7, <3>1
  <2>9. SubSeq(Q, begin + 2, FieldEnd(Q, begin)) = e
    BY <2>2, <2>3, <2>4, <2>8
  <2>10. Decoded(e) = m[k]
    BY DecodedIsText DEF e, IsQuery
  <2> QED BY <2>9, <2>10 DEF begin
<1>4. Received(Q) = [k \in DOMAIN m |-> m[k]]
  BY <1>2, <1>3 DEF Received
<1> QED BY <1>4 DEF Q, IsQuery

(***************************************************************************)
(* The inductive invariant                                                 *)
(***************************************************************************)
Steps == {"idle", "subject", "use_subject", "event_subject", "session", "desktop", "add"}

\* The events of calls that ended, or will end, without a row; the end of such a
\* call that got past get_payload; and set_subject, with a Subject or none.
Unstored == threw \cup lost
AddUnstored(t) == AddEventFails(t) \/ AddEventThrows(t)
ChangeSubject == SetSubject({}) \/ \E s \in DOMAIN Subjects : SetSubject({s})

\* A payload that has the id of event e.
HasEid(p, e) == Key.eid \in DOMAIN p /\ p[Key.eid] = << e >>

TrackingTyped ==
  /\ tracker \in [subject : SUBSET DOMAIN Subjects, method : {"GET", "POST"},
                  use_base64 : BOOLEAN, desktop_context : BOOLEAN,
                  client_session : BOOLEAN]
  /\ DOMAIN subjects = DOMAIN Subjects
  /\ \A s \in DOMAIN subjects : Key.eid \notin DOMAIN subjects[s]
  /\ step \in [Thread -> Steps]
  /\ \E P : /\ call \in [Thread -> [event : Event \cup {NoEvent}, payload : P]]
            /\ log \in Seq(P)
  /\ \E S : begun \in [DOMAIN begun -> [data : EventData, at : Nat, shared : S, own : S,
                                        after : SUBSET Event]]
  /\ DOMAIN begun \subseteq Event
  /\ Unstored \subseteq Event /\ lost \subseteq DOMAIN begun

\* Each call under way has an event of its own, and what a call has seen
\* returned has returned.
CallInv ==
  /\ \A t \in Thread : step[t] = "idle" <=> call[t].event = NoEvent
  /\ \A t \in Thread : call[t].event # NoEvent => call[t].event \in DOMAIN begun \ Unstored
  /\ \A t, u \in Thread : call[t].event # NoEvent /\ call[t].event = call[u].event => t = u
  /\ \A f \in DOMAIN begun : begun[f].after \subseteq Returned

\* An event is lost by the store or refused, not both.
SplitInv == threw \cap lost = {}

\* A payload keeps its event's id on the way to the store, and the store has
\* those of the calls that have returned, each once and in the calls' order.
LogInv ==
  /\ \A t \in Thread : call[t].event # NoEvent => HasEid(call[t].payload, call[t].event)
  /\ \A i \in DOMAIN log : \E e \in Returned \ Unstored : HasEid(log[i], e)
  /\ \A i, j \in DOMAIN log : log[i][Key.eid] = log[j][Key.eid] => i = j
  /\ \A e \in Returned \ Unstored : \E i \in DOMAIN log : HasEid(log[i], e)
  /\ \A i, j \in DOMAIN log : \A f \in DOMAIN begun : \A e \in begun[f].after :
       HasEid(log[i], e) /\ HasEid(log[j], f) => i < j

\* Where a call is in the session.
InSessionInv ==
  /\ \A t \in Thread : pc[t] # "idle" =>
       tracker.client_session /\ step[t] \in {"session", "desktop", "add"}
  /\ \A t \in Thread : tracker.client_session /\ step[t] \in {"desktop", "add"} =>
       pc[t] = "add"
  /\ \A t \in Thread : context[t].event = IF pc[t] = "idle" THEN NoEvent ELSE call[t].event
  /\ \A c \in tracked : c.event \in Returned \ Unstored
  /\ \A c \in discarded : c.event \in Returned
  /\ tracker.client_session => \A e \in Returned \ Unstored : \E c \in tracked : c.event = e

\* c is in an earlier session than d, or earlier in the same one.
Before(c, d) == \/ c.session.id < d.session.id
                \/ c.session.id = d.session.id /\ c.event_index < d.event_index

\* The session under way is the newest, and the contexts are in the order of
\* the calls as soon as the session has counted them.
OrderInv ==
  /\ m_is_new_session \/ m_session_context_data.id = uuids
  /\ \A c \in tracked, d \in tracked \cup Counted :
       c.event \in begun[d.event].after => Before(c, d)

(***************************************************************************)
(* Payloads                                                                *)
(***************************************************************************)
LEMMA Single ==
  ASSUME NEW k, NEW v
  PROVE  DOMAIN Pair(k, v) = {k} /\ Pair(k, v)[k] = v
BY DEF Pair

LEMMA OptionalDomain ==
  ASSUME NEW k, NEW field
  PROVE  DOMAIN OptionalPair(k, field) \subseteq {k}
BY DEF OptionalPair

\* What is added under other keys leaves the id as it is.
LEMMA AddKeepsEid ==
  ASSUME NEW p, NEW e, HasEid(p, e), NEW k, NEW v, k # Key.eid
  PROVE  HasEid(add(p, k, v), e)
<1>1. CASE v = << >>
  BY <1>1 DEF add
<1>2. CASE v # << >>
  <2>1. add(p, k, v) = Pair(k, v) ++ p
    BY <1>2 DEF add
  <2> DEFINE f == Pair(k, v)
  <2>2. DOMAIN f = {k}
    BY Single
  <2> HIDE DEF f
  <2>3. Key.eid \in DOMAIN p \ DOMAIN f
    BY <2>2 DEF HasEid
  <2>4. Key.eid \in DOMAIN (f ++ p) /\ (f ++ p)[Key.eid] = p[Key.eid]
    BY <2>3 DEF ++
  <2>5. HasEid(f ++ p, e)
    BY <2>4 DEF HasEid
  <2> QED BY <2>1, <2>5 DEF f
<1> QED BY <1>1, <1>2

LEMMA AddMapKeepsEid ==
  ASSUME NEW p, NEW e, HasEid(p, e), NEW m, Key.eid \notin DOMAIN m
  PROVE  HasEid(add_map(p, m), e)
<1> DEFINE f == [k \in {l \in DOMAIN m : m[l] # << >>} |-> m[k]]
<1>1. Key.eid \in DOMAIN p \ DOMAIN f
  BY DEF HasEid
<1>2. add_map(p, m) = f ++ p
  BY DEF add_map
<1> HIDE DEF f
<1>3. Key.eid \in DOMAIN (f ++ p) /\ (f ++ p)[Key.eid] = p[Key.eid]
  BY <1>1 DEF ++
<1> QED BY <1>2, <1>3 DEF HasEid

LEMMA EventPayloadHasEid ==
  ASSUME NEW e, NEW dtm
  PROVE  HasEid(EventPayload(<< e >>, dtm), e)
<1> DEFINE p == add(NoPairs, Key.dtm, dtm)
           f == Pair(Key.eid, << e >>)
<1>1. EventPayload(<< e >>, dtm) = f ++ p
  BY DEF EventPayload, add
<1>2. DOMAIN f = {Key.eid} /\ f[Key.eid] = << e >>
  BY Single
<1> HIDE DEF p, f
<1>3. Key.eid \in DOMAIN (f ++ p) /\ (f ++ p)[Key.eid] = << e >>
  BY <1>2 DEF ++
<1> QED BY <1>1, <1>3 DEF HasEid

\* No kind of event has a pair that takes the place of the id.
LEMMA StructuredPairsDomain ==
  ASSUME NEW ev
  PROVE  Key.eid \notin DOMAIN StructuredPairs(ev)
<1> DEFINE f1 == Pair(Key.e, Structured)
           f2 == Pair(Key.se_ac, ev.action)
           f3 == Pair(Key.se_ca, ev.category)
           f4 == OptionalPair(Key.se_la, ev.label)
           f5 == OptionalPair(Key.se_pr, ev.property)
           f6 == OptionalPair(Key.se_va, ev.value)
<1>1. /\ DOMAIN f1 = {Key.e} /\ DOMAIN f2 = {Key.se_ac} /\ DOMAIN f3 = {Key.se_ca}
  BY Single
<1>2. /\ DOMAIN f4 \subseteq {Key.se_la} /\ DOMAIN f5 \subseteq {Key.se_pr}
      /\ DOMAIN f6 \subseteq {Key.se_va}
  BY OptionalDomain
<1>3. StructuredPairs(ev) = ((((f1 ++ f2) ++ f3) ++ f4) ++ f5) ++ f6
  BY DEF StructuredPairs
<1> HIDE DEF f1, f2, f3, f4, f5, f6
<1>4. DOMAIN StructuredPairs(ev) = DOMAIN f1 \cup DOMAIN f2 \cup DOMAIN f3
                                   \cup DOMAIN f4 \cup DOMAIN f5 \cup DOMAIN f6
  BY <1>3 DEF ++
<1> QED BY <1>1, <1>2, <1>4 DEF Key

LEMMA StandardPairsDomain == Key.eid \notin DOMAIN StandardPairs
<1> DEFINE f1 == Pair(Key.tv, << 99 >>)
           f2 == Pair(Key.p, << 115 >>)
           f3 == Pair(Key.aid, << >>)
           f4 == Pair(Key.tna, << 110 >>)
<1>1. /\ DOMAIN f1 = {Key.tv} /\ DOMAIN f2 = {Key.p} /\ DOMAIN f3 = {Key.aid}
      /\ DOMAIN f4 = {Key.tna}
  BY Single
<1>2. StandardPairs = ((f1 ++ f2) ++ f3) ++ f4
  BY DEF StandardPairs
<1> HIDE DEF f1, f2, f3, f4
<1>3. DOMAIN StandardPairs = DOMAIN f1 \cup DOMAIN f2 \cup DOMAIN f3 \cup DOMAIN f4
  BY <1>2 DEF ++
<1> QED BY <1>1, <1>3 DEF Key

LEMMA AddJsonKeepsEid ==
  ASSUME NEW p, NEW e, HasEid(p, e), NEW json, NEW base64,
         NEW encoded, NEW not_encoded, Key.eid \notin {encoded, not_encoded}
  PROVE  HasEid(add_json(p, json, base64, encoded, not_encoded), e)
BY AddKeepsEid DEF add_json

LEMMA PayloadHasEid ==
  ASSUME NEW ev, NEW e, NEW dtm, NEW base64
  PROVE  HasEid(get_payload(ev, << e >>, dtm, base64), e)
<1> DEFINE p == EventPayload(<< e >>, dtm)
           q == get_custom_event_payload(ev, << e >>, dtm, base64)
<1>0. /\ Key.e # Key.eid /\ Key.ttm # Key.eid
      /\ Key.ue_px # Key.eid /\ Key.ue_pr # Key.eid
  BY DEF Key
<1>1. HasEid(p, e)
  BY EventPayloadHasEid
<1> HIDE DEF p
<1>2. HasEid(q, e)
  <2>1. CASE ev.kind = "structured"
    <3>1. q = add_map(p, StructuredPairs(ev))
      BY <2>1 DEF get_custom_event_payload, p
    <3> QED BY <1>1, <3>1, AddMapKeepsEid, StructuredPairsDomain
  <2>2. CASE ev.kind = "custom"
    <3>1. q = add(p, Key.e, ev.type)
      BY <2>2 DEF get_custom_event_payload, p
    <3> QED BY <1>0, <1>1, <3>1, AddKeepsEid
  <2>3. CASE ev.kind # "structured" /\ ev.kind # "custom"
    <3>1. q = get_self_describing_event_payload(ev, p, base64)
      BY <2>3 DEF get_custom_event_payload, p
    <3>2. HasEid(add(p, Key.e, SelfDescribing), e)
      BY <1>0, <1>1, AddKeepsEid
    <3> QED BY <1>0, <3>1, <3>2, AddJsonKeepsEid DEF get_self_describing_event_payload
  <2> QED BY <2>1, <2>2, <2>3
<1> HIDE DEF q
<1>3. Key.eid \notin DOMAIN OptionalPair(Key.ttm, ev.true_timestamp)
  BY <1>0, OptionalDomain
<1>4. HasEid(add_map(q, OptionalPair(Key.ttm, ev.true_timestamp)), e)
  BY <1>2, <1>3, AddMapKeepsEid
<1> QED BY <1>4 DEF get_payload, q

LEMMA FinalPayloadHasEid ==
  ASSUME NEW t \in Thread, NEW e, HasEid(call[t].payload, e)
  PROVE  HasEid(FinalPayload(t), e)
<1>1. Key.cx # Key.eid /\ Key.co # Key.eid
  BY DEF Key
<1> QED BY <1>1, AddJsonKeepsEid DEF FinalPayload

(***************************************************************************)
(* Types                                                                   *)
(***************************************************************************)
LEMMA TypedInit == TrackingInit => TrackingTyped /\ CallInv
<1> SUFFICES ASSUME TrackingInit PROVE TrackingTyped /\ CallInv
  OBVIOUS
<1>1. /\ tracker \in [subject : SUBSET DOMAIN Subjects, method : {"GET", "POST"},
                      use_base64 : BOOLEAN, desktop_context : BOOLEAN,
                      client_session : BOOLEAN]
      /\ subjects = Subjects
  BY TrackingAssumption DEF TrackingInit, TrackingAssumption
<1>2. \A s \in DOMAIN subjects : Key.eid \notin DOMAIN subjects[s]
  BY <1>1, TrackingAssumption DEF TrackingAssumption, SubjectKey, Key
<1>3. step \in [Thread -> Steps]
  BY DEF TrackingInit, Steps
<1>4. /\ call \in [Thread -> [event : Event \cup {NoEvent}, payload : {NoPairs}]]
      /\ log \in Seq({NoPairs})
  BY DEF TrackingInit, NoCall
<1>5. begun \in [DOMAIN begun -> [data : EventData, at : Nat, shared : {}, own : {},
                                  after : SUBSET Event]]
      /\ DOMAIN begun = {} /\ Unstored = {} /\ lost = {}
  BY DEF TrackingInit, NoPairs, Unstored
<1>6. TrackingTyped
  BY <1>1, <1>2, <1>3, <1>4, <1>5 DEF TrackingTyped
<1>7. \A t \in Thread : step[t] = "idle" /\ call[t].event = NoEvent
  BY DEF TrackingInit, NoCall
<1> QED BY <1>5, <1>6, <1>7 DEF CallInv

LEMMA PayloadsTyped ==
  ASSUME NEW P, call \in [Thread -> [event : Event \cup {NoEvent}, payload : P]],
         NEW t \in Thread, NEW p, call' = [call EXCEPT ![t].payload = p]
  PROVE  /\ call' \in [Thread -> [event : Event \cup {NoEvent}, payload : P \cup {p}]]
         /\ \A u \in Thread : call'[u].event = call[u].event
         /\ call'[t].payload = p
         /\ \A u \in Thread \ {t} : call'[u] = call[u]
OBVIOUS

\* Track: the call gets its event and the payload that has its id.
LEMMA TrackEffect ==
  ASSUME TrackingTyped, TypeOK, NEW t \in Thread, NEW e \in Event, NEW ev \in EventData,
         Track(t, e, ev)
  PROVE  /\ TrackingTyped'
         /\ e \notin DOMAIN begun /\ e \notin Unstored
         /\ step[t] = "idle" /\ step'[t] = "subject"
         /\ call'[t].event = e /\ HasEid(call'[t].payload, e)
         /\ \A u \in Thread \ {t} : call'[u] = call[u] /\ step'[u] = step[u]
         /\ DOMAIN begun' = DOMAIN begun \cup {e}
         /\ begun'[e].after = Returned
         /\ \A f \in DOMAIN begun : begun'[f].after = begun[f].after
<1> DEFINE p == add_map(get_payload(ev, << e >>, Time(now), tracker.use_base64), StandardPairs)
           b == [data |-> ev, at |-> now, shared |-> NoPairs, own |-> NoPairs,
                 after |-> Returned]
<1>1. HasEid(p, e)
  BY PayloadHasEid, AddMapKeepsEid, StandardPairsDomain
<1>2. /\ step' = [step EXCEPT ![t] = "subject"] /\ step[t] = "idle"
      /\ call' = [call EXCEPT ![t] = [event |-> e, payload |-> p]]
      /\ begun' = Pair(e, b) ++ begun
      /\ UNCHANGED <<tracker, subjects, log, Unstored, lost>>
      /\ e \notin DOMAIN begun /\ e \notin Unstored
  BY DEF Track, Fresh, TrackingTyped, Unstored, store_vars
<1>3. Returned \subseteq Event
  BY DEF Returned, TrackingTyped
<1> HIDE DEF p
<1>4. PICK P : /\ call \in [Thread -> [event : Event \cup {NoEvent}, payload : P]]
               /\ log \in Seq(P)
  BY DEF TrackingTyped
<1>5. /\ call' \in [Thread -> [event : Event \cup {NoEvent}, payload : P \cup {p}]]
      /\ call'[t].event = e /\ call'[t].payload = p
      /\ \A u \in Thread \ {t} : call'[u] = call[u]
  BY <1>2, <1>4
<1>6. log' \in Seq(P \cup {p})
  BY <1>2, <1>4
<1>7. PICK S : begun \in [DOMAIN begun -> [data : EventData, at : Nat, shared : S, own : S,
                                           after : SUBSET Event]]
  BY DEF TrackingTyped
<1>8. b \in [data : EventData, at : Nat, shared : S \cup {NoPairs}, own : S \cup {NoPairs},
             after : SUBSET Event]
  BY <1>3, SessionAssumption DEF TypeOK, SessionAssumption
<1>9. /\ b.after = Returned
  OBVIOUS
<1> HIDE DEF b
<1>10. /\ DOMAIN begun' = DOMAIN begun \cup {e}
       /\ begun'[e] = b
       /\ \A f \in DOMAIN begun : begun'[f] = begun[f]
       /\ begun' = [f \in DOMAIN begun' |-> begun'[f]]
  BY <1>2 DEF ++, Pair
<1>11. \A f \in DOMAIN begun :
         begun[f] \in [data : EventData, at : Nat, shared : S \cup {NoPairs},
                       own : S \cup {NoPairs}, after : SUBSET Event]
  BY <1>7
<1>12. begun' \in [DOMAIN begun' -> [data : EventData, at : Nat, shared : S \cup {NoPairs},
                                     own : S \cup {NoPairs}, after : SUBSET Event]]
  BY <1>8, <1>10, <1>11
<1>13. step' \in [Thread -> Steps] /\ step'[t] = "subject"
       /\ \A u \in Thread \ {t} : step'[u] = step[u]
  BY <1>2 DEF TrackingTyped, Steps
<1>14. /\ DOMAIN begun' \subseteq Event /\ Unstored' \subseteq Event
       /\ lost' \subseteq DOMAIN begun'
  BY <1>2, <1>10 DEF TrackingTyped
<1>15. TrackingTyped'
  BY <1>2, <1>5, <1>6, <1>12, <1>13, <1>14 DEF TrackingTyped
<1> QED BY <1>1, <1>2, <1>5, <1>9, <1>10, <1>13, <1>15

\* A step that neither begins nor ends a call.
Quiet ==
  /\ \A u \in Thread : /\ call'[u].event = call[u].event
                       /\ step'[u] = "idle" <=> step[u] = "idle"
                       /\ HasEid(call[u].payload, call[u].event) =>
                            HasEid(call'[u].payload, call'[u].event)
  /\ DOMAIN begun' = DOMAIN begun
  /\ \A f \in DOMAIN begun : begun'[f].after = begun[f].after
  /\ tracker'.client_session = tracker.client_session
  /\ UNCHANGED <<log, Unstored>>

\* The Subjects have no id, whichever is taken.
LEMMA TakenSubject ==
  ASSUME TrackingTyped, NEW S \in SUBSET DOMAIN Subjects
  PROVE  Key.eid \notin DOMAIN (IF S = {} THEN NoPairs ELSE subjects[CHOOSE s \in S : TRUE])
<1>1. S # {} => (CHOOSE s \in S : TRUE) \in DOMAIN subjects
  BY DEF TrackingTyped
<1> QED BY <1>1 DEF TrackingTyped, NoPairs

LEMMA BegunTyped ==
  ASSUME TrackingTyped, NEW e \in DOMAIN begun, NEW x,
         begun' = [begun EXCEPT ![e].shared = x] \/ begun' = [begun EXCEPT ![e].own = x]
  PROVE  /\ \E S : begun' \in [DOMAIN begun' -> [data : EventData, at : Nat, shared : S,
                                                 own : S, after : SUBSET Event]]
         /\ DOMAIN begun' = DOMAIN begun
         /\ \A f \in DOMAIN begun : begun'[f].after = begun[f].after
<1>1. PICK S : begun \in [DOMAIN begun -> [data : EventData, at : Nat, shared : S, own : S,
                                           after : SUBSET Event]]
  BY DEF TrackingTyped
<1>2. /\ DOMAIN begun' = DOMAIN begun
      /\ begun' \in [DOMAIN begun -> [data : EventData, at : Nat, shared : S \cup {x},
                                      own : S \cup {x}, after : SUBSET Event]]
  BY <1>1
<1>3. \A f \in DOMAIN begun : begun'[f].after = begun[f].after
  BY <1>1
<1>4. begun' \in [DOMAIN begun' -> [data : EventData, at : Nat, shared : S \cup {x},
                                    own : S \cup {x}, after : SUBSET Event]]
  BY <1>2
<1> QED BY <1>2, <1>3, <1>4

LEMMA SubjectEffect ==
  ASSUME TrackingTyped, CallInv, NEW t \in Thread, AddSubject(t) \/ AddEventSubject(t)
  PROVE  /\ TrackingTyped' /\ Quiet
         /\ UNCHANGED vars
         /\ step[t] \in {"use_subject", "event_subject"}
         /\ step'[t] \in {"event_subject", "session"}
         /\ \A u \in Thread \ {t} : step'[u] = step[u]
<1>1. step[t] \in {"use_subject", "event_subject"} /\ call[t].event \in DOMAIN begun
  BY DEF AddSubject, AddEventSubject, CallInv
<1>2. \E m, x : /\ Key.eid \notin DOMAIN m
                /\ call' = [call EXCEPT ![t].payload = add_map(@, m)]
                /\ \/ begun' = [begun EXCEPT ![call[t].event].shared = x]
                   \/ begun' = [begun EXCEPT ![call[t].event].own = x]
  <2>1. CASE AddSubject(t)
    <3> DEFINE shared == subjects[CHOOSE s \in tracker.subject : TRUE]
    <3>1. Key.eid \notin DOMAIN shared
      BY <2>1, TakenSubject DEF TrackingTyped, AddSubject
    <3>2. /\ call' = [call EXCEPT ![t].payload = add_map(@, shared)]
          /\ begun' = [begun EXCEPT ![call[t].event].shared = shared]
      BY <2>1 DEF AddSubject
    <3> HIDE DEF shared
    <3> QED BY <3>1, <3>2
  <2>2. CASE AddEventSubject(t)
    <3> DEFINE ev  == begun[call[t].event].data
               own == IF ev.subject = {} THEN NoPairs
                      ELSE subjects[CHOOSE s \in ev.subject : TRUE]
    <3>0. ev \in EventData
      BY <1>1 DEF TrackingTyped
    <3>1. Key.eid \notin DOMAIN own
      BY <3>0, TakenSubject, TrackingAssumption DEF TrackingAssumption
    <3>2. /\ call' = [call EXCEPT ![t].payload = add_map(@, own)]
          /\ begun' = [begun EXCEPT ![call[t].event].own = own]
      BY <2>2 DEF AddEventSubject, WithEventSubject
    <3> HIDE DEF own
    <3> QED BY <3>1, <3>2
  <2> QED BY <2>1, <2>2
<1>3. PICK m, x : /\ Key.eid \notin DOMAIN m
                  /\ call' = [call EXCEPT ![t].payload = add_map(@, m)]
                  /\ \/ begun' = [begun EXCEPT ![call[t].event].shared = x]
                     \/ begun' = [begun EXCEPT ![call[t].event].own = x]
  BY <1>2
<1>4. /\ UNCHANGED <<vars, tracker, subjects, log, Unstored, lost>>
      /\ \E next \in {"event_subject", "session"} : step' = [step EXCEPT ![t] = next]
  BY DEF AddSubject, AddEventSubject, Unstored, store_vars
<1> DEFINE p == add_map(call[t].payload, m)
<1>5. PICK P : /\ call \in [Thread -> [event : Event \cup {NoEvent}, payload : P]]
               /\ log \in Seq(P)
  BY DEF TrackingTyped
<1>6. call' = [call EXCEPT ![t].payload = p]
  BY <1>3, <1>5
<1>7. HasEid(call[t].payload, call[t].event) => HasEid(p, call[t].event)
  BY <1>3, AddMapKeepsEid
<1> HIDE DEF p
<1>8. /\ call' \in [Thread -> [event : Event \cup {NoEvent}, payload : P \cup {p}]]
      /\ \A u \in Thread : call'[u].event = call[u].event
      /\ call'[t].payload = p
      /\ \A u \in Thread \ {t} : call'[u] = call[u]
  BY <1>5, <1>6, PayloadsTyped
<1>9. log' \in Seq(P \cup {p})
  BY <1>4, <1>5
<1>10. /\ \E S : begun' \in [DOMAIN begun' -> [data : EventData, at : Nat, shared : S,
                                               own : S, after : SUBSET Event]]
       /\ DOMAIN begun' = DOMAIN begun
       /\ \A f \in DOMAIN begun : begun'[f].after = begun[f].after
  BY <1>1, <1>3, BegunTyped
<1>11. /\ step' \in [Thread -> Steps] /\ step'[t] \in {"event_subject", "session"}
       /\ \A u \in Thread \ {t} : step'[u] = step[u]
  BY <1>4 DEF TrackingTyped, Steps
<1>12. TrackingTyped'
  BY <1>4, <1>8, <1>9, <1>10, <1>11 DEF TrackingTyped
<1>13. Quiet
  BY <1>1, <1>4, <1>7, <1>8, <1>10, <1>11 DEF Quiet
<1> QED BY <1>1, <1>4, <1>11, <1>12, <1>13

\* The steps that leave the calls and the store alone.
LEMMA OtherEffect ==
  ASSUME TrackingTyped,
         \/ \E t \in Thread : \/ GetSessionContext(t) \/ TestSubject(t)
                              \/ TestDesktopContext(t) \/ MakeDesktopContext(t)
                              \/ BeginSession(t)
         \/ \E s \in DOMAIN Subjects, k \in Attribute, v \in Value : SetAttribute(s, k, v)
         \/ ChangeSubject
         \/ \E time \in 0..MaxTime : SetClock(time)
         \/ UNCHANGED <<vars, trackingVars>>
  PROVE  TrackingTyped' /\ Quiet
<1>1. UNCHANGED <<call, begun, log, Unstored, lost>>
  BY DEF GetSessionContext, TestSubject, TestDesktopContext, MakeDesktopContext,
         BeginSession,
         SetAttribute, ChangeSubject, SetSubject, SetClock, trackingVars, store_vars,
         Unstored
<1>2. /\ step' \in [Thread -> Steps]
      /\ \A u \in Thread : step'[u] = "idle" <=> step[u] = "idle"
  <2>1. CASE UNCHANGED step
    BY <2>1 DEF TrackingTyped
  <2>2. CASE \E t \in Thread : TestDesktopContext(t) \/ MakeDesktopContext(t)
    BY <2>2 DEF TestDesktopContext, MakeDesktopContext, TrackingTyped, Steps
  <2>3. CASE \E t \in Thread : TestSubject(t)
    <3>1. PICK t \in Thread : TestSubject(t)
      BY <2>3
    <3>2. step[t] = "subject"
          /\ \E next \in {"use_subject", "event_subject"} : step' = [step EXCEPT ![t] = next]
      BY <3>1 DEF TestSubject
    <3> QED BY <3>2 DEF TrackingTyped, Steps
  <2> QED BY <2>1, <2>2, <2>3 DEF GetSessionContext, BeginSession, SetAttribute,
             ChangeSubject, SetSubject, SetClock, trackingVars, store_vars
<1>3. /\ tracker' \in [subject : SUBSET DOMAIN Subjects, method : {"GET", "POST"},
                       use_base64 : BOOLEAN, desktop_context : BOOLEAN,
                       client_session : BOOLEAN]
      /\ tracker'.client_session = tracker.client_session
  <2>1. CASE UNCHANGED tracker
    BY <2>1 DEF TrackingTyped
  <2>2. CASE ChangeSubject
    BY <2>2 DEF SetSubject, TrackingTyped, ChangeSubject
  <2> QED BY <2>1, <2>2 DEF GetSessionContext, TestSubject, TestDesktopContext,
                            MakeDesktopContext,
                            BeginSession, SetAttribute, SetClock, trackingVars, store_vars
<1>4. /\ DOMAIN subjects' = DOMAIN Subjects
      /\ \A s \in DOMAIN subjects' : Key.eid \notin DOMAIN subjects'[s]
  <2>1. CASE UNCHANGED subjects
    BY <2>1 DEF TrackingTyped
  <2>2. ASSUME NEW s \in DOMAIN Subjects, NEW k \in Attribute, NEW v \in Value,
               SetAttribute(s, k, v)
        PROVE  /\ DOMAIN subjects' = DOMAIN Subjects
               /\ \A r \in DOMAIN subjects' : Key.eid \notin DOMAIN subjects'[r]
    <3>1. subjects' = [subjects EXCEPT ![s] = add(subjects[s], k, v)]
      BY <2>2 DEF SetAttribute
    <3>2. k # Key.eid
      BY TrackingAssumption DEF TrackingAssumption, SubjectKey, Key
    <3>3. DOMAIN add(subjects[s], k, v) \subseteq DOMAIN subjects[s] \cup {k}
      BY DEF add, ++, Pair
    <3> QED BY <3>1, <3>2, <3>3 DEF TrackingTyped
  <2> QED BY <2>1, <2>2 DEF GetSessionContext, TestSubject, TestDesktopContext,
                            MakeDesktopContext,
                            BeginSession, ChangeSubject, SetSubject, SetClock,
                            trackingVars, store_vars
<1>5. TrackingTyped'
  BY <1>1, <1>2, <1>3, <1>4 DEF TrackingTyped
<1>6. Quiet
  BY <1>1, <1>2, <1>3 DEF Quiet
<1> QED BY <1>5, <1>6

\* The end of a call, with the payload stored or not.
LEMMA EndEffect ==
  ASSUME TrackingTyped, NEW t \in Thread, AddEvent(t) \/ AddUnstored(t), CallInv
  PROVE  /\ TrackingTyped'
         /\ step[t] = "add" /\ step'[t] = "idle" /\ call'[t].event = NoEvent
         /\ \A u \in Thread \ {t} : call'[u] = call[u] /\ step'[u] = step[u]
         /\ UNCHANGED <<tracker, begun>>
<1>1. /\ step' = [step EXCEPT ![t] = "idle"] /\ call' = [call EXCEPT ![t] = NoCall]
      /\ step[t] = "add"
      /\ UNCHANGED <<tracker, subjects, begun>>
      /\ \/ log' = Append(log, FinalPayload(t)) /\ Unstored' = Unstored
         \/ log' = log /\ Unstored' = Unstored \cup {call[t].event}
  BY DEF AddEvent, AddUnstored, AddEventFails, AddEventThrows, Return, Unstored,
         EndStored, EndUnstored, store_vars
<1>2. call[t].event \in Event
  BY <1>1 DEF CallInv, TrackingTyped
<1>3. PICK P : /\ call \in [Thread -> [event : Event \cup {NoEvent}, payload : P]]
               /\ log \in Seq(P)
  BY DEF TrackingTyped
<1> DEFINE Q == P \cup {NoPairs, FinalPayload(t)}
<1>4. /\ call' \in [Thread -> [event : Event \cup {NoEvent}, payload : Q]]
      /\ call'[t].event = NoEvent
      /\ \A u \in Thread \ {t} : call'[u] = call[u]
  BY <1>1, <1>3 DEF NoCall
<1>5. log' \in Seq(Q)
  <2>1. log \in Seq(Q) /\ FinalPayload(t) \in Q
    BY <1>3
  <2> HIDE DEF Q
  <2> QED BY <1>1, <2>1
<1>6. /\ step' \in [Thread -> Steps] /\ step'[t] = "idle"
      /\ \A u \in Thread \ {t} : step'[u] = step[u]
  BY <1>1 DEF TrackingTyped, Steps
<1>7. Unstored' \subseteq Event /\ lost' \subseteq DOMAIN begun'
  <2>1. lost' \subseteq lost \cup {call[t].event}
    BY DEF AddEvent, AddUnstored, AddEventFails, AddEventThrows, store_vars
  <2>2. call[t].event \in DOMAIN begun
    BY <1>1 DEF CallInv
  <2> QED BY <1>1, <1>2, <2>1, <2>2 DEF TrackingTyped
<1> HIDE DEF Q
<1>8. TrackingTyped'
  BY <1>1, <1>4, <1>5, <1>6, <1>7 DEF TrackingTyped
<1> QED BY <1>1, <1>4, <1>6, <1>8

LEMMA ThrowsEffect ==
  ASSUME TrackingTyped, NEW t \in Thread, NEW e \in Event, NEW ev \in EventData,
         TrackThrows(t, e, ev)
  PROVE  /\ TrackingTyped'
         /\ Unstored' = Unstored \cup {e} /\ e \notin DOMAIN begun
         /\ UNCHANGED <<vars, tracker, step, call, begun, log>>
<1>1. /\ Unstored' = Unstored \cup {e} /\ e \notin DOMAIN begun
      /\ UNCHANGED <<vars, tracker, subjects, step, call, log, lost, begun>>
  BY DEF TrackThrows, Fresh, TrackingTyped, Unstored, store_vars
<1> QED BY <1>1 DEF TrackingTyped

(***************************************************************************)
(* Calls that have begun and returned                                      *)
(***************************************************************************)
LEMMA ReturnedQuiet == Quiet => Returned' = Returned
BY DEF Quiet, Returned

LEMMA ReturnedTrack ==
  ASSUME TrackingTyped, TypeOK, CallInv, NEW t \in Thread, NEW e \in Event,
         NEW ev \in EventData, Track(t, e, ev)
  PROVE  Returned' = Returned
<1>1. /\ DOMAIN begun' = DOMAIN begun \cup {e} /\ e \notin DOMAIN begun
      /\ call'[t].event = e /\ step[t] = "idle"
      /\ \A u \in Thread \ {t} : call'[u] = call[u]
  BY TrackEffect
<1>2. call[t].event = NoEvent /\ NoEvent \notin DOMAIN begun
  BY <1>1, SessionAssumption DEF CallInv, TrackingTyped, SessionAssumption
<1> QED BY <1>1, <1>2 DEF Returned

LEMMA ReturnedEnd ==
  ASSUME TrackingTyped, CallInv, NEW t \in Thread, AddEvent(t) \/ AddUnstored(t)
  PROVE  /\ Returned' = Returned \cup {call[t].event}
         /\ call[t].event \in DOMAIN begun \ Unstored
         /\ call[t].event \notin Returned /\ call[t].event # NoEvent
<1>1. /\ step[t] = "add" /\ call'[t].event = NoEvent
      /\ \A u \in Thread \ {t} : call'[u] = call[u]
      /\ UNCHANGED begun
  BY EndEffect
<1>2. /\ call[t].event # NoEvent /\ call[t].event \in DOMAIN begun \ Unstored
      /\ \A u \in Thread \ {t} : call[u].event # call[t].event
  BY <1>1 DEF CallInv
<1>3. NoEvent \notin DOMAIN begun
  BY SessionAssumption DEF TrackingTyped, SessionAssumption
<1> QED BY <1>1, <1>2, <1>3 DEF Returned

LEMMA CallStep ==
  ASSUME TrackingTyped, TypeOK, CallInv, [TrackingStep]_<<vars, trackingVars>>
  PROVE  TrackingTyped' /\ CallInv'
<1>1. ASSUME NEW t \in Thread, NEW e \in Event, NEW ev \in EventData, Track(t, e, ev)
      PROVE  TrackingTyped' /\ CallInv'
  <2>1. /\ TrackingTyped'
        /\ e \notin DOMAIN begun /\ e \notin Unstored
        /\ step[t] = "idle" /\ step'[t] = "subject"
        /\ call'[t].event = e
        /\ \A u \in Thread \ {t} : call'[u] = call[u] /\ step'[u] = step[u]
        /\ DOMAIN begun' = DOMAIN begun \cup {e}
        /\ begun'[e].after = Returned
        /\ \A f \in DOMAIN begun : begun'[f].after = begun[f].after
    BY <1>1, TrackEffect
  <2>2. Returned' = Returned /\ Unstored' = Unstored
    BY <1>1, ReturnedTrack DEF Track, Unstored, store_vars
  <2>3. e # NoEvent
    BY SessionAssumption DEF SessionAssumption
  <2>4. \A u \in Thread \ {t} : call[u].event # e
    BY <2>1, <2>3 DEF CallInv
  <2> QED BY <2>1, <2>2, <2>3, <2>4 DEF CallInv
<1>2. ASSUME NEW t \in Thread, NEW e \in Event, NEW ev \in EventData, TrackThrows(t, e, ev)
      PROVE  TrackingTyped' /\ CallInv'
  <2>1. /\ TrackingTyped'
        /\ Unstored' = Unstored \cup {e} /\ e \notin DOMAIN begun
        /\ UNCHANGED <<step, call, begun>>
    BY <1>2, ThrowsEffect
  <2> QED BY <2>1 DEF CallInv, Returned
<1>3. ASSUME TrackingTyped', Quiet
      PROVE  TrackingTyped' /\ CallInv'
  <2>1. Returned' = Returned
    BY <1>3, ReturnedQuiet
  <2> QED BY <1>3, <2>1 DEF CallInv, Quiet
<1>4. ASSUME NEW t \in Thread, AddEvent(t) \/ AddUnstored(t)
      PROVE  TrackingTyped' /\ CallInv'
  <2>1. /\ TrackingTyped'
        /\ step'[t] = "idle" /\ call'[t].event = NoEvent
        /\ \A u \in Thread \ {t} : call'[u] = call[u] /\ step'[u] = step[u]
        /\ UNCHANGED begun
    BY <1>4, EndEffect
  <2>2. Returned' = Returned \cup {call[t].event}
    BY <1>4, ReturnedEnd
  <2>3. \A u \in Thread \ {t} : call[u].event = NoEvent \/ call[u].event \notin Unstored'
    <3>1. Unstored' \subseteq Unstored \cup {call[t].event}
      BY <1>4 DEF AddEvent, AddUnstored, AddEventFails, AddEventThrows, Unstored,
                  EndStored, EndUnstored, store_vars
    <3>2. call[t].event # NoEvent
      BY <1>4, ReturnedEnd
    <3> QED BY <3>1, <3>2 DEF CallInv
  <2> QED BY <2>1, <2>2, <2>3 DEF CallInv
<1>5. CASE \E t \in Thread : AddSubject(t) \/ AddEventSubject(t)
  BY <1>3, <1>5, SubjectEffect
<1>6. CASE \/ \E t \in Thread : \/ GetSessionContext(t) \/ TestSubject(t)
                                \/ TestDesktopContext(t) \/ MakeDesktopContext(t)
                                \/ BeginSession(t)
           \/ \E s \in DOMAIN Subjects, k \in Attribute, v \in Value : SetAttribute(s, k, v)
           \/ ChangeSubject
           \/ \E time \in 0..MaxTime : SetClock(time)
           \/ UNCHANGED <<vars, trackingVars>>
  BY <1>3, <1>6, OtherEffect
<1> QED BY <1>1, <1>2, <1>4, <1>5, <1>6 DEF TrackingStep, ChangeSubject, AddUnstored

(***************************************************************************)
(* track() uses the session as ClientSession describes it                  *)
(***************************************************************************)
\* What a step of track() does to the session is a step of ClientSession, or
\* nothing, and never its Restart.
LEMMA SessionSteps ==
  ASSUME TrackingTyped, CallInv, [TrackingStep]_<<vars, trackingVars>>
  PROVE  \/ \E t \in Thread :
              \/ \E e \in Event : TrackInSession(t, e) \/ TrackInNewSession(t, e)
              \/ UpdateSession(t) \/ SaveSession(t) \/ SaveFails(t)
              \/ Add(t) \/ Discard(t) \/ StartNewSession(t)
         \/ \E time \in 0..MaxTime : Clock(time)
         \/ UNCHANGED vars
<1>1. ASSUME NEW t \in Thread, GetSessionContext(t)
      PROVE  \/ \E e \in Event : TrackInSession(t, e) \/ TrackInNewSession(t, e)
             \/ UpdateSession(t) \/ SaveSession(t) \/ SaveFails(t)
  <2>1. call[t].event \in Event
    BY <1>1 DEF GetSessionContext, CallInv, TrackingTyped
  <2> QED BY <1>1, <2>1 DEF GetSessionContext
<1>2. ASSUME NEW t \in Thread, AddEvent(t) \/ AddUnstored(t)
      PROVE  Add(t) \/ Discard(t) \/ UNCHANGED vars
  BY <1>2 DEF AddEvent, AddUnstored, AddEventFails, AddEventThrows, EndStored,
              EndUnstored, store_vars
<1>3. ASSUME NEW t \in Thread, NEW e \in Event, NEW ev \in EventData,
             Track(t, e, ev) \/ TrackThrows(t, e, ev)
      PROVE  UNCHANGED vars
  BY <1>3 DEF Track, TrackThrows
<1>4. ASSUME NEW t \in Thread,
             \/ TestSubject(t) \/ AddSubject(t) \/ AddEventSubject(t)
             \/ TestDesktopContext(t) \/ MakeDesktopContext(t)
      PROVE  UNCHANGED vars
  BY <1>4 DEF TestSubject, AddSubject, AddEventSubject, TestDesktopContext,
              MakeDesktopContext
<1>5. ASSUME NEW t \in Thread, BeginSession(t)
      PROVE  StartNewSession(t)
  BY <1>5 DEF BeginSession
<1>6. ASSUME \/ \E s \in DOMAIN Subjects, k \in Attribute, v \in Value : SetAttribute(s, k, v)
             \/ ChangeSubject
      PROVE  UNCHANGED vars
  BY <1>6 DEF SetAttribute, SetSubject, ChangeSubject
<1>7. ASSUME NEW time \in 0..MaxTime, SetClock(time)
      PROVE  Clock(time)
  BY <1>7 DEF SetClock
<1> QED BY <1>1, <1>2, <1>3, <1>4, <1>5, <1>6, <1>7 DEF TrackingStep, ChangeSubject,
                                                        AddUnstored

LEMMA SessionNext ==
  ASSUME TrackingTyped, CallInv, [TrackingStep]_<<vars, trackingVars>>
  PROVE  [Next]_vars
BY SessionSteps DEF Next

LEMMA TypedStep ==
  TypeOK /\ TrackingTyped /\ CallInv /\ [TrackingStep]_<<vars, trackingVars>> =>
    TypeOK' /\ TrackingTyped' /\ CallInv'
BY CallStep, SessionNext, TypeStep

\* The death of the process changes nothing but that it is alive.
LEMMA StepOfNext ==
  [TrackingNext]_<<vars, trackingVars, alive>> => [TrackingStep]_<<vars, trackingVars>>
BY DEF TrackingNext, UseNullSubject

\* Whatever threads track and however the Subjects change, the tracker uses its
\* session as the threads of ClientSession do: what is proved of it holds.
THEOREM TrackerUsesSession == TrackingSpec => Spec
<1>1. TrackingInit => Init
  BY DEF TrackingInit
<1>2. TypeOK /\ TrackingTyped /\ CallInv /\ [TrackingStep]_<<vars, trackingVars>> => [Next]_vars
  BY SessionNext
<1> QED BY <1>1, <1>2, StepOfNext, TypeInit, TypedInit, TypedStep, PTL
        DEF TrackingSpec, Spec

(***************************************************************************)
(* The store                                                               *)
(***************************************************************************)
LEMMA LogQuiet ==
  ASSUME LogInv, Quiet
  PROVE  LogInv'
<1>1. Returned' = Returned
  BY ReturnedQuiet
<1> QED BY <1>1 DEF LogInv, Quiet

LEMMA SameEid ==
  ASSUME NEW p, NEW q, NEW e, NEW f, HasEid(p, e), HasEid(q, f), p[Key.eid] = q[Key.eid]
  PROVE  e = f
BY DEF HasEid

LEMMA LogStep ==
  ASSUME TrackingTyped, TypeOK, CallInv, LogInv, [TrackingStep]_<<vars, trackingVars>>
  PROVE  LogInv'
<1>1. ASSUME NEW t \in Thread, NEW e \in Event, NEW ev \in EventData, Track(t, e, ev)
      PROVE  LogInv'
  <2>1. /\ e \notin DOMAIN begun
        /\ HasEid(call'[t].payload, call'[t].event)
        /\ \A u \in Thread \ {t} : call'[u] = call[u]
        /\ DOMAIN begun' = DOMAIN begun \cup {e}
        /\ \A f \in DOMAIN begun : begun'[f].after = begun[f].after
    BY <1>1, TrackEffect
  <2>2. Returned' = Returned /\ Unstored' = Unstored /\ log' = log
    BY <1>1, ReturnedTrack DEF Track, Unstored, store_vars
  <2>3. \A j \in DOMAIN log : ~HasEid(log[j], e)
    <3> SUFFICES ASSUME NEW j \in DOMAIN log, HasEid(log[j], e) PROVE FALSE
      OBVIOUS
    <3>1. PICK f \in Returned : HasEid(log[j], f)
      BY DEF LogInv
    <3>2. f = e
      BY <3>1, SameEid
    <3> QED BY <2>1, <3>1, <3>2 DEF Returned
  <2> QED BY <2>1, <2>2, <2>3 DEF LogInv
<1>2. ASSUME NEW t \in Thread, NEW e \in Event, NEW ev \in EventData, TrackThrows(t, e, ev)
      PROVE  LogInv'
  <2>1. /\ Unstored' = Unstored \cup {e} /\ e \notin DOMAIN begun
        /\ UNCHANGED <<step, call, begun, log>>
    BY <1>2, ThrowsEffect
  <2>2. Returned' = Returned /\ Returned' \ Unstored' = Returned \ Unstored
    BY <2>1 DEF Returned
  <2> QED BY <2>1, <2>2 DEF LogInv
<1>3. ASSUME NEW t \in Thread, AddEvent(t) \/ AddUnstored(t)
      PROVE  LogInv'
  <2> DEFINE e == call[t].event
  <2>1. /\ call'[t].event = NoEvent
        /\ \A u \in Thread \ {t} : call'[u] = call[u]
        /\ UNCHANGED begun
    BY <1>3, EndEffect
  <2>2. /\ Returned' = Returned \cup {e}
        /\ e \in DOMAIN begun \ Unstored /\ e \notin Returned
    BY <1>3, ReturnedEnd
  <2>3. \A i \in DOMAIN log : ~HasEid(log[i], e)
    <3> SUFFICES ASSUME NEW i \in DOMAIN log, HasEid(log[i], e) PROVE FALSE
      OBVIOUS
    <3>1. PICK f \in Returned : HasEid(log[i], f)
      BY DEF LogInv
    <3> QED BY <2>2, <3>1, SameEid
  <2>4. CASE AddUnstored(t)
    <3>1. log' = log /\ Returned' \ Unstored' = Returned \ Unstored
      BY <2>2, <2>4 DEF AddUnstored, AddEventFails, AddEventThrows, Unstored,
                        EndUnstored, store_vars
    <3> QED BY <2>1, <3>1 DEF LogInv
  <2>5. CASE AddEvent(t)
    <3>1. log' = Append(log, FinalPayload(t)) /\ Unstored' = Unstored
      BY <2>5 DEF AddEvent, Unstored
    <3>2. HasEid(FinalPayload(t), e)
      <4>1. e # NoEvent
        BY <1>3, ReturnedEnd
      <4> QED BY <4>1, FinalPayloadHasEid DEF LogInv
    <3>3. PICK n \in Nat : DOMAIN log = 1..n
      BY DEF TrackingTyped
    <3>4. /\ DOMAIN log' = 1..n + 1 /\ HasEid(log'[n + 1], e)
          /\ \A i \in 1..n : log'[i] = log[i]
      BY <3>1, <3>2, <3>3 DEF TrackingTyped
    <3>5. Returned' \ Unstored' = (Returned \ Unstored) \cup {e}
      BY <2>2, <3>1
    <3> HIDE DEF e
    <3>6. \A u \in Thread : call'[u].event # NoEvent => HasEid(call'[u].payload, call'[u].event)
      BY <2>1 DEF LogInv
    <3>7. \A i \in DOMAIN log' : \E f \in Returned' \ Unstored' : HasEid(log'[i], f)
      <4> SUFFICES ASSUME NEW i \in 1..n + 1
                   PROVE  \E f \in Returned' \ Unstored' : HasEid(log'[i], f)
        BY <3>4
      <4>1. CASE i = n + 1
        BY <3>4, <3>5, <4>1
      <4>2. CASE i \in 1..n
        BY <3>3, <3>4, <3>5, <4>2 DEF LogInv
      <4> QED BY <4>1, <4>2
    <3>8. ASSUME NEW i \in DOMAIN log', NEW j \in DOMAIN log',
                 log'[i][Key.eid] = log'[j][Key.eid]
          PROVE  i = j
      <4>1. \A k \in 1..n : log'[k][Key.eid] # log'[n + 1][Key.eid]
        <5> SUFFICES ASSUME NEW k \in 1..n, log'[k][Key.eid] = log'[n + 1][Key.eid]
                     PROVE  FALSE
          OBVIOUS
        <5>1. PICK f \in Returned : HasEid(log[k], f)
          BY <3>3 DEF LogInv
        <5>2. f = e
          BY <3>4, <5>1, SameEid
        <5> QED BY <2>2, <5>1, <5>2
      <4>2. CASE i \in 1..n /\ j \in 1..n
        BY <3>3, <3>4, <3>8, <4>2 DEF LogInv
      <4> QED BY <3>4, <3>8, <4>1, <4>2
    <3>9. ASSUME NEW f \in Returned' \ Unstored'
          PROVE  \E i \in DOMAIN log' : HasEid(log'[i], f)
      <4>1. CASE f = e
        BY <3>4, <4>1
      <4>2. CASE f \in Returned \ Unstored
        BY <3>3, <3>4, <4>2 DEF LogInv
      <4> QED BY <3>5, <3>9, <4>1, <4>2
    <3>10. ASSUME NEW i \in DOMAIN log', NEW j \in DOMAIN log', NEW g \in DOMAIN begun',
                  NEW f \in begun'[g].after, HasEid(log'[i], f), HasEid(log'[j], g)
           PROVE  i < j
      <4>1. f \in Returned /\ g \in DOMAIN begun /\ f \in begun[g].after
        BY <2>1 DEF CallInv
      <4>2. i \in 1..n
        <5>1. i # n + 1
          BY <2>2, <3>4, <3>10, <4>1, SameEid
        <5> QED BY <3>4, <5>1
      <4>3. CASE j \in 1..n
        BY <3>3, <3>4, <3>10, <4>1, <4>2, <4>3 DEF LogInv
      <4>4. CASE j = n + 1
        BY <4>2, <4>4
      <4> QED BY <3>4, <4>3, <4>4
    <3> QED BY <3>6, <3>7, <3>8, <3>9, <3>10 DEF LogInv
  <2> QED BY <1>3, <2>4, <2>5
<1>4. CASE \E t \in Thread : AddSubject(t) \/ AddEventSubject(t)
  BY <1>4, SubjectEffect, LogQuiet
<1>5. CASE \/ \E t \in Thread : \/ GetSessionContext(t) \/ TestSubject(t)
                                \/ TestDesktopContext(t) \/ MakeDesktopContext(t)
                                \/ BeginSession(t)
           \/ \E s \in DOMAIN Subjects, k \in Attribute, v \in Value : SetAttribute(s, k, v)
           \/ ChangeSubject
           \/ \E time \in 0..MaxTime : SetClock(time)
           \/ UNCHANGED <<vars, trackingVars>>
  BY <1>5, OtherEffect, LogQuiet
<1> QED BY <1>1, <1>2, <1>3, <1>4, <1>5 DEF TrackingStep, ChangeSubject, AddUnstored

(***************************************************************************)
(* Calls in the session                                                    *)
(***************************************************************************)
\* A step that neither ends a call nor moves in the session, but for the step
\* the call takes next.
LEMMA InSessionQuiet ==
  ASSUME InSessionInv, Quiet, UNCHANGED vars,
         \A u \in Thread : pc[u] # "idle" => step'[u] \in {"session", "desktop", "add"},
         \A u \in Thread : tracker.client_session /\ step'[u] \in {"desktop", "add"} =>
           pc[u] = "add"
  PROVE  InSessionInv'
<1>1. Returned' = Returned
  BY ReturnedQuiet
<1>2. UNCHANGED <<pc, context, tracked, discarded>>
  BY DEF vars, events
<1> QED BY <1>1, <1>2 DEF InSessionInv, Quiet

LEMMA InSessionContext ==
  ASSUME TypeOK, CallInv, InSessionInv, NEW t \in Thread, GetSessionContext(t)
  PROVE  InSessionInv'
<1>1. /\ step[t] = "session" /\ tracker.client_session
      /\ UNCHANGED <<tracker, step, call, begun, Unstored>>
  BY DEF GetSessionContext, trackingVars, store_vars, Unstored
<1>2. /\ UNCHANGED <<tracked, discarded>>
      /\ pc' \in [Thread -> {"idle", "update", "save", "add"}]
      /\ pc'[t] # "idle"
      /\ \A u \in Thread \ {t} : pc'[u] = pc[u] /\ context'[u] = context[u]
      /\ context'[t].event = call[t].event
  <2>1. CASE TrackInSession(t, call[t].event) \/ TrackInNewSession(t, call[t].event)
    BY <2>1 DEF TrackInSession, Continue, TrackInNewSession, TrackUnlocked, Context,
                events,
               TypeOK
  <2>2. CASE UpdateSession(t)
    <3>1. pc[t] = "update" /\ context[t].event = call[t].event
      BY <2>2 DEF UpdateSession, InSessionInv
    <3> QED BY <2>2, <3>1 DEF UpdateSession, Context, events, TypeOK
  <2>3. CASE SaveSession(t) \/ SaveFails(t)
    <3>1. pc[t] = "save" /\ context[t].event = call[t].event
      BY <2>3 DEF SaveSession, SaveFails, InSessionInv
    <3> QED BY <2>3, <3>1 DEF SaveSession, SaveFails, events, TypeOK
  <2> QED BY <2>1, <2>2, <2>3 DEF GetSessionContext
<1>3. Returned' = Returned
  BY <1>1 DEF Returned
<1>4. ASSUME NEW u \in Thread
      PROVE  /\ pc'[u] # "idle" =>
                  tracker'.client_session /\ step'[u] \in {"session", "desktop", "add"}
             /\ tracker'.client_session /\ step'[u] \in {"desktop", "add"} => pc'[u] = "add"
             /\ context'[u].event = IF pc'[u] = "idle" THEN NoEvent ELSE call'[u].event
  <2>1. CASE u = t
    BY <1>1, <1>2, <2>1
  <2>2. CASE u # t
    BY <1>1, <1>2, <2>2 DEF InSessionInv
  <2> QED BY <2>1, <2>2
<1> QED BY <1>1, <1>2, <1>3, <1>4 DEF InSessionInv

LEMMA InSessionEnd ==
  ASSUME TypeOK, TrackingTyped, CallInv, InSessionInv, NEW t \in Thread,
         AddEvent(t) \/ AddUnstored(t)
  PROVE  InSessionInv'
<1> DEFINE e == call[t].event
<1>1. /\ step[t] = "add" /\ step'[t] = "idle" /\ call'[t].event = NoEvent
      /\ \A u \in Thread \ {t} : call'[u] = call[u] /\ step'[u] = step[u]
      /\ UNCHANGED <<tracker, begun>>
  BY EndEffect
<1>2. /\ Returned' = Returned \cup {e} /\ e \notin Returned /\ e \notin Unstored
  BY ReturnedEnd
<1>3. /\ pc'[t] = "idle" /\ context'[t].event = NoEvent
      /\ \A u \in Thread \ {t} : pc'[u] = pc[u] /\ context'[u] = context[u]
  <2>1. CASE tracker.client_session
    <3>1. Add(t) \/ Discard(t)
      BY <2>1 DEF AddEvent, AddUnstored, AddEventFails, AddEventThrows, EndStored,
                  EndUnstored, store_vars
    <3> QED BY <3>1 DEF Add, Discard, TypeOK, NoContext, Context
  <2>2. CASE ~tracker.client_session
    <3>1. UNCHANGED <<pc, context>> /\ pc[t] = "idle" /\ context[t].event = NoEvent
      BY <2>2 DEF AddEvent, AddUnstored, AddEventFails, AddEventThrows, vars,
                  InSessionInv, EndStored, EndUnstored, store_vars
    <3> QED BY <3>1
  <2> QED BY <2>1, <2>2
<1>4. context[t].event = e \/ ~tracker.client_session
  BY <1>1 DEF InSessionInv
<1>5. ASSUME NEW u \in Thread
      PROVE  /\ pc'[u] # "idle" =>
                  tracker'.client_session /\ step'[u] \in {"session", "desktop", "add"}
             /\ tracker'.client_session /\ step'[u] \in {"desktop", "add"} => pc'[u] = "add"
             /\ context'[u].event = IF pc'[u] = "idle" THEN NoEvent ELSE call'[u].event
  <2>1. CASE u = t
    BY <1>1, <1>3, <2>1
  <2>2. CASE u # t
    BY <1>1, <1>3, <2>2 DEF InSessionInv
  <2> QED BY <2>1, <2>2
<1>6. CASE AddEvent(t)
  <2>1. Returned' \ Unstored' = (Returned \ Unstored) \cup {e}
    BY <1>2, <1>6 DEF AddEvent, Unstored
  <2>2. CASE tracker.client_session
    <3>1. tracked' = tracked \cup {context[t]} /\ discarded' = discarded
      BY <1>6, <2>2 DEF AddEvent, Add, EndStored
    <3>2. context[t].event = e
      BY <1>4, <2>2
    <3> HIDE DEF e
    <3> QED BY <1>1, <1>2, <1>5, <2>1, <3>1, <3>2 DEF InSessionInv
  <2>3. CASE ~tracker.client_session
    <3>1. UNCHANGED <<tracked, discarded>>
      BY <1>6, <2>3 DEF AddEvent, vars, events, EndStored
    <3> HIDE DEF e
    <3> QED BY <1>1, <1>2, <1>5, <2>1, <2>3, <3>1 DEF InSessionInv
  <2> QED BY <2>2, <2>3
<1>7. CASE AddUnstored(t)
  <2>1. Returned' \ Unstored' = Returned \ Unstored
    BY <1>2, <1>7 DEF AddUnstored, AddEventFails, AddEventThrows, Unstored, EndUnstored,
                      store_vars
  <2>2. /\ tracked' = tracked
        /\ \/ discarded' = discarded
           \/ (discarded' = discarded \cup {context[t]} /\ context[t].event = e)
    BY <1>4, <1>7 DEF AddUnstored, AddEventFails, AddEventThrows, Discard, vars, events,
                      EndUnstored, store_vars
  <2> HIDE DEF e
  <2> QED BY <1>1, <1>2, <1>5, <2>1, <2>2 DEF InSessionInv
<1> QED BY <1>6, <1>7

LEMMA InSessionStep ==
  ASSUME TrackingTyped, TypeOK, CallInv, InSessionInv, [TrackingStep]_<<vars, trackingVars>>
  PROVE  InSessionInv'
<1>1. ASSUME NEW t \in Thread, NEW e \in Event, NEW ev \in EventData, Track(t, e, ev)
      PROVE  InSessionInv'
  <2>1. /\ step[t] = "idle" /\ step'[t] = "subject"
        /\ \A u \in Thread \ {t} : call'[u] = call[u] /\ step'[u] = step[u]
    BY <1>1, TrackEffect
  <2>2. /\ Returned' = Returned /\ Unstored' = Unstored /\ tracker' = tracker
        /\ UNCHANGED <<pc, context, tracked, discarded>>
    BY <1>1, ReturnedTrack DEF Track, vars, events, Unstored, store_vars
  <2>3. pc[t] = "idle"
    BY <2>1 DEF InSessionInv
  <2>4. ASSUME NEW u \in Thread
        PROVE  /\ pc'[u] # "idle" =>
                    tracker'.client_session /\ step'[u] \in {"session", "desktop", "add"}
               /\ tracker'.client_session /\ step'[u] \in {"desktop", "add"} => pc'[u] = "add"
               /\ context'[u].event = IF pc'[u] = "idle" THEN NoEvent ELSE call'[u].event
    <3>1. CASE u = t
      BY <2>1, <2>2, <2>3, <3>1 DEF InSessionInv
    <3>2. CASE u # t
      BY <2>1, <2>2, <3>2 DEF InSessionInv
    <3> QED BY <3>1, <3>2
  <2> QED BY <2>2, <2>4 DEF InSessionInv
<1>2. ASSUME NEW t \in Thread, NEW e \in Event, NEW ev \in EventData, TrackThrows(t, e, ev)
      PROVE  InSessionInv'
  <2>1. /\ Unstored' = Unstored \cup {e} /\ e \notin DOMAIN begun
        /\ UNCHANGED <<vars, tracker, step, call, begun>>
    BY <1>2, ThrowsEffect
  <2>2. Returned' = Returned /\ Returned' \ Unstored' = Returned \ Unstored
    BY <2>1 DEF Returned
  <2>3. UNCHANGED <<pc, context, tracked, discarded>>
    BY <2>1 DEF vars, events
  <2> QED BY <2>1, <2>2, <2>3 DEF InSessionInv
<1>3. ASSUME NEW t \in Thread, AddSubject(t) \/ AddEventSubject(t)
      PROVE  InSessionInv'
  <2>1. /\ Quiet /\ UNCHANGED vars
        /\ step[t] \in {"use_subject", "event_subject"}
        /\ step'[t] \in {"event_subject", "session"}
        /\ \A u \in Thread \ {t} : step'[u] = step[u]
    BY <1>3, SubjectEffect
  <2>2. pc[t] = "idle"
    BY <2>1 DEF InSessionInv
  <2>3. ASSUME NEW u \in Thread
        PROVE  /\ pc[u] # "idle" => step'[u] \in {"session", "desktop", "add"}
               /\ tracker.client_session /\ step'[u] \in {"desktop", "add"} => pc[u] = "add"
    <3>1. CASE u = t
      BY <2>1, <2>2, <3>1
    <3>2. CASE u # t
      BY <2>1, <3>2 DEF InSessionInv
    <3> QED BY <3>1, <3>2
  <2> QED BY <2>1, <2>3, InSessionQuiet
<1>7. ASSUME NEW t \in Thread, TestSubject(t)
      PROVE  InSessionInv'
  <2>1. /\ UNCHANGED vars
        /\ step[t] = "subject" /\ step'[t] \in {"use_subject", "event_subject"}
        /\ \A u \in Thread \ {t} : step'[u] = step[u]
    BY <1>7 DEF TestSubject, TrackingTyped
  <2>2. Quiet
    BY <1>7, OtherEffect
  <2>3. ASSUME NEW u \in Thread
        PROVE  /\ pc[u] # "idle" => step'[u] \in {"session", "desktop", "add"}
               /\ tracker.client_session /\ step'[u] \in {"desktop", "add"} => pc[u] = "add"
    <3>1. CASE u = t
      BY <2>1, <3>1 DEF InSessionInv
    <3>2. CASE u # t
      BY <2>1, <3>2 DEF InSessionInv
    <3> QED BY <3>1, <3>2
  <2> QED BY <2>1, <2>2, <2>3, InSessionQuiet
<1>4. ASSUME NEW t \in Thread, TestDesktopContext(t) \/ MakeDesktopContext(t)
      PROVE  InSessionInv'
  <2>1. /\ UNCHANGED vars
        /\ step'[t] \in {"desktop", "add"}
        /\ \A u \in Thread \ {t} : step'[u] = step[u]
        /\ tracker.client_session => pc[t] = "add"
    BY <1>4 DEF TestDesktopContext, MakeDesktopContext, InSessionInv, TrackingTyped
  <2>2. Quiet
    BY <1>4, OtherEffect
  <2>3. ASSUME NEW u \in Thread
        PROVE  /\ pc[u] # "idle" => step'[u] \in {"session", "desktop", "add"}
               /\ tracker.client_session /\ step'[u] \in {"desktop", "add"} => pc[u] = "add"
    <3>1. CASE u = t
      BY <2>1, <3>1
    <3>2. CASE u # t
      BY <2>1, <3>2 DEF InSessionInv
    <3> QED BY <3>1, <3>2
  <2> QED BY <2>1, <2>2, <2>3, InSessionQuiet
<1>5. ASSUME \/ \E s \in DOMAIN Subjects, k \in Attribute, v \in Value : SetAttribute(s, k, v)
             \/ ChangeSubject
             \/ \E time \in 0..MaxTime : SetClock(time)
             \/ UNCHANGED <<vars, trackingVars>>
      PROVE  InSessionInv'
  <2>1. UNCHANGED <<pc, context, tracked, discarded, step>>
    BY <1>5 DEF SetAttribute, ChangeSubject, SetSubject, SetClock, Clock, vars, events,
                trackingVars, store_vars
  <2>2. Quiet
    BY <1>5, OtherEffect
  <2>3. Returned' = Returned
    BY <2>2, ReturnedQuiet
  <2> QED BY <2>1, <2>2, <2>3 DEF InSessionInv, Quiet
<1>6. ASSUME NEW t \in Thread, BeginSession(t)
      PROVE  InSessionInv'
  <2>1. /\ Quiet
        /\ UNCHANGED <<pc, context, tracked, discarded, step>>
    BY <1>6, OtherEffect DEF BeginSession, StartNewSession, events, trackingVars,
                             store_vars
  <2>2. Returned' = Returned
    BY <2>1, ReturnedQuiet
  <2> QED BY <2>1, <2>2 DEF InSessionInv, Quiet
<1> QED BY <1>1, <1>2, <1>3, <1>4, <1>5, <1>6, <1>7, InSessionContext, InSessionEnd
        DEF TrackingStep, ChangeSubject, AddUnstored

(***************************************************************************)
(* The order of the calls                                                  *)
(***************************************************************************)
LEMMA CountedBegun ==
  ASSUME TrackingTyped, CallInv, InSessionInv, NEW d \in tracked \cup Counted
  PROVE  d.event \in DOMAIN begun
<1>1. CASE d \in tracked
  BY <1>1 DEF InSessionInv, Returned
<1>2. CASE d \in Counted
  <2>1. PICK t \in Thread : pc[t] \in {"save", "add"} /\ d = context[t]
    BY <1>2 DEF Counted
  <2>2. step[t] # "idle" /\ d.event = call[t].event
    BY <2>1 DEF InSessionInv
  <2> QED BY <2>2 DEF CallInv
<1> QED BY <1>1, <1>2

LEMMA OrderSame ==
  ASSUME TrackingTyped, CallInv, InSessionInv, OrderInv,
         tracked' \subseteq tracked, Counted' \subseteq Counted,
         \A f \in DOMAIN begun : begun'[f].after = begun[f].after,
         m_is_new_session' \/ m_session_context_data'.id = uuids'
  PROVE  OrderInv'
<1> SUFFICES ASSUME NEW c \in tracked', NEW d \in tracked' \cup Counted',
                    c.event \in begun'[d.event].after
             PROVE  Before(c, d)
  BY DEF OrderInv, Before
<1>1. d.event \in DOMAIN begun
  BY CountedBegun
<1> QED BY <1>1 DEF OrderInv

\* The session counts a call: all that returned before it are counted.
LEMMA OrderCounted ==
  ASSUME TrackingTyped, CallInv, InSessionInv, OrderInv, NEW x,
         tracked' = tracked, Counted' \subseteq Counted \cup {x}, begun' = begun,
         \A c \in tracked : Before(c, x),
         m_is_new_session' \/ m_session_context_data'.id = uuids'
  PROVE  OrderInv'
<1> SUFFICES ASSUME NEW c \in tracked, NEW d \in tracked \cup Counted \cup {x},
                    c.event \in begun[d.event].after
             PROVE  Before(c, d)
  BY DEF OrderInv, Before
<1> QED BY DEF OrderInv

LEMMA OrderContext ==
  ASSUME TypeOK, SessionInv, TrackingTyped, CallInv, InSessionInv, OrderInv,
         NEW t \in Thread, GetSessionContext(t)
  PROVE  OrderInv'
<1> DEFINE e == call[t].event
<1>0. begun' = begun
  BY DEF GetSessionContext, trackingVars, store_vars
<1>1. \A c \in tracked : c \in All /\ c.session.id \in Nat /\ c.event_index \in Nat
  BY AllTyped DEF All
<1>2. CASE TrackInSession(t, e)
  <2> DEFINE x == Context(m_session_context_data, e, m_event_index + 1, floor, overrun \/ Paused)
  <2>1. /\ ~m_is_new_session /\ tracked' = tracked
        /\ UNCHANGED <<m_is_new_session, m_session_context_data, uuids>>
    BY <1>2 DEF TrackInSession, Continue, ShouldUpdateSession, events
  <2>2. \A u \in Thread : pc'[u] \in {"save", "add"} =>
          (pc[u] \in {"save", "add"} /\ context'[u] = context[u]) \/ context'[u] = x
    BY <1>2 DEF TrackInSession, Continue, TypeOK
  <2>3. x.session.id = uuids /\ x.event_index = m_event_index + 1
    BY <2>1 DEF OrderInv, Context
  <2> HIDE DEF x
  <2>4. Counted' \subseteq Counted \cup {x}
    BY <2>2 DEF Counted
  <2>5. ASSUME NEW c \in tracked PROVE Before(c, x)
    <3>1. c.session.id <= uuids /\ (c.session.id = uuids => c.event_index <= m_event_index)
      BY <1>1, <2>1 DEF SessionInv, ContextInv, OrderInv
    <3>2. uuids \in Nat /\ m_event_index \in Nat
      BY DEF TypeOK
    <3> QED BY <1>1, <2>3, <3>1, <3>2 DEF Before
  <2> QED BY <1>0, <2>1, <2>4, <2>5, OrderCounted DEF OrderInv
<1>3. CASE UpdateSession(t)
  <2> DEFINE x == context'[t]
  <2>1. /\ tracked' = tracked /\ m_session_context_data'.id = uuids'
    BY <1>3 DEF UpdateSession, Updated, events
  <2>2. \A u \in Thread : pc'[u] \in {"save", "add"} =>
          (pc[u] \in {"save", "add"} /\ context'[u] = context[u]) \/ context'[u] = x
    BY <1>3 DEF UpdateSession, TypeOK
  <2>3. x.session.id = uuids + 1
    BY <1>3 DEF UpdateSession, Updated, Context, TypeOK
  <2> HIDE DEF x
  <2>4. Counted' \subseteq Counted \cup {x}
    BY <2>2 DEF Counted
  <2>5. ASSUME NEW c \in tracked PROVE Before(c, x)
    <3>1. c.session.id <= uuids /\ uuids \in Nat
      BY <1>1 DEF SessionInv, ContextInv, TypeOK
    <3> QED BY <1>1, <2>3, <3>1 DEF Before
  <2> QED BY <1>0, <2>1, <2>4, <2>5, OrderCounted
<1>4. CASE TrackInNewSession(t, e) \/ SaveSession(t) \/ SaveFails(t)
  <2>1. /\ tracked' = tracked
        /\ UNCHANGED <<m_is_new_session, m_session_context_data, uuids>>
    BY <1>4 DEF TrackInNewSession, TrackUnlocked, SaveSession, SaveFails, identity, events
  <2>2. \A u \in Thread : pc'[u] \in {"save", "add"} =>
          pc[u] \in {"save", "add"} /\ context'[u] = context[u]
    BY <1>4 DEF TrackInNewSession, TrackUnlocked, SaveSession, SaveFails, TypeOK
  <2>3. Counted' \subseteq Counted
    BY <2>2 DEF Counted
  <2> QED BY <1>0, <2>1, <2>3, OrderSame DEF OrderInv
<1> QED BY <1>2, <1>3, <1>4 DEF GetSessionContext

LEMMA OrderEnd ==
  ASSUME TypeOK, TrackingTyped, CallInv, InSessionInv, OrderInv,
         NEW t \in Thread, AddEvent(t) \/ AddUnstored(t)
  PROVE  OrderInv'
<1>1. begun' = begun /\ step[t] = "add"
  BY EndEffect
<1>2. CASE ~tracker.client_session
  <2>1. UNCHANGED vars
    BY <1>2 DEF AddEvent, AddUnstored, AddEventFails, AddEventThrows, EndStored,
                EndUnstored, store_vars
  <2>2. UNCHANGED <<tracked, pc, context, m_is_new_session, m_session_context_data, uuids>>
    BY <2>1 DEF vars, identity, events
  <2>3. Counted' = Counted
    BY <2>2 DEF Counted
  <2> QED BY <1>1, <2>2, <2>3, OrderSame DEF OrderInv
<1>3. CASE tracker.client_session
  <2>1. Add(t) \/ Discard(t)
    BY <1>3 DEF AddEvent, AddUnstored, AddEventFails, AddEventThrows, EndStored,
                EndUnstored, store_vars
  <2>2. /\ UNCHANGED <<m_is_new_session, m_session_context_data, uuids>>
        /\ \A u \in Thread : pc'[u] \in {"save", "add"} =>
             pc[u] \in {"save", "add"} /\ context'[u] = context[u]
        /\ tracked' \subseteq tracked \cup {context[t]}
        /\ pc[t] = "add"
    BY <2>1 DEF Add, Discard, identity, TypeOK
  <2>3. Counted' \subseteq Counted /\ context[t] \in Counted
    BY <2>2 DEF Counted
  <2>4. context[t].event = call[t].event /\ call[t].event \notin Returned
    BY <2>2, ReturnedEnd DEF InSessionInv
  <2>5. ASSUME NEW c \in tracked', NEW d \in tracked' \cup Counted',
               c.event \in begun[d.event].after
        PROVE  Before(c, d)
    <3>1. d \in tracked \cup Counted
      BY <2>2, <2>3
    <3>2. begun[d.event].after \subseteq Returned
      BY <3>1, CountedBegun DEF CallInv
    <3>3. c \in tracked
      BY <2>2, <2>4, <2>5, <3>2
    <3> QED BY <2>5, <3>1, <3>3 DEF OrderInv
  <2> QED BY <1>1, <2>2, <2>5 DEF OrderInv, Before
<1> QED BY <1>2, <1>3

LEMMA OrderStep ==
  ASSUME TrackingTyped, TypeOK, SessionInv, CallInv, InSessionInv, OrderInv,
         [TrackingStep]_<<vars, trackingVars>>
  PROVE  OrderInv'
<1>1. ASSUME UNCHANGED vars, \A f \in DOMAIN begun : begun'[f].after = begun[f].after
      PROVE  OrderInv'
  <2>1. UNCHANGED <<tracked, pc, context, m_is_new_session, m_session_context_data, uuids>>
    BY <1>1 DEF vars, identity, events
  <2>2. Counted' = Counted
    BY <2>1 DEF Counted
  <2> QED BY <1>1, <2>1, <2>2, OrderSame DEF OrderInv
<1>2. ASSUME NEW t \in Thread, NEW e \in Event, NEW ev \in EventData,
             Track(t, e, ev) \/ TrackThrows(t, e, ev)
      PROVE  OrderInv'
  BY <1>1, <1>2, TrackEffect, ThrowsEffect DEF Track
<1>3. ASSUME NEW t \in Thread,
             \/ TestSubject(t) \/ AddSubject(t) \/ AddEventSubject(t)
             \/ TestDesktopContext(t) \/ MakeDesktopContext(t)
      PROVE  OrderInv'
  BY <1>1, <1>3, SubjectEffect, OtherEffect DEF Quiet, TestSubject, TestDesktopContext,
                                                   MakeDesktopContext
<1>4. ASSUME NEW t \in Thread, BeginSession(t)
      PROVE  OrderInv'
  <2>1. /\ UNCHANGED <<tracked, pc, context, begun>> /\ m_is_new_session'
    BY <1>4 DEF BeginSession, StartNewSession, events, trackingVars, store_vars
  <2>2. Counted' = Counted
    BY <2>1 DEF Counted
  <2> QED BY <2>1, <2>2, OrderSame
<1>5. ASSUME \/ \E s \in DOMAIN Subjects, k \in Attribute, v \in Value : SetAttribute(s, k, v)
             \/ ChangeSubject
             \/ \E time \in 0..MaxTime : SetClock(time)
             \/ UNCHANGED <<vars, trackingVars>>
      PROVE  OrderInv'
  <2>1. /\ UNCHANGED <<tracked, pc, context, begun>>
        /\ UNCHANGED <<m_is_new_session, m_session_context_data, uuids>>
    BY <1>5 DEF SetAttribute, ChangeSubject, SetSubject, SetClock, Clock, vars, identity,
                events, trackingVars, store_vars
  <2>2. Counted' = Counted
    BY <2>1 DEF Counted
  <2> QED BY <2>1, <2>2, OrderSame DEF OrderInv
<1> QED BY <1>2, <1>3, <1>4, <1>5, OrderContext, OrderEnd DEF TrackingStep,
                                                              ChangeSubject, AddUnstored

(***************************************************************************)
(* The pairs of a payload                                                  *)
(***************************************************************************)
LEMMA KeyNumbers ==
  /\ Key.e = 256 /\ Key.eid = 257 /\ Key.dtm = 258 /\ Key.stm = 259 /\ Key.ttm = 260
  /\ Key.tv = 261 /\ Key.aid = 262 /\ Key.tna = 263 /\ Key.p = 264 /\ Key.co = 265
  /\ Key.cx = 266 /\ Key.ue_pr = 267 /\ Key.ue_px = 268 /\ Key.uid = 269
  /\ Key.res = 270 /\ Key.vp = 271 /\ Key.cd = 272 /\ Key.tz = 273 /\ Key.lang = 274
  /\ Key.ua = 275 /\ Key.ip = 276 /\ Key.se_ca = 277 /\ Key.se_ac = 278
  /\ Key.se_la = 279 /\ Key.se_pr = 280 /\ Key.se_va = 281
BY DEF Key

\* The pairs of a payload, and those of a set that add() does not leave out.
Pairs(m)   == {<<k, m[k]>> : k \in DOMAIN m}
Filled(S)  == {pair \in S : pair[2] # << >>}

\* A function from keys of D to texts, and a payload of the pairs of S that are
\* not empty, some of them in base64.
IsMap(m, D) == /\ m = [k \in DOMAIN m |-> m[k]] /\ DOMAIN m \subseteq D
               /\ \A k \in DOMAIN m : m[k] \in Text
Carries(p, D, S) == /\ IsMap(p, D) /\ \A k \in DOMAIN p : p[k] # << >>
                    /\ {Plain(k, p[k]) : k \in DOMAIN p} = Filled(S)

LEMMA Joined ==
  ASSUME NEW m, NEW n
  PROVE  /\ DOMAIN (m ++ n) = DOMAIN m \cup DOMAIN n
         /\ \A k \in DOMAIN m : (m ++ n)[k] = m[k]
         /\ DOMAIN m \cap DOMAIN n = {} => \A k \in DOMAIN n : (m ++ n)[k] = n[k]
BY DEF ++

LEMMA JoinedIsFunction ==
  ASSUME NEW m, NEW n
  PROVE  m ++ n = [k \in DOMAIN (m ++ n) |-> (m ++ n)[k]]
BY DEF ++

LEMMA JoinMaps ==
  ASSUME NEW m, NEW D, IsMap(m, D), NEW n, NEW E, IsMap(n, E), D \cap E = {}
  PROVE  IsMap(m ++ n, D \cup E) /\ Pairs(m ++ n) = Pairs(m) \cup Pairs(n)
<1> DEFINE q == m ++ n
<1>0. q = [k \in DOMAIN q |-> q[k]]
  BY JoinedIsFunction
<1>1. /\ DOMAIN q = DOMAIN m \cup DOMAIN n
      /\ \A k \in DOMAIN m : q[k] = m[k]
      /\ \A k \in DOMAIN n : q[k] = n[k]
  <2>1. DOMAIN m \cap DOMAIN n = {}
    BY DEF IsMap
  <2> QED BY <2>1, Joined
<1> HIDE DEF q
<1>2. IsMap(q, D \cup E)
  BY <1>0, <1>1 DEF IsMap
<1>3. Pairs(q) = Pairs(m) \cup Pairs(n)
  BY <1>1 DEF Pairs
<1> QED BY <1>2, <1>3 DEF q

LEMMA PairMap ==
  ASSUME NEW k, NEW v \in Text
  PROVE  IsMap(Pair(k, v), {k}) /\ Pairs(Pair(k, v)) = {<<k, v>>}
BY DEF Pair, IsMap, Pairs

LEMMA OptionalMap ==
  ASSUME NEW k, NEW field, MayBeNull(field)
  PROVE  /\ IsMap(OptionalPair(k, field), {k})
         /\ Pairs(OptionalPair(k, field)) = {<<k, v>> : v \in field}
<1>1. CASE field = {}
  BY <1>1 DEF OptionalPair, IsMap, Pairs
<1>2. CASE field # {}
  <2> DEFINE v == CHOOSE v \in field : TRUE
  <2>1. v \in field /\ v \in Text /\ \A w \in field : w = v
    BY <1>2 DEF MayBeNull
  <2>2. OptionalPair(k, field) = Pair(k, v)
    BY <1>2 DEF OptionalPair, Pair
  <2> HIDE DEF v
  <2> QED BY <2>1, <2>2, PairMap
<1> QED BY <1>1, <1>2

LEMMA AddMapCarries ==
  ASSUME NEW p, NEW D, NEW S, Carries(p, D, S), NEW m, NEW E, IsMap(m, E),
         D \cap E = {}, Key.cx \notin E, Key.ue_px \notin E
  PROVE  Carries(add_map(p, m), D \cup E, S \cup Pairs(m))
<1> DEFINE f == [k \in {l \in DOMAIN m : m[l] # << >>} |-> m[k]]
           q == f ++ p
<1>1. /\ DOMAIN f = {l \in DOMAIN m : m[l] # << >>} /\ \A k \in DOMAIN f : f[k] = m[k]
  OBVIOUS
<1>2. DOMAIN f \cap DOMAIN p = {}
  BY <1>1 DEF IsMap, Carries
<1> HIDE DEF f
<1>0. q = [k \in DOMAIN q |-> q[k]]
  BY JoinedIsFunction
<1>3. /\ DOMAIN q = DOMAIN f \cup DOMAIN p
      /\ \A k \in DOMAIN f : q[k] = m[k]
      /\ \A k \in DOMAIN p : q[k] = p[k]
  <2>1. DOMAIN q = DOMAIN f \cup DOMAIN p /\ \A k \in DOMAIN f : q[k] = f[k]
    BY Joined
  <2>2. \A k \in DOMAIN p : q[k] = p[k]
    BY <1>2, Joined
  <2> QED BY <1>1, <2>1, <2>2
<1> HIDE DEF q
<1>4. IsMap(q, D \cup E) /\ \A k \in DOMAIN q : q[k] # << >>
  BY <1>0, <1>1, <1>3 DEF IsMap, Carries
<1>5. {Plain(k, q[k]) : k \in DOMAIN q} = Filled(S \cup Pairs(m))
  <2>1. \A k \in DOMAIN f : Plain(k, q[k]) = <<k, m[k]>>
    BY <1>1, <1>3 DEF Plain, IsMap
  <2>2. {Plain(k, q[k]) : k \in DOMAIN f} = Filled(Pairs(m))
    BY <1>1, <2>1 DEF Filled, Pairs
  <2>3. {Plain(k, q[k]) : k \in DOMAIN p} = Filled(S)
    BY <1>3 DEF Carries
  <2>4. Filled(S \cup Pairs(m)) = Filled(S) \cup Filled(Pairs(m))
    BY DEF Filled
  <2> QED BY <1>3, <2>2, <2>3, <2>4
<1>6. add_map(p, m) = q
  BY DEF add_map, f, q
<1> QED BY <1>4, <1>5, <1>6 DEF Carries

\* A pair that is not empty, encoded or not.
LEMMA AddOne ==
  ASSUME NEW p, NEW D, NEW S, Carries(p, D, S), NEW k, k \notin D,
         NEW v \in Text \ {<< >>}, Plain(k, v)[2] # << >>
  PROVE  Carries(add(p, k, v), D \cup {k}, S \cup {Plain(k, v)})
<1> DEFINE f == Pair(k, v)
<1>1. DOMAIN f = {k} /\ f[k] = v
  BY Single
<1> HIDE DEF f
<1>10. DOMAIN (f ++ p) = DOMAIN f \cup DOMAIN p
  BY DEF ++
<1>11. \A l \in DOMAIN f : (f ++ p)[l] = f[l]
  BY DEF ++
<1>12. DOMAIN f \cap DOMAIN p = {} => \A l \in DOMAIN p : (f ++ p)[l] = p[l]
  BY DEF ++
<1> DEFINE q == f ++ p
<1>0. q = [l \in DOMAIN q |-> q[l]]
  BY JoinedIsFunction
<1>2. /\ DOMAIN q = {k} \cup DOMAIN p
      /\ q[k] = v
      /\ \A l \in DOMAIN p : q[l] = p[l]
  <2>1. DOMAIN f \cap DOMAIN p = {}
    BY <1>1 DEF Carries, IsMap
  <2>2. DOMAIN q = DOMAIN f \cup DOMAIN p /\ \A l \in DOMAIN f : q[l] = f[l]
    BY <1>10, <1>11
  <2>3. \A l \in DOMAIN p : q[l] = p[l]
    BY <1>12, <2>1
  <2> QED BY <1>1, <2>2, <2>3
<1> HIDE DEF q
<1>3. IsMap(q, D \cup {k}) /\ \A l \in DOMAIN q : q[l] # << >>
  BY <1>0, <1>2 DEF IsMap, Carries
<1>4. {Plain(l, q[l]) : l \in DOMAIN q} = Filled(S \cup {Plain(k, v)})
  BY <1>2 DEF Carries, Filled
<1>5. add(p, k, v) = q
  BY DEF add, f, q
<1> QED BY <1>3, <1>4, <1>5 DEF Carries

LEMMA AddCarries ==
  ASSUME NEW p, NEW D, NEW S, Carries(p, D, S), NEW k, k \notin D,
         k # Key.cx, k # Key.ue_px, NEW v \in Text
  PROVE  Carries(add(p, k, v), D \cup {k}, S \cup {<<k, v>>})
<1>0. Plain(k, v) = <<k, v>>
  BY DEF Plain
<1>1. CASE v = << >>
  BY <1>1 DEF add, Carries, Filled, IsMap
<1>2. CASE v # << >>
  BY <1>0, <1>2, AddOne
<1> QED BY <1>1, <1>2

LEMMA AddJsonCarries ==
  ASSUME NEW p, NEW D, NEW S, Carries(p, D, S), NEW j \in Text \ {<< >>}, NEW base64,
         NEW encoded, NEW not_encoded, encoded \notin D, not_encoded \notin D,
         \/ encoded = Key.cx /\ not_encoded = Key.co
         \/ encoded = Key.ue_px /\ not_encoded = Key.ue_pr
  PROVE  Carries(add_json(p, j, base64, encoded, not_encoded),
                 D \cup {encoded, not_encoded}, S \cup {<<not_encoded, j>>})
<1>0. /\ Key.cx # Key.ue_px /\ not_encoded # Key.cx /\ not_encoded # Key.ue_px
  BY KeyNumbers
<1>1. CASE base64
  <2> DEFINE v == base64_encode(j)
  <2>1. v \in Text \ {<< >>} /\ base64_decode(v) = j
    <3>1. v \in Seq(Byte) /\ Len(v) = 4 * ((Len(j) + 2) \div 3)
      BY Encoded DEF Text
    <3>2. Len(j) \in Nat \ {0}
      BY DEF Text
    <3>3. 4 * ((Len(j) + 2) \div 3) # 0
      BY <3>2
    <3> QED BY <3>1, <3>3, Base64Decodes DEF Text
  <2> HIDE DEF v
  <2>2. Plain(encoded, v) = <<not_encoded, j>>
    BY <1>0, <2>1 DEF Plain
  <2>3. add_json(p, j, base64, encoded, not_encoded) = add(p, encoded, v)
    BY <1>1 DEF add_json, v
  <2>4. Carries(add(p, encoded, v), D \cup {encoded}, S \cup {<<not_encoded, j>>})
    BY <2>1, <2>2, AddOne
  <2> DEFINE q == add(p, encoded, v)
  <2>5. DOMAIN q \subseteq D \cup {encoded} => DOMAIN q \subseteq D \cup {encoded, not_encoded}
    OBVIOUS
  <2>7. Carries(q, D \cup {encoded}, S \cup {<<not_encoded, j>>})
    BY <2>4
  <2> HIDE DEF q
  <2>6. Carries(q, D \cup {encoded, not_encoded}, S \cup {<<not_encoded, j>>})
    BY <2>5, <2>7 DEF Carries, IsMap
  <2> QED BY <2>3, <2>6 DEF q
<1>2. CASE ~base64
  <2>1. Carries(add(p, not_encoded, j), D \cup {not_encoded}, S \cup {<<not_encoded, j>>})
    BY <1>0, AddCarries
  <2> DEFINE q == add(p, not_encoded, j)
  <2>2. Carries(q, D \cup {not_encoded}, S \cup {<<not_encoded, j>>})
    BY <2>1
  <2>3. add_json(p, j, base64, encoded, not_encoded) = q
    BY <1>2 DEF add_json
  <2> HIDE DEF q
  <2>4. Carries(q, D \cup {encoded, not_encoded}, S \cup {<<not_encoded, j>>})
    BY <2>2 DEF Carries, IsMap
  <2> QED BY <2>3, <2>4
<1> QED BY <1>1, <1>2

(***************************************************************************)
(* JSON                                                                    *)
(***************************************************************************)
LEMMA Texts ==
  /\ \A v, w \in Text : v \o w \in Text
  /\ \A b \in Byte : << b >> \in Text
  /\ \A b, c \in Byte : << b, c >> \in Text
  /\ << >> \in Text
BY DEF Text

LEMMA Flattened ==
  ASSUME NEW js \in Seq(Text)
  PROVE  FlattenSeq(js) \in Text
BY FlattenJoins DEF Text

LEMMA JsonText ==
  ASSUME NEW schema \in Byte, NEW data \in Text
  PROVE  SelfDescribingJson(schema, data) \in Text \ {<< >>}
<1> DEFINE a == << schema, 123 >>
           b == << 125 >>
<1>1. a \in Text /\ b \in Text /\ Len(b) = 1 /\ 123 \in Byte
  BY DEF Text, Byte
<1> HIDE DEF a, b
<1> DEFINE c == a \o data
<1>2. c \in Seq(Byte) /\ b \in Seq(Byte)
  BY <1>1 DEF Text
<1> HIDE DEF c
<1>3. c \o b \in Seq(Byte) /\ Len(c \o b) = Len(c) + 1 /\ Len(c) \in Nat
  BY <1>1, <1>2, JoinedPair
<1>4. c \o b # << >>
  BY <1>3
<1> QED BY <1>3, <1>4 DEF SelfDescribingJson, a, b, c, Text

\* Each of js with a text behind it.
LEMMA Delimited ==
  ASSUME NEW js \in Seq(Text), NEW delimiter \in Text
  PROVE  FlattenSeq([i \in DOMAIN js |-> js[i] \o delimiter]) \in Text
<1>1. /\ Len(js) \in Nat /\ DOMAIN js = 1..Len(js)
      /\ \A i \in 1..Len(js) : js[i] \in Text
  OBVIOUS
<1>2. \A i \in 1..Len(js) : js[i] \o delimiter \in Text
  BY <1>1, Texts
<1>3. [i \in DOMAIN js |-> js[i] \o delimiter] \in Seq(Text)
  BY <1>1, <1>2
<1> QED BY <1>3, Flattened

LEMMA MembersText ==
  ASSUME NEW m \in Seq(Text)
  PROVE  Members(m) \in Text
<1>1. << 34 >> \in Text
  BY DEF Text, Byte
<1> QED BY <1>1, Delimited DEF Members

LEMMA ArrayText ==
  ASSUME NEW js \in Seq(Text)
  PROVE  Array(js) \in Text
<1>1. << 44 >> \in Text /\ << 91 >> \in Text /\ << 93 >> \in Text
  BY DEF Text, Byte
<1>2. FlattenSeq([i \in DOMAIN js |-> js[i] \o << 44 >>]) \in Text
  BY <1>1, Delimited
<1> QED BY <1>1, <1>2, Texts DEF Array

LEMMA NumberText ==
  ASSUME NEW n \in Nat
  PROVE  Number(n) \in Text \ {<< >>}
<1>1. Number(n) \in Seq(Byte) /\ Len(Number(n)) = n + 1
  <2>1. n + 1 \in Nat /\ \A i \in 1..n + 1 : 49 \in Byte
    BY DEF Byte
  <2> QED BY <2>1 DEF Number
<1>2. n + 1 # 0
  OBVIOUS
<1> QED BY <1>1, <1>2 DEF Text

LEMMA NullableTexts ==
  ASSUME NEW field, MayBeNull(field)
  PROVE  Nullable(field) \in Seq(Text)
<1>1. CASE field # {}
  <2>1. (CHOOSE v \in field : TRUE) \in Text
    BY <1>1 DEF MayBeNull
  <2> QED BY <1>1, <2>1 DEF Nullable
<1> QED BY <1>1 DEF Nullable

LEMMA EventJsonText ==
  ASSUME NEW ev, IsEvent(ev), HasJson(ev)
  PROVE  UnstructEvent(ev) \in Text \ {<< >>}
<1>0. Schema.unstruct_event \in Byte /\ Schema.timing \in Byte /\ Schema.screen_view \in Byte
  BY DEF Schema, Byte
<1>1. CASE ev.kind = "timing"
  <2>1. /\ ev.category \in Text /\ ev.variable \in Text /\ ev.timing \in Text
        /\ MayBeNull(ev.label)
    BY <1>1 DEF IsEvent
  <2>2. <<ev.category, ev.variable, ev.timing>> \in Seq(Text) /\ Nullable(ev.label) \in Seq(Text)
    BY <2>1, NullableTexts
  <2>3. <<ev.category, ev.variable, ev.timing>> \o Nullable(ev.label) \in Seq(Text)
    BY <2>2
  <2>4. TimingJson(ev) \in Text
    BY <1>0, <2>3, MembersText, JsonText DEF TimingJson
  <2>5. EventJson(ev) \in Text
    BY <1>1, <2>4 DEF EventJson
  <2> QED BY <1>0, <2>5, JsonText DEF UnstructEvent
<1>2. CASE ev.kind = "screen_view"
  <2>1. MayBeNull(ev.id) /\ MayBeNull(ev.name)
    BY <1>2 DEF IsEvent
  <2>2. Nullable(ev.id) \o Nullable(ev.name) \in Seq(Text)
    BY <2>1, NullableTexts
  <2>4. ScreenViewJson(ev) \in Text
    BY <1>0, <2>2, MembersText, JsonText DEF ScreenViewJson
  <2>5. EventJson(ev) \in Text
    BY <1>2, <2>4 DEF EventJson
  <2> QED BY <1>0, <2>5, JsonText DEF UnstructEvent
<1>3. CASE ev.kind = "self_describing"
  <2>1. EventJson(ev) \in Text
    BY <1>3 DEF IsEvent, EventJson
  <2> QED BY <1>0, <2>1, JsonText DEF UnstructEvent
<1> QED BY <1>1, <1>2, <1>3 DEF HasJson

LEMMA CarriesMore ==
  ASSUME NEW p, NEW D, NEW S, Carries(p, D, S), NEW E, D \subseteq E
  PROVE  Carries(p, E, S)
BY DEF Carries, IsMap

LEMMA NothingCarried == Carries(NoPairs, {}, {})
BY DEF Carries, IsMap, NoPairs, Filled

EventKey == {Key.e, Key.ue_pr, Key.ue_px, Key.se_ca, Key.se_ac, Key.se_la, Key.se_pr, Key.se_va}

KindPairs(ev) ==
  CASE ev.kind = "structured" ->
         {<<Key.e, Structured>>, <<Key.se_ca, ev.category>>, <<Key.se_ac, ev.action>>}
         \cup {<<Key.se_la, v>> : v \in ev.label}
         \cup {<<Key.se_pr, v>> : v \in ev.property}
         \cup {<<Key.se_va, v>> : v \in ev.value}
    [] ev.kind = "custom" -> {<<Key.e, ev.type>>}
    [] OTHER -> {<<Key.e, SelfDescribing>>, <<Key.ue_pr, UnstructEvent(ev)>>}

LEMMA StructuredMap ==
  ASSUME NEW ev, IsEvent(ev), ev.kind = "structured"
  PROVE  IsMap(StructuredPairs(ev), EventKey) /\ Pairs(StructuredPairs(ev)) = KindPairs(ev)
<1>0. /\ ev.category \in Text /\ ev.action \in Text /\ Structured \in Text
      /\ MayBeNull(ev.label) /\ MayBeNull(ev.property) /\ MayBeNull(ev.value)
  BY DEF IsEvent, Structured, Text, Byte
<1> DEFINE f1 == Pair(Key.e, Structured)
           f2 == Pair(Key.se_ac, ev.action)
           f3 == Pair(Key.se_ca, ev.category)
           f4 == OptionalPair(Key.se_la, ev.label)
           f5 == OptionalPair(Key.se_pr, ev.property)
           f6 == OptionalPair(Key.se_va, ev.value)
           S4 == {<<Key.se_la, v>> : v \in ev.label}
           S5 == {<<Key.se_pr, v>> : v \in ev.property}
           S6 == {<<Key.se_va, v>> : v \in ev.value}
<1>1. /\ IsMap(f1, {Key.e}) /\ Pairs(f1) = {<<Key.e, Structured>>}
      /\ IsMap(f2, {Key.se_ac}) /\ Pairs(f2) = {<<Key.se_ac, ev.action>>}
      /\ IsMap(f3, {Key.se_ca}) /\ Pairs(f3) = {<<Key.se_ca, ev.category>>}
  BY <1>0, PairMap
<1>2. /\ IsMap(f4, {Key.se_la}) /\ Pairs(f4) = S4
      /\ IsMap(f5, {Key.se_pr}) /\ Pairs(f5) = S5
      /\ IsMap(f6, {Key.se_va}) /\ Pairs(f6) = S6
  BY <1>0, OptionalMap
<1>3. StructuredPairs(ev) = ((((f1 ++ f2) ++ f3) ++ f4) ++ f5) ++ f6
  BY DEF StructuredPairs
<1>4. KindPairs(ev) = {<<Key.e, Structured>>, <<Key.se_ca, ev.category>>, <<Key.se_ac, ev.action>>}
                      \cup S4 \cup S5 \cup S6
  BY DEF KindPairs
<1> HIDE DEF f1, f2, f3, f4, f5, f6, S4, S5, S6
<1> DEFINE g2 == f1 ++ f2
           g3 == g2 ++ f3
           g4 == g3 ++ f4
           g5 == g4 ++ f5
           g6 == g5 ++ f6
           D2 == {Key.e, Key.se_ac}
           D3 == D2 \cup {Key.se_ca}
           D4 == D3 \cup {Key.se_la}
           D5 == D4 \cup {Key.se_pr}
           D6 == D5 \cup {Key.se_va}
<1>5. /\ {Key.e} \cap {Key.se_ac} = {} /\ {Key.e} \cup {Key.se_ac} = D2
      /\ D2 \cap {Key.se_ca} = {} /\ D3 \cap {Key.se_la} = {}
      /\ D4 \cap {Key.se_pr} = {} /\ D5 \cap {Key.se_va} = {} /\ D6 \subseteq EventKey
  BY KeyNumbers DEF EventKey
<1> HIDE DEF D2, D3, D4, D5, D6
<1>6. IsMap(g2, D2) /\ Pairs(g2) = Pairs(f1) \cup Pairs(f2)
  <2>1. IsMap(f1, {Key.e}) /\ IsMap(f2, {Key.se_ac}) /\ {Key.e} \cap {Key.se_ac} = {}
    BY <1>5, <1>1
  <2>2. {Key.e} \cup {Key.se_ac} = D2
    BY <1>5 DEF D2
  <2> QED BY <2>1, <2>2, JoinMaps
<1> HIDE DEF g2
<1>7. IsMap(g3, D3) /\ Pairs(g3) = Pairs(g2) \cup Pairs(f3)
  <2>1. IsMap(g2, D2) /\ IsMap(f3, {Key.se_ca}) /\ D2 \cap {Key.se_ca} = {}
    BY <1>5, <1>6, <1>1
  <2>2. D2 \cup {Key.se_ca} = D3
    BY <1>5 DEF D3
  <2> QED BY <2>1, <2>2, JoinMaps
<1> HIDE DEF g3
<1>8. IsMap(g4, D4) /\ Pairs(g4) = Pairs(g3) \cup Pairs(f4)
  <2>1. IsMap(g3, D3) /\ IsMap(f4, {Key.se_la}) /\ D3 \cap {Key.se_la} = {}
    BY <1>5, <1>7, <1>2
  <2>2. D3 \cup {Key.se_la} = D4
    BY <1>5 DEF D4
  <2> QED BY <2>1, <2>2, JoinMaps
<1> HIDE DEF g4
<1>9. IsMap(g5, D5) /\ Pairs(g5) = Pairs(g4) \cup Pairs(f5)
  <2>1. IsMap(g4, D4) /\ IsMap(f5, {Key.se_pr}) /\ D4 \cap {Key.se_pr} = {}
    BY <1>5, <1>8, <1>2
  <2>2. D4 \cup {Key.se_pr} = D5
    BY <1>5 DEF D5
  <2> QED BY <2>1, <2>2, JoinMaps
<1> HIDE DEF g5
<1>10. IsMap(g6, D6) /\ Pairs(g6) = Pairs(g5) \cup Pairs(f6)
  <2>1. IsMap(g5, D5) /\ IsMap(f6, {Key.se_va}) /\ D5 \cap {Key.se_va} = {}
    BY <1>5, <1>9, <1>2
  <2>2. D5 \cup {Key.se_va} = D6
    BY <1>5 DEF D6
  <2> QED BY <2>1, <2>2, JoinMaps
<1> HIDE DEF g6
<1>11. IsMap(g6, EventKey)
  BY <1>5, <1>10 DEF IsMap
<1>12. Pairs(g6) = KindPairs(ev)
  BY <1>1, <1>2, <1>4, <1>6, <1>7, <1>8, <1>9, <1>10
<1> QED BY <1>3, <1>11, <1>12 DEF g2, g3, g4, g5, g6

LEMMA EventPayloadCarries ==
  ASSUME NEW e \in 0..127, NEW dtm \in Text
  PROVE  Carries(EventPayload(<< e >>, dtm), {Key.dtm, Key.eid},
                 {<<Key.dtm, dtm>>, <<Key.eid, << e >> >>})
<1> DEFINE p == add(NoPairs, Key.dtm, dtm)
<1>0. /\ Key.dtm # Key.eid /\ Key.cx \notin {Key.dtm, Key.eid}
      /\ Key.ue_px \notin {Key.dtm, Key.eid}
  BY KeyNumbers
<1>1. << e >> \in Text
  BY DEF Text, Byte
<1>2. Carries(p, {} \cup {Key.dtm}, {} \cup {<<Key.dtm, dtm>>})
  BY <1>0, NothingCarried, AddCarries
<1> HIDE DEF p
<1>3. Carries(p, {Key.dtm}, {<<Key.dtm, dtm>>})
  BY <1>2
<1>4. Carries(add(p, Key.eid, << e >>), {Key.dtm} \cup {Key.eid},
              {<<Key.dtm, dtm>>} \cup {<<Key.eid, << e >> >>})
  BY <1>0, <1>1, <1>3, AddCarries
<1>5. {Key.dtm} \cup {Key.eid} = {Key.dtm, Key.eid}
      /\ {<<Key.dtm, dtm>>} \cup {<<Key.eid, << e >> >>} = {<<Key.dtm, dtm>>, <<Key.eid, << e >> >>}
  OBVIOUS
<1> QED BY <1>4, <1>5 DEF EventPayload, p

LEMMA CustomCarries ==
  ASSUME NEW ev, IsEvent(ev), NEW e \in 0..127, NEW dtm \in Text, NEW base64
  PROVE  Carries(get_custom_event_payload(ev, << e >>, dtm, base64),
                 {Key.dtm, Key.eid} \cup EventKey,
                 {<<Key.dtm, dtm>>, <<Key.eid, << e >> >>} \cup KindPairs(ev))
<1> DEFINE p == EventPayload(<< e >>, dtm)
           D == {Key.dtm, Key.eid}
           S == {<<Key.dtm, dtm>>, <<Key.eid, << e >> >>}
           g == get_custom_event_payload(ev, << e >>, dtm, base64)
<1>0. Carries(p, D, S)
  BY EventPayloadCarries
<1>1. /\ D \cap EventKey = {} /\ Key.e \notin D /\ Key.e # Key.cx /\ Key.e # Key.ue_px
      /\ Key.ue_px \notin D \cup {Key.e} /\ Key.ue_pr \notin D \cup {Key.e}
      /\ Key.e \in EventKey /\ Key.ue_px \in EventKey /\ Key.ue_pr \in EventKey
  BY KeyNumbers DEF EventKey
<1>2. CASE ev.kind = "structured"
  <2> DEFINE m == StructuredPairs(ev)
             E == EventKey \ {Key.ue_px}
  <2>1. IsMap(m, EventKey) /\ Pairs(m) = KindPairs(ev)
    BY <1>2, StructuredMap
  <2>2. g = add_map(p, m)
    BY <1>2 DEF get_custom_event_payload
  <2>3. IsMap(m, E)
    <3>1. \A v : <<Key.ue_px, v>> \notin KindPairs(ev)
      BY <1>2, KeyNumbers DEF KindPairs
    <3>2. Key.ue_px \notin DOMAIN m
      BY <2>1, <3>1 DEF Pairs
    <3> QED BY <2>1, <3>2 DEF IsMap
  <2> HIDE DEF m, p, S, g
  <2>4. Key.cx \notin E /\ Key.ue_px \notin E /\ D \cap E = {}
    BY KeyNumbers DEF EventKey
  <2> HIDE DEF E, D
  <2>5. Carries(add_map(p, m), D \cup E, S \cup Pairs(m))
    BY <1>0, <2>3, <2>4, AddMapCarries
  <2>6. D \cup E \subseteq D \cup EventKey
    BY DEF E
  <2> QED BY <2>1, <2>2, <2>5, <2>6, CarriesMore DEF p, S, g, D
<1>3. CASE ev.kind = "custom"
  <2>1. ev.type \in Text
    BY <1>3 DEF IsEvent
  <2>2. g = add(p, Key.e, ev.type) /\ KindPairs(ev) = {<<Key.e, ev.type>>}
    BY <1>3 DEF get_custom_event_payload, KindPairs
  <2> HIDE DEF p, S, g, D
  <2>3. Carries(add(p, Key.e, ev.type), D \cup {Key.e}, S \cup {<<Key.e, ev.type>>})
    BY <1>0, <1>1, <2>1, AddCarries
  <2> QED BY <1>1, <2>2, <2>3, CarriesMore DEF p, S, g, D
<1>4. CASE HasJson(ev)
  <2> DEFINE u == UnstructEvent(ev)
             q == add(p, Key.e, SelfDescribing)
  <2>1. u \in Text \ {<< >>} /\ SelfDescribing \in Text
    BY <1>4, EventJsonText DEF SelfDescribing, Text, Byte
  <2>2. /\ g = add_json(q, u, base64, Key.ue_px, Key.ue_pr)
        /\ KindPairs(ev) = {<<Key.e, SelfDescribing>>, <<Key.ue_pr, u>>}
    BY <1>4 DEF get_custom_event_payload, get_self_describing_event_payload, KindPairs,
                HasJson
  <2> HIDE DEF p, S, g, D, u
  <2>3. Carries(q, D \cup {Key.e}, S \cup {<<Key.e, SelfDescribing>>})
    BY <1>0, <1>1, <2>1, AddCarries
  <2> HIDE DEF q
  <2>4. Carries(add_json(q, u, base64, Key.ue_px, Key.ue_pr),
                (D \cup {Key.e}) \cup {Key.ue_px, Key.ue_pr},
                (S \cup {<<Key.e, SelfDescribing>>}) \cup {<<Key.ue_pr, u>>})
    BY <1>1, <2>1, <2>3, AddJsonCarries
  <2>5. (D \cup {Key.e}) \cup {Key.ue_px, Key.ue_pr} \subseteq D \cup EventKey
    BY <1>1
  <2>6. (S \cup {<<Key.e, SelfDescribing>>}) \cup {<<Key.ue_pr, u>>} = S \cup KindPairs(ev)
    BY <2>2
  <2> QED BY <2>2, <2>4, <2>5, <2>6, CarriesMore DEF p, S, g, D
<1> QED BY <1>2, <1>3, <1>4 DEF IsEvent, HasJson

LEMMA PayloadCarries ==
  ASSUME NEW ev, IsEvent(ev), NEW e \in 0..127, NEW dtm \in Text, NEW base64
  PROVE  Carries(get_payload(ev, << e >>, dtm, base64),
                 ({Key.dtm, Key.eid} \cup EventKey) \cup {Key.ttm},
                 ({<<Key.dtm, dtm>>, <<Key.eid, << e >> >>} \cup KindPairs(ev))
                 \cup {<<Key.ttm, v>> : v \in ev.true_timestamp})
<1> DEFINE D == {Key.dtm, Key.eid} \cup EventKey
           S == {<<Key.dtm, dtm>>, <<Key.eid, << e >> >>} \cup KindPairs(ev)
           p == get_custom_event_payload(ev, << e >>, dtm, base64)
           m == OptionalPair(Key.ttm, ev.true_timestamp)
<1>1. Carries(p, D, S)
  BY CustomCarries
<1>2. IsMap(m, {Key.ttm}) /\ Pairs(m) = {<<Key.ttm, v>> : v \in ev.true_timestamp}
  BY OptionalMap DEF IsEvent
<1>3. D \cap {Key.ttm} = {} /\ Key.cx \notin {Key.ttm} /\ Key.ue_px \notin {Key.ttm}
  BY KeyNumbers DEF EventKey
<1>4. get_payload(ev, << e >>, dtm, base64) = add_map(p, m)
  BY DEF get_payload
<1> HIDE DEF D, S, p, m
<1>5. Carries(add_map(p, m), D \cup {Key.ttm}, S \cup Pairs(m))
  BY <1>1, <1>2, <1>3, AddMapCarries
<1> QED BY <1>2, <1>4, <1>5 DEF D, S

StandardKey == {Key.tv, Key.p, Key.aid, Key.tna}

LEMMA StandardMap == IsMap(StandardPairs, StandardKey)
<1> DEFINE f1 == Pair(Key.tv, << 99 >>)
           f2 == Pair(Key.p, << 115 >>)
           f3 == Pair(Key.aid, << >>)
           f4 == Pair(Key.tna, << 110 >>)
<1>0. << 99 >> \in Text /\ << 115 >> \in Text /\ << >> \in Text /\ << 110 >> \in Text
  BY DEF Text, Byte
<1>1. /\ IsMap(f1, {Key.tv}) /\ IsMap(f2, {Key.p}) /\ IsMap(f3, {Key.aid})
      /\ IsMap(f4, {Key.tna})
  BY <1>0, PairMap
<1>2. StandardPairs = ((f1 ++ f2) ++ f3) ++ f4
  BY DEF StandardPairs
<1> HIDE DEF f1, f2, f3, f4
<1> DEFINE D2 == {Key.tv} \cup {Key.p}
           D3 == D2 \cup {Key.aid}
           D4 == D3 \cup {Key.tna}
<1>3. /\ {Key.tv} \cap {Key.p} = {} /\ D2 \cap {Key.aid} = {} /\ D3 \cap {Key.tna} = {}
      /\ D4 \subseteq StandardKey
  BY KeyNumbers DEF StandardKey
<1>4. IsMap(f1 ++ f2, D2)
  BY <1>1, <1>3, JoinMaps
<1> HIDE DEF D2
<1>5. IsMap((f1 ++ f2) ++ f3, D3)
  BY <1>1, <1>3, <1>4, JoinMaps
<1> HIDE DEF D3
<1>6. IsMap(((f1 ++ f2) ++ f3) ++ f4, D4)
  BY <1>1, <1>3, <1>5, JoinMaps
<1> HIDE DEF D4
<1> QED BY <1>2, <1>3, <1>6 DEF IsMap

(***************************************************************************)
(* Subjects                                                                *)
(***************************************************************************)
\* The setters add no empty text to a Subject.
IsSubject(m) == IsMap(m, SubjectKey) /\ \A k \in DOMAIN m : m[k] # << >>

LEMMA AddMapIs ==
  ASSUME NEW p, NEW m, IsSubject(m)
  PROVE  add_map(p, m) = m ++ p
<1>1. {l \in DOMAIN m : m[l] # << >>} = DOMAIN m /\ m = [k \in DOMAIN m |-> m[k]]
  BY DEF IsSubject, IsMap
<1> QED BY <1>1 DEF add_map

LEMMA JoinsAssociate ==
  ASSUME NEW a, NEW b, NEW p
  PROVE  b ++ (a ++ p) = (b ++ a) ++ p
BY DEF ++

LEMMA SubjectOver ==
  ASSUME NEW a, IsSubject(a), NEW b, IsSubject(b)
  PROVE  /\ IsSubject(b ++ a)
         /\ Pairs(b ++ a) = {<<k, b[k]>> : k \in DOMAIN b}
                            \cup {<<k, a[k]>> : k \in DOMAIN a \ DOMAIN b}
<1> DEFINE q == b ++ a
<1>1. q = [k \in DOMAIN q |-> q[k]]
  BY JoinedIsFunction
<1>2. /\ DOMAIN q = DOMAIN b \cup (DOMAIN a \ DOMAIN b)
      /\ \A k \in DOMAIN b : q[k] = b[k]
      /\ \A k \in DOMAIN a \ DOMAIN b : q[k] = a[k]
  BY DEF ++
<1> HIDE DEF q
<1>3. IsSubject(q)
  BY <1>1, <1>2 DEF IsSubject, IsMap
<1>4. Pairs(q) = {<<k, b[k]>> : k \in DOMAIN b}
                 \cup {<<k, a[k]>> : k \in DOMAIN a \ DOMAIN b}
  BY <1>2 DEF Pairs
<1> QED BY <1>3, <1>4 DEF q

LEMMA SubjectsCarried ==
  ASSUME NEW p, NEW D, NEW S, Carries(p, D, S), D \cap SubjectKey = {},
         NEW a, IsSubject(a), NEW b, IsSubject(b)
  PROVE  Carries(add_map(add_map(p, a), b), D \cup SubjectKey,
                 S \cup ({<<k, b[k]>> : k \in DOMAIN b}
                         \cup {<<k, a[k]>> : k \in DOMAIN a \ DOMAIN b}))
<1>1. /\ IsSubject(b ++ a)
      /\ Pairs(b ++ a) = {<<k, b[k]>> : k \in DOMAIN b}
                         \cup {<<k, a[k]>> : k \in DOMAIN a \ DOMAIN b}
  BY SubjectOver
<1>2. add_map(add_map(p, a), b) = add_map(p, b ++ a)
  BY <1>1, AddMapIs, JoinsAssociate
<1>3. Key.cx \notin SubjectKey /\ Key.ue_px \notin SubjectKey
  BY KeyNumbers DEF SubjectKey
<1>4. Carries(add_map(p, b ++ a), D \cup SubjectKey, S \cup Pairs(b ++ a))
  BY <1>1, <1>3, AddMapCarries DEF IsSubject
<1> QED BY <1>1, <1>2, <1>4

(***************************************************************************)
(* What track() makes of an event                                          *)
(***************************************************************************)
\* The payload of event e at each step, from what its call has read.
Begun(b, e, base64)      == add_map(get_payload(b.data, << e >>, Time(b.at), base64),
                                    StandardPairs)
WithShared(b, e, base64) == add_map(Begun(b, e, base64), b.shared)
WithOwn(b, e, base64)    == add_map(WithShared(b, e, base64), b.own)
Row(b, e, base64, contexts) ==
  IF contexts = << >> THEN WithOwn(b, e, base64)
  ELSE add_json(WithOwn(b, e, base64), SelfDescribingJson(Schema.contexts, Array(contexts)),
                base64, Key.cx, Key.co)

\* The call's record has the types of a program's data.
IsBegun(b) == IsEvent(b.data) /\ b.at \in Nat /\ IsSubject(b.shared) /\ IsSubject(b.own)

RowKey == 256..LastKey \ {Key.stm}
ReadPairs(b) == {<<k, b.own[k]>> : k \in DOMAIN b.own}
                \cup {<<k, b.shared[k]>> : k \in DOMAIN b.shared \ DOMAIN b.own}
ContextsPair(contexts) ==
  IF contexts = << >> THEN {}
  ELSE {<<Key.co, SelfDescribingJson(Schema.contexts, Array(contexts))>>}
RowPairs(b, e, contexts) ==
  (((({<<Key.dtm, Time(b.at)>>, <<Key.eid, << e >> >>} \cup KindPairs(b.data))
     \cup {<<Key.ttm, v>> : v \in b.data.true_timestamp})
    \cup Pairs(StandardPairs))
   \cup ReadPairs(b))
  \cup ContextsPair(contexts)

LEMMA RowCarries ==
  ASSUME NEW b, IsBegun(b), NEW e \in 0..127, NEW base64, NEW contexts \in Seq(Text)
  PROVE  Carries(Row(b, e, base64, contexts), RowKey, RowPairs(b, e, contexts))
<1> DEFINE D1 == ({Key.dtm, Key.eid} \cup EventKey) \cup {Key.ttm}
           D2 == D1 \cup StandardKey
           D3 == D2 \cup SubjectKey
           S1 == ({<<Key.dtm, Time(b.at)>>, <<Key.eid, << e >> >>} \cup KindPairs(b.data))
                 \cup {<<Key.ttm, v>> : v \in b.data.true_timestamp}
           S2 == S1 \cup Pairs(StandardPairs)
           S3 == S2 \cup ReadPairs(b)
           p1 == get_payload(b.data, << e >>, Time(b.at), base64)
           p2 == Begun(b, e, base64)
           p3 == WithOwn(b, e, base64)
           json == SelfDescribingJson(Schema.contexts, Array(contexts))
<1>1. Time(b.at) \in Text
  BY NumberText DEF Time, IsBegun
<1>2. Carries(p1, D1, S1)
  BY <1>1, PayloadCarries DEF IsBegun
<1>3. D1 \cap StandardKey = {} /\ Key.cx \notin StandardKey /\ Key.ue_px \notin StandardKey
  BY KeyNumbers DEF EventKey, StandardKey
<1>4. D2 \cap SubjectKey = {} /\ D3 \subseteq RowKey
  BY KeyNumbers DEF EventKey, StandardKey, SubjectKey, RowKey, LastKey
<1>5. Key.cx \notin D3 /\ Key.co \notin D3 /\ Key.cx \in RowKey /\ Key.co \in RowKey
  BY KeyNumbers DEF EventKey, StandardKey, SubjectKey, RowKey, LastKey
<1>6. /\ p2 = add_map(p1, StandardPairs)
      /\ p3 = add_map(add_map(p2, b.shared), b.own)
  BY DEF Begun, WithShared, WithOwn
<1> HIDE DEF D1, S1, p1
<1>7. Carries(p2, D2, S2)
  BY <1>2, <1>3, <1>6, StandardMap, AddMapCarries
<1> HIDE DEF D2, S2, p2
<1>8. Carries(p3, D3, S3)
  BY <1>4, <1>6, <1>7, SubjectsCarried DEF IsBegun, ReadPairs
<1> HIDE DEF D3, S3, p3
<1>9. CASE contexts = << >>
  <2>1. Row(b, e, base64, contexts) = p3 /\ RowPairs(b, e, contexts) = S3 \cup {}
    BY <1>9 DEF Row, RowPairs, ContextsPair, p3, S3, S2, S1
  <2>2. S3 \cup {} = S3
    OBVIOUS
  <2> QED BY <1>4, <1>8, <2>1, <2>2, CarriesMore
<1>10. CASE contexts # << >>
  <2>1. json \in Text \ {<< >>}
    BY ArrayText, JsonText DEF Schema, Byte
  <2>2. /\ Row(b, e, base64, contexts) = add_json(p3, json, base64, Key.cx, Key.co)
        /\ RowPairs(b, e, contexts) = S3 \cup {<<Key.co, json>>}
    BY <1>10 DEF Row, RowPairs, ContextsPair, p3, S3, S2, S1
  <2> HIDE DEF json
  <2>3. Carries(add_json(p3, json, base64, Key.cx, Key.co), D3 \cup {Key.cx, Key.co},
                S3 \cup {<<Key.co, json>>})
    BY <1>5, <1>8, <2>1, AddJsonCarries
  <2>4. D3 \cup {Key.cx, Key.co} \subseteq RowKey
    BY <1>4, <1>5
  <2> QED BY <2>2, <2>3, <2>4, CarriesMore
<1> QED BY <1>9, <1>10

(***************************************************************************)
(* What is sent of a row                                                   *)
(***************************************************************************)
\* A stored payload is read back as it was, and sent with the time.
LEMMA RowRead ==
  ASSUME NEW row, NEW S, Carries(row, RowKey, S)
  PROVE  deserialize_json_str(row) = row
<1>1. {l \in DOMAIN row : row[l] # << >>} = DOMAIN row /\ row = [k \in DOMAIN row |-> row[k]]
  BY DEF Carries, IsMap
<1>2. row ++ NoPairs = row
  BY <1>1 DEF ++, NoPairs
<1> QED BY <1>1, <1>2 DEF deserialize_json_str, add_map

Sent(row, time) == add(row, Key.stm, time)

LEMMA RowSent ==
  ASSUME NEW row, NEW S, Carries(row, RowKey, S), NEW time \in Text \ {<< >>}
  PROVE  /\ IsQuery(Sent(row, time)) /\ Sent(row, time)[Key.stm] = time
         /\ {Plain(k, Sent(row, time)[k]) : k \in DOMAIN Sent(row, time) \ {Key.stm}} = Filled(S)
<1> DEFINE f == Pair(Key.stm, time)
           q == f ++ row
<1>1. DOMAIN f = {Key.stm} /\ f[Key.stm] = time
  BY Single
<1>2. Sent(row, time) = q
  BY DEF Sent, add
<1> HIDE DEF f
<1>3. q = [k \in DOMAIN q |-> q[k]]
  BY JoinedIsFunction
<1>4. Key.stm \notin DOMAIN row /\ DOMAIN row \subseteq 256..LastKey /\ Key.stm \in 256..LastKey
  BY KeyNumbers DEF RowKey, Carries, IsMap, LastKey
<1>5. DOMAIN q = {Key.stm} \cup DOMAIN row /\ q[Key.stm] = time
  <2>1. DOMAIN q = DOMAIN f \cup DOMAIN row /\ \A k \in DOMAIN f : q[k] = f[k]
    BY Joined
  <2> QED BY <1>1, <2>1
<1>6. \A k \in DOMAIN row : q[k] = row[k]
  <2>1. DOMAIN f \cap DOMAIN row = {}
    BY <1>1, <1>4
  <2> QED BY <2>1, Joined
<1> HIDE DEF q
<1>7. IsQuery(q)
  <2>1. \A k \in DOMAIN q : q[k] \in Seq(Byte)
    BY <1>5, <1>6 DEF Carries, IsMap, Text
  <2> QED BY <1>3, <1>4, <1>5, <2>1 DEF IsQuery
<1>8. {Plain(k, q[k]) : k \in DOMAIN q \ {Key.stm}} = Filled(S)
  <2>1. DOMAIN q \ {Key.stm} = DOMAIN row
    BY <1>4, <1>5
  <2> QED BY <1>6, <2>1 DEF Carries
<1> QED BY <1>2, <1>5, <1>7, <1>8

(***************************************************************************)
(* The invariant of the payloads                                           *)
(***************************************************************************)
\* Until it is stored an event has the payload that follows from what its call
\* has read.
PayloadAt(at, b, e, p, base64) ==
  /\ at \in {"subject", "use_subject"} => p = Begun(b, e, base64) /\ b.shared = NoPairs
  /\ at = "event_subject" => p = WithShared(b, e, base64)
  /\ at \in {"session", "desktop", "add"} => p = WithOwn(b, e, base64)

PayloadInv ==
  /\ \A s \in DOMAIN subjects : IsSubject(subjects[s])
  /\ \A e \in DOMAIN begun : IsSubject(begun[e].shared) /\ IsSubject(begun[e].own)
  /\ \A t \in Thread : PayloadAt(step[t], begun[call[t].event], call[t].event,
                               call[t].payload, tracker.use_base64)

\* The contexts of event e, whose session's are sessions.
ContextsOf(b, sessions, desktop_context) ==
  b.data.context \o sessions \o IF desktop_context THEN << DesktopJson >> ELSE << >>
OfSession(e, sessions, client_session, contexts) ==
  IF client_session THEN \E c \in contexts : c.event = e /\ sessions = << SessionJson(c) >>
  ELSE sessions = << >>

\* The rows of the store are those of the events that have returned.
RowInv ==
  /\ \A c, d \in tracked : c.event = d.event => c = d
  /\ \A i \in DOMAIN log : \E e \in Returned \ Unstored : \E sessions :
       /\ OfSession(e, sessions, tracker.client_session, tracked)
       /\ log[i] = Row(begun[e], e, tracker.use_base64,
                       ContextsOf(begun[e], sessions, tracker.desktop_context))

KeepsTracker ==
  /\ tracker'.use_base64 = tracker.use_base64
  /\ tracker'.desktop_context = tracker.desktop_context
  /\ tracker'.client_session = tracker.client_session

LEMMA TrackerKept ==
  ASSUME TrackingTyped, [TrackingStep]_<<vars, trackingVars>>
  PROVE  KeepsTracker
<1>1. CASE UNCHANGED tracker
  BY <1>1 DEF KeepsTracker
<1>2. CASE ChangeSubject
  <2>1. PICK S : tracker' = [tracker EXCEPT !.subject = S]
    BY <1>2 DEF ChangeSubject, SetSubject
  <2> QED BY <2>1 DEF KeepsTracker, TrackingTyped
<1> QED BY <1>1, <1>2
        DEF TrackingStep, ChangeSubject, Track, TrackThrows, TestSubject, AddSubject,
            AddEventSubject, GetSessionContext, TestDesktopContext, MakeDesktopContext,
            AddEvent, AddEventFails, AddEventThrows, BeginSession, SetAttribute, SetClock,
            trackingVars

\* A Subject that is taken, or none.
LEMMA SubjectTaken ==
  ASSUME TrackingTyped, PayloadInv, NEW T \in SUBSET DOMAIN Subjects
  PROVE  IsSubject(IF T = {} THEN NoPairs ELSE subjects[CHOOSE s \in T : TRUE])
<1>1. CASE T = {}
  <2>1. IsSubject(NoPairs)
    BY NothingCarried DEF Carries, IsSubject, IsMap
  <2> QED BY <1>1, <2>1
<1>2. CASE T # {}
  <2>1. (CHOOSE s \in T : TRUE) \in DOMAIN subjects
    BY <1>2 DEF TrackingTyped
  <2> QED BY <1>2, <2>1 DEF PayloadInv
<1> QED BY <1>1, <1>2

\* The payloads of the other calls, as long as nobody changes what they have read.
LEMMA PayloadKept ==
  ASSUME PayloadInv, KeepsTracker, NEW u \in Thread, call'[u] = call[u],
         begun'[call[u].event] = begun[call[u].event],
         \/ step'[u] = step[u]
         \/ {step[u], step'[u]} \subseteq {"session", "desktop", "add"}
         \/ step'[u] = "idle"
  PROVE  PayloadAt(step'[u], begun'[call'[u].event], call'[u].event, call'[u].payload,
                   tracker'.use_base64)
BY DEF PayloadInv, PayloadAt, KeepsTracker

LEMMA PayloadTrack ==
  ASSUME TypeOK, TrackingTyped, CallInv, PayloadInv, KeepsTracker,
         NEW t \in Thread, NEW e \in Event, NEW ev \in EventData, Track(t, e, ev)
  PROVE  PayloadInv'
<1> DEFINE b == [data |-> ev, at |-> now, shared |-> NoPairs, own |-> NoPairs,
                 after |-> Returned]
           p == add_map(get_payload(ev, << e >>, Time(now), tracker.use_base64), StandardPairs)
           f == Pair(e, b)
<1>1. /\ e \notin DOMAIN begun /\ step'[t] = "subject" /\ step[t] = "idle"
      /\ \A u \in Thread \ {t} : call'[u] = call[u] /\ step'[u] = step[u]
      /\ DOMAIN begun' = DOMAIN begun \cup {e}
  BY TrackEffect
<1>2. /\ call'[t] = [event |-> e, payload |-> p]
      /\ subjects' = subjects
  BY DEF Track, TrackingTyped
<1>3. begun' = f ++ begun
  BY DEF Track
<1>4. DOMAIN f = {e} /\ f[e] = b
  BY Single
<1>5. b.data = ev /\ b.at = now /\ b.shared = NoPairs /\ b.own = NoPairs
  OBVIOUS
<1>6. p = Begun(b, e, tracker.use_base64)
  BY <1>5 DEF Begun
<1>7. call'[t].event = e /\ call'[t].payload = p
  BY <1>2
<1> HIDE DEF f, b, p
<1>8. begun'[e] = b /\ \A d \in DOMAIN begun : begun'[d] = begun[d]
  <2> DEFINE g == f ++ begun
  <2>1. \A k \in DOMAIN f : g[k] = f[k]
    BY Joined
  <2>2. DOMAIN f \cap DOMAIN begun = {}
    BY <1>1, <1>4
  <2>3. \A k \in DOMAIN begun : g[k] = begun[k]
    BY <2>2, Joined
  <2>4. begun' = g
    BY <1>3
  <2> HIDE DEF g
  <2> QED BY <1>4, <2>1, <2>3, <2>4
<1>9. IsSubject(NoPairs)
  BY NothingCarried DEF Carries, IsSubject, IsMap
<1>10. \A d \in DOMAIN begun' : IsSubject(begun'[d].shared) /\ IsSubject(begun'[d].own)
  BY <1>1, <1>5, <1>8, <1>9 DEF PayloadInv
<1>11. ASSUME NEW u \in Thread
       PROVE  PayloadAt(step'[u], begun'[call'[u].event], call'[u].event, call'[u].payload,
                        tracker'.use_base64)
  <2>1. CASE u = t
    BY <1>1, <1>5, <1>6, <1>7, <1>8, <2>1 DEF KeepsTracker, PayloadAt
  <2>2. CASE u # t /\ call[u].event # NoEvent
    <3>1. begun'[call[u].event] = begun[call[u].event]
      BY <1>8, <2>2 DEF CallInv
    <3>2. call'[u] = call[u] /\ step'[u] = step[u]
      BY <1>1, <2>2
    <3> QED BY <3>1, <3>2, PayloadKept
  <2>3. CASE u # t /\ call[u].event = NoEvent
    <3>1. step'[u] = "idle"
      BY <1>1, <2>3 DEF CallInv
    <3> QED BY <3>1 DEF PayloadAt
  <2> QED BY <2>1, <2>2, <2>3
<1> QED BY <1>2, <1>10, <1>11 DEF PayloadInv

LEMMA PayloadSubject ==
  ASSUME TypeOK, TrackingTyped, CallInv, PayloadInv, KeepsTracker,
         NEW t \in Thread, AddSubject(t) \/ AddEventSubject(t)
  PROVE  PayloadInv'
<1> DEFINE e == call[t].event
           base64 == tracker.use_base64
<1>1. /\ e \in DOMAIN begun /\ e # NoEvent
      /\ step[t] \in {"use_subject", "event_subject"} /\ subjects' = subjects
      /\ \A u \in Thread \ {t} : step'[u] = step[u]
  <2>1. step[t] \in {"use_subject", "event_subject"} /\ subjects' = subjects
    BY DEF AddSubject, AddEventSubject
  <2> QED BY <2>1, SubjectEffect DEF CallInv
<1>2. PICK P : call \in [Thread -> [event : Event \cup {NoEvent}, payload : P]]
  BY DEF TrackingTyped
<1>3. PICK S : begun \in [DOMAIN begun -> [data : EventData, at : Nat, shared : S, own : S,
                                           after : SUBSET Event]]
  BY DEF TrackingTyped
<1>4. /\ \A u \in Thread \ {t} : call'[u] = call[u]
      /\ \A d \in DOMAIN begun \ {e} : begun'[d] = begun[d]
      /\ call'[t].event = e /\ DOMAIN begun' = DOMAIN begun
      /\ begun'[e].data = begun[e].data /\ begun'[e].at = begun[e].at
      /\ IsSubject(begun'[e].shared) /\ IsSubject(begun'[e].own)
      /\ step'[t] = "event_subject" =>
           call'[t].payload = WithShared(begun'[e], e, base64)
      /\ step'[t] = "session" => call'[t].payload = WithOwn(begun'[e], e, base64)
      /\ step'[t] \in {"event_subject", "session"}
  <2>1. CASE AddSubject(t)
    <3> DEFINE shared == subjects[CHOOSE s \in tracker.subject : TRUE]
    <3>1. IsSubject(shared)
      BY <2>1, SubjectTaken DEF TrackingTyped, AddSubject
    <3>2. /\ call' = [call EXCEPT ![t].payload = add_map(@, shared)]
          /\ begun' = [begun EXCEPT ![e].shared = shared]
          /\ step[t] = "use_subject" /\ step' = [step EXCEPT ![t] = "event_subject"]
      BY <2>1 DEF AddSubject
    <3> HIDE DEF shared
    <3>3. call[t].payload = Begun(begun[e], e, base64)
      BY <3>2 DEF PayloadInv, PayloadAt
    <3> HIDE DEF e
    <3>4. /\ \A u \in Thread \ {t} : call'[u] = call[u]
          /\ call'[t].event = e /\ call'[t].payload = add_map(call[t].payload, shared)
      BY <1>2, <3>2 DEF e
    <3>5. /\ DOMAIN begun' = DOMAIN begun /\ \A d \in DOMAIN begun \ {e} : begun'[d] = begun[d]
          /\ begun'[e].data = begun[e].data /\ begun'[e].at = begun[e].at
          /\ begun'[e].shared = shared /\ begun'[e].own = begun[e].own
      BY <1>1, <1>3, <3>2
    <3>6. IsSubject(begun[e].own)
      BY <1>1 DEF PayloadInv, e
    <3>7. WithShared(begun'[e], e, base64) = add_map(Begun(begun[e], e, base64), shared)
      BY <3>5 DEF WithShared, Begun
    <3>8. step'[t] = "event_subject"
      BY <3>2 DEF TrackingTyped
    <3> QED BY <3>1, <3>3, <3>4, <3>5, <3>6, <3>7, <3>8
  <2>2. CASE AddEventSubject(t)
    <3> DEFINE T == begun[e].data.subject
               own == IF T = {} THEN NoPairs ELSE subjects[CHOOSE s \in T : TRUE]
    <3>1. IsSubject(own)
      <4>1. begun[e].data \in EventData
        BY <1>1, <1>3
      <4>2. T \subseteq DOMAIN Subjects
        BY <4>1, TrackingAssumption DEF TrackingAssumption
      <4> QED BY <4>2, SubjectTaken
    <3>2. /\ call' = [call EXCEPT ![t].payload = add_map(@, own)]
          /\ begun' = [begun EXCEPT ![e].own = own]
          /\ step[t] = "event_subject" /\ step' = [step EXCEPT ![t] = "session"]
      BY <2>2 DEF AddEventSubject, WithEventSubject
    <3> HIDE DEF own, T
    <3>3. call[t].payload = WithShared(begun[e], e, base64)
      BY <3>2 DEF PayloadInv, PayloadAt
    <3> HIDE DEF e
    <3>4. /\ \A u \in Thread \ {t} : call'[u] = call[u]
          /\ call'[t].event = e /\ call'[t].payload = add_map(call[t].payload, own)
      BY <1>2, <3>2 DEF e
    <3>5. /\ DOMAIN begun' = DOMAIN begun /\ \A d \in DOMAIN begun \ {e} : begun'[d] = begun[d]
          /\ begun'[e].data = begun[e].data /\ begun'[e].at = begun[e].at
          /\ begun'[e].shared = begun[e].shared /\ begun'[e].own = own
      BY <1>1, <1>3, <3>2
    <3>6. IsSubject(begun[e].shared)
      BY <1>1 DEF PayloadInv, e
    <3>7. WithOwn(begun'[e], e, base64) = add_map(WithShared(begun[e], e, base64), own)
      BY <3>5 DEF WithOwn, WithShared, Begun
    <3>8. step'[t] = "session"
      BY <3>2 DEF TrackingTyped
    <3> QED BY <3>1, <3>3, <3>4, <3>5, <3>6, <3>7, <3>8
  <2> QED BY <2>1, <2>2
<1>5. \A d \in DOMAIN begun' : IsSubject(begun'[d].shared) /\ IsSubject(begun'[d].own)
  BY <1>1, <1>4 DEF PayloadInv
<1>6. ASSUME NEW u \in Thread
      PROVE  PayloadAt(step'[u], begun'[call'[u].event], call'[u].event, call'[u].payload,
                       tracker'.use_base64)
  <2>1. CASE u = t
    BY <1>4, <2>1 DEF KeepsTracker, PayloadAt
  <2>2. CASE u # t /\ call[u].event # NoEvent
    <3>1. call[u].event \in DOMAIN begun \ {e}
      BY <1>1, <2>2 DEF CallInv
    <3>2. call'[u] = call[u] /\ step'[u] = step[u]
      BY <1>1, <1>4, <2>2
    <3>3. begun'[call[u].event] = begun[call[u].event]
      BY <1>4, <3>1
    <3> QED BY <3>2, <3>3, PayloadKept
  <2>3. CASE u # t /\ call[u].event = NoEvent
    <3>1. step'[u] = "idle"
      BY <1>1, <2>3 DEF CallInv
    <3> QED BY <3>1 DEF PayloadAt
  <2> QED BY <2>1, <2>2, <2>3
<1> QED BY <1>1, <1>5, <1>6 DEF PayloadInv

\* A payload that nothing is added to stays as it is.
LEMMA NothingAdded ==
  ASSUME NEW p, NEW m
  PROVE  add_map(add_map(p, m), NoPairs) = add_map(p, m)
<1> DEFINE f == [k \in {l \in DOMAIN m : m[l] # << >>} |-> m[k]] ++ p
           g == [k \in {l \in DOMAIN NoPairs : NoPairs[l] # << >>} |-> NoPairs[k]]
<1>1. add_map(p, m) = f /\ add_map(f, NoPairs) = g ++ f
  BY DEF add_map
<1>2. f = [k \in DOMAIN f |-> f[k]]
  BY JoinedIsFunction
<1>3. DOMAIN g = {}
  BY DEF NoPairs
<1> HIDE DEF f, g
<1>4. g ++ f = [k \in DOMAIN f |-> f[k]]
  BY <1>3 DEF ++
<1> QED BY <1>1, <1>2, <1>4

\* The call sees no Subject, or that there is one.
LEMMA PayloadTest ==
  ASSUME TrackingTyped, PayloadInv, KeepsTracker, NEW t \in Thread, TestSubject(t)
  PROVE  PayloadInv'
<1> DEFINE e == call[t].event
           b == begun[e]
           base64 == tracker.use_base64
<1>1. /\ UNCHANGED <<subjects, call, begun, tracker>>
      /\ step[t] = "subject" /\ step'[t] \in {"use_subject", "event_subject"}
      /\ \A u \in Thread \ {t} : step'[u] = step[u]
  BY DEF TestSubject, TrackingTyped
<1>2. call[t].payload = Begun(b, e, base64) /\ b.shared = NoPairs
  BY <1>1 DEF PayloadInv, PayloadAt
<1> HIDE DEF b
<1>3. WithShared(b, e, base64) = Begun(b, e, base64)
  BY <1>2, NothingAdded DEF WithShared, Begun
<1>4. PayloadAt(step'[t], b, e, call[t].payload, base64)
  BY <1>1, <1>2, <1>3 DEF PayloadAt
<1>5. \A u \in Thread : PayloadAt(step'[u], begun[call[u].event], call[u].event,
                                call[u].payload, base64)
  BY <1>1, <1>4 DEF PayloadInv, b
<1> QED BY <1>1, <1>5 DEF PayloadInv

LEMMA AttributeSet ==
  ASSUME NEW m, IsSubject(m), NEW k \in SubjectKey, NEW v \in Text
  PROVE  IsSubject(add(m, k, v))
<1>1. CASE v = << >>
  BY <1>1 DEF add
<1>2. CASE v # << >>
  <2>1. IsSubject(Pair(k, v))
    <3>1. IsMap(Pair(k, v), {k}) /\ DOMAIN Pair(k, v) = {k} /\ Pair(k, v)[k] = v
      BY PairMap, Single
    <3> QED BY <1>2, <3>1 DEF IsSubject, IsMap
  <2> QED BY <1>2, <2>1, SubjectOver DEF add
<1> QED BY <1>1, <1>2

LEMMA PayloadOther ==
  ASSUME TypeOK, TrackingTyped, CallInv, PayloadInv, KeepsTracker,
         \/ \E t \in Thread : \/ GetSessionContext(t)
                              \/ TestDesktopContext(t) \/ MakeDesktopContext(t)
                              \/ BeginSession(t)
                              \/ AddEvent(t) \/ AddUnstored(t)
         \/ \E e \in Event, t \in Thread, ev \in EventData : TrackThrows(t, e, ev)
         \/ \E s \in DOMAIN Subjects, k \in Attribute, v \in Value : SetAttribute(s, k, v)
         \/ ChangeSubject
         \/ \E time \in 0..MaxTime : SetClock(time)
         \/ UNCHANGED <<vars, trackingVars>>
  PROVE  PayloadInv'
<1>1. begun' = begun
  BY DEF GetSessionContext, TestSubject, TestDesktopContext, MakeDesktopContext,
         BeginSession, AddEvent,
         AddUnstored, AddEventFails, AddEventThrows, TrackThrows, SetAttribute,
         ChangeSubject, SetSubject, SetClock, trackingVars, store_vars
<1>2. \A s \in DOMAIN subjects' : IsSubject(subjects'[s])
  <2>1. CASE UNCHANGED subjects
    BY <2>1 DEF PayloadInv
  <2>2. ASSUME NEW s \in DOMAIN Subjects, NEW k \in Attribute, NEW v \in Value,
               SetAttribute(s, k, v)
        PROVE  \A d \in DOMAIN subjects' : IsSubject(subjects'[d])
    <3>1. subjects' = [subjects EXCEPT ![s] = add(subjects[s], k, v)]
      BY <2>2 DEF SetAttribute
    <3>2. k \in SubjectKey /\ v \in Text /\ IsSubject(subjects[s])
      BY TrackingAssumption DEF TrackingAssumption, PayloadInv, TrackingTyped
    <3>3. IsSubject(add(subjects[s], k, v))
      BY <3>2, AttributeSet
    <3> QED BY <3>1, <3>3 DEF PayloadInv
  <2> QED BY <2>1, <2>2 DEF GetSessionContext, TestSubject, TestDesktopContext,
                            MakeDesktopContext,
                            BeginSession, AddEvent, AddUnstored, AddEventFails, AddEventThrows, TrackThrows, SetSubject,
                            SetClock, trackingVars, store_vars, ChangeSubject
<1>3. ASSUME NEW u \in Thread
      PROVE  \/ step'[u] = "idle"
             \/ /\ call'[u] = call[u]
                /\ \/ step'[u] = step[u]
                   \/ {step[u], step'[u]} \subseteq {"session", "desktop", "add"}
  <2>1. CASE UNCHANGED <<step, call>>
    BY <2>1
  <2>2. ASSUME NEW t \in Thread, TestDesktopContext(t) \/ MakeDesktopContext(t)
        PROVE  /\ call'[u] = call[u]
               /\ \/ step'[u] = step[u]
                  \/ {step[u], step'[u]} \subseteq {"session", "desktop", "add"}
    BY <2>2 DEF TestDesktopContext, MakeDesktopContext, TrackingTyped
  <2>3. ASSUME NEW t \in Thread, AddEvent(t) \/ AddUnstored(t)
        PROVE  step'[u] = "idle" \/ (call'[u] = call[u] /\ step'[u] = step[u])
    BY <2>3, EndEffect
  <2> QED BY <2>1, <2>2, <2>3 DEF GetSessionContext, BeginSession, TrackThrows,
                                  SetAttribute, ChangeSubject, SetSubject, SetClock,
                                  trackingVars, store_vars
<1>4. ASSUME NEW u \in Thread
      PROVE  PayloadAt(step'[u], begun'[call'[u].event], call'[u].event, call'[u].payload,
                       tracker'.use_base64)
  <2>1. CASE step'[u] = "idle"
    BY <2>1 DEF PayloadAt
  <2>2. CASE step'[u] # "idle"
    BY <1>1, <1>3, <2>2, PayloadKept
  <2> QED BY <2>1, <2>2
<1> QED BY <1>1, <1>2, <1>4 DEF PayloadInv

LEMMA PayloadStep ==
  ASSUME TypeOK, TrackingTyped, CallInv, PayloadInv, [TrackingStep]_<<vars, trackingVars>>
  PROVE  PayloadInv'
<1>1. KeepsTracker
  BY TrackerKept
<1>2. CASE \E t \in Thread, e \in Event, ev \in EventData : Track(t, e, ev)
  BY <1>1, <1>2, PayloadTrack
<1>3. CASE \E t \in Thread : AddSubject(t) \/ AddEventSubject(t)
  BY <1>1, <1>3, PayloadSubject
<1>4. CASE \E t \in Thread : TestSubject(t)
  BY <1>1, <1>4, PayloadTest
<1> QED BY <1>1, <1>2, <1>3, <1>4, PayloadOther DEF TrackingStep, ChangeSubject,
                                                    AddUnstored

LEMMA PayloadInit == TrackingInit => PayloadInv
<1> SUFFICES ASSUME TrackingInit PROVE PayloadInv
  OBVIOUS
<1>1. subjects = Subjects /\ DOMAIN begun = {} /\ \A t \in Thread : step[t] = "idle"
  BY DEF TrackingInit, NoPairs
<1>2. \A s \in DOMAIN Subjects : IsSubject(Subjects[s])
  BY TrackingAssumption DEF TrackingAssumption, IsSubject, IsMap
<1> QED BY <1>1, <1>2 DEF PayloadInv, PayloadAt

LEMMA ContextsAre ==
  ASSUME NEW e, NEW sessions
  PROVE  AllContexts(begun[e].data, sessions)
           = ContextsOf(begun[e], sessions, tracker.desktop_context)
BY DEF AllContexts, ContextsOf

\* The contexts are none where track() adds none.
LEMMA NoContexts ==
  ASSUME NEW own \in Seq(Text), NEW sessions, NEW device,
         sessions = << >> \/ \E s : sessions = << s >>,
         device = << >> \/ \E s : device = << s >>
  PROVE  own \o sessions \o device = << >>
           <=> own = << >> /\ sessions = << >> /\ device = << >>
OBVIOUS

\* The row of a call is made of the payload it has and of the contexts.
LEMMA FinalIsRow ==
  ASSUME TypeOK, TrackingTyped, CallInv, PayloadInv, NEW t \in Thread, step[t] = "add"
  PROVE  LET e == call[t].event
             sessions == IF tracker.client_session THEN << SessionJson(context[t]) >> ELSE << >>
         IN  FinalPayload(t) = Row(begun[e], e, tracker.use_base64,
                                   ContextsOf(begun[e], sessions, tracker.desktop_context))
<1> DEFINE e == call[t].event
           sessions == IF tracker.client_session THEN << SessionJson(context[t]) >> ELSE << >>
           device == IF tracker.desktop_context THEN << DesktopJson >> ELSE << >>
           all == ContextsOf(begun[e], sessions, tracker.desktop_context)
<1>1. e \in DOMAIN begun /\ call[t].payload = WithOwn(begun[e], e, tracker.use_base64)
  BY DEF CallInv, PayloadInv, PayloadAt
<1>2. begun[e].data.context \in Seq(Text)
  BY <1>1, TrackingAssumption DEF TrackingTyped, TrackingAssumption, IsEvent
<1>3. all = << >> <=> begun[e].data.context = << >> /\ sessions = << >> /\ device = << >>
  <2>1. all = begun[e].data.context \o sessions \o device
    BY DEF ContextsOf
  <2>2. sessions = << >> \/ \E s : sessions = << s >>
    OBVIOUS
  <2>3. device = << >> \/ \E s : device = << s >>
    OBVIOUS
  <2> HIDE DEF all, sessions, device
  <2> QED BY <1>2, <2>1, <2>2, <2>3, NoContexts
<1>4. HasContexts(t) <=> all # << >>
  <2>1. sessions = << >> <=> ~tracker.client_session
    OBVIOUS
  <2>2. device = << >> <=> ~tracker.desktop_context
    OBVIOUS
  <2> HIDE DEF all, sessions, device
  <2> QED BY <1>3, <2>1, <2>2 DEF HasContexts
<1>5. ContextJson(t) = SelfDescribingJson(Schema.contexts, Array(all))
  BY ContextsAre DEF ContextJson
<1> HIDE DEF all
<1> QED BY <1>1, <1>4, <1>5 DEF FinalPayload, Row, all, sessions

\* Rows stay what they are while no event they are of is called again.
LEMMA RowsKept ==
  ASSUME RowInv, KeepsTracker, log' = log, tracked' = tracked,
         \A e \in Returned \ Unstored : e \in Returned' \ Unstored' /\ begun'[e] = begun[e]
  PROVE  RowInv'
<1>1. ASSUME NEW i \in DOMAIN log
      PROVE  \E e \in Returned' \ Unstored' : \E sessions :
               /\ OfSession(e, sessions, tracker'.client_session, tracked')
               /\ log[i] = Row(begun'[e], e, tracker'.use_base64,
                               ContextsOf(begun'[e], sessions, tracker'.desktop_context))
  <2>1. PICK e \in Returned \ Unstored : \E sessions :
          /\ OfSession(e, sessions, tracker.client_session, tracked)
          /\ log[i] = Row(begun[e], e, tracker.use_base64,
                          ContextsOf(begun[e], sessions, tracker.desktop_context))
    BY DEF RowInv
  <2>2. PICK sessions :
          /\ OfSession(e, sessions, tracker.client_session, tracked)
          /\ log[i] = Row(begun[e], e, tracker.use_base64,
                          ContextsOf(begun[e], sessions, tracker.desktop_context))
    BY <2>1
  <2>3. OfSession(e, sessions, tracker'.client_session, tracked')
    BY <2>2 DEF OfSession, KeepsTracker
  <2>4. e \in Returned' \ Unstored' /\ begun'[e] = begun[e]
    OBVIOUS
  <2> QED BY <2>2, <2>3, <2>4 DEF KeepsTracker
<1> QED BY <1>1 DEF RowInv

LEMMA RowAdd ==
  ASSUME TypeOK, TrackingTyped, CallInv, InSessionInv, PayloadInv, RowInv, KeepsTracker,
         NEW t \in Thread, AddEvent(t)
  PROVE  RowInv'
<1> DEFINE e == call[t].event
           sessions == IF tracker.client_session THEN << SessionJson(context[t]) >> ELSE << >>
<1>1. /\ Returned' = Returned \cup {e} /\ e \in DOMAIN begun \ Unstored /\ e \notin Returned
      /\ begun' = begun /\ step[t] = "add" /\ Unstored' = Unstored
  BY ReturnedEnd, EndEffect DEF AddEvent, Unstored
<1>2. log' = Append(log, FinalPayload(t))
  BY DEF AddEvent
<1>3. IF tracker.client_session
      THEN tracked' = tracked \cup {context[t]} /\ context[t].event = e
      ELSE tracked' = tracked
  <2>1. CASE tracker.client_session
    <3>1. Add(t)
      BY <2>1 DEF AddEvent, EndStored
    <3>2. context[t].event = e
      BY <1>1, <2>1 DEF InSessionInv
    <3> QED BY <2>1, <3>1, <3>2 DEF Add
  <2>2. CASE ~tracker.client_session
    BY <2>2 DEF AddEvent, vars, events, EndStored
  <2> QED BY <2>1, <2>2
<1>4. \A c, d \in tracked' : c.event = d.event => c = d
  <2>1. \A c \in tracked : c.event # e
    BY <1>1 DEF InSessionInv
  <2> QED BY <1>3, <2>1 DEF RowInv
<1>5. OfSession(e, sessions, tracker'.client_session, tracked')
  BY <1>3 DEF OfSession, KeepsTracker
<1>6. FinalPayload(t) = Row(begun[e], e, tracker.use_base64,
                            ContextsOf(begun[e], sessions, tracker.desktop_context))
  BY <1>1, FinalIsRow
<1> HIDE DEF e, sessions
<1>7. ASSUME NEW i \in DOMAIN log
      PROVE  \E f \in Returned' \ Unstored' : \E s :
               /\ OfSession(f, s, tracker'.client_session, tracked')
               /\ log[i] = Row(begun'[f], f, tracker'.use_base64,
                               ContextsOf(begun'[f], s, tracker'.desktop_context))
  <2>1. PICK f \in Returned \ Unstored : \E s :
          /\ OfSession(f, s, tracker.client_session, tracked)
          /\ log[i] = Row(begun[f], f, tracker.use_base64,
                          ContextsOf(begun[f], s, tracker.desktop_context))
    BY DEF RowInv
  <2>2. PICK s :
          /\ OfSession(f, s, tracker.client_session, tracked)
          /\ log[i] = Row(begun[f], f, tracker.use_base64,
                          ContextsOf(begun[f], s, tracker.desktop_context))
    BY <2>1
  <2>3. OfSession(f, s, tracker'.client_session, tracked')
    BY <1>3, <2>2 DEF OfSession, KeepsTracker
  <2> QED BY <1>1, <2>2, <2>3 DEF KeepsTracker
<1>8. PICK P : log \in Seq(P)
  BY DEF TrackingTyped
<1>9. \A i \in DOMAIN log' : log'[i] = FinalPayload(t) \/ (i \in DOMAIN log /\ log'[i] = log[i])
  <2>1. DOMAIN log' = 1..Len(log) + 1 /\ DOMAIN log = 1..Len(log) /\ Len(log) \in Nat
    BY <1>2, <1>8
  <2> QED BY <1>2, <1>8, <2>1
<1>10. ASSUME NEW i \in DOMAIN log'
       PROVE  \E f \in Returned' \ Unstored' : \E s :
                /\ OfSession(f, s, tracker'.client_session, tracked')
                /\ log'[i] = Row(begun'[f], f, tracker'.use_base64,
                                 ContextsOf(begun'[f], s, tracker'.desktop_context))
  <2>1. CASE i \in DOMAIN log /\ log'[i] = log[i]
    BY <1>7, <2>1
  <2>2. CASE log'[i] = FinalPayload(t)
    <3>1. e \in Returned' \ Unstored'
      BY <1>1
    <3>2. log'[i] = Row(begun'[e], e, tracker'.use_base64,
                        ContextsOf(begun'[e], sessions, tracker'.desktop_context))
      BY <1>1, <1>6, <2>2 DEF KeepsTracker
    <3> QED BY <1>5, <3>1, <3>2
  <2> QED BY <1>9, <2>1, <2>2
<1> QED BY <1>4, <1>10 DEF RowInv

LEMMA RowTrack ==
  ASSUME TypeOK, TrackingTyped, CallInv, RowInv, KeepsTracker,
         NEW t \in Thread, NEW e \in Event, NEW ev \in EventData, Track(t, e, ev)
  PROVE  RowInv'
<1>1. Returned' = Returned /\ e \notin DOMAIN begun
  BY ReturnedTrack, TrackEffect
<1>2. log' = log /\ Unstored' = Unstored /\ tracked' = tracked
  BY DEF Track, vars, events, Unstored, store_vars
<1> DEFINE f == Pair(e, [data |-> ev, at |-> now, shared |-> NoPairs, own |-> NoPairs,
                         after |-> Returned])
           g == f ++ begun
<1>3. begun' = g
  BY DEF Track
<1>4. DOMAIN f = {e}
  BY Single
<1> HIDE DEF f
<1>5. \A d \in DOMAIN begun : g[d] = begun[d]
  <2>1. DOMAIN f \cap DOMAIN begun = {}
    BY <1>1, <1>4
  <2> QED BY <2>1, Joined
<1> HIDE DEF g
<1>6. \A d \in Returned : begun'[d] = begun[d]
  BY <1>3, <1>5 DEF Returned
<1> QED BY <1>1, <1>2, <1>6, RowsKept

LEMMA RowSubject ==
  ASSUME TypeOK, TrackingTyped, CallInv, RowInv, KeepsTracker,
         NEW t \in Thread, AddSubject(t) \/ AddEventSubject(t)
  PROVE  RowInv'
<1> DEFINE e == call[t].event
<1>1. Quiet /\ UNCHANGED vars
  BY SubjectEffect
<1>2. Returned' = Returned /\ log' = log /\ Unstored' = Unstored /\ tracked' = tracked
  BY <1>1, ReturnedQuiet DEF Quiet, vars, events
<1>3. e \notin Returned
  BY DEF Returned
<1>4. \A d \in DOMAIN begun \ {e} : begun'[d] = begun[d]
  <2>1. \E x : \/ begun' = [begun EXCEPT ![e].shared = x]
               \/ begun' = [begun EXCEPT ![e].own = x]
    <3>1. CASE AddSubject(t)
      BY <3>1 DEF AddSubject
    <3>2. CASE AddEventSubject(t)
      BY <3>2 DEF AddEventSubject
    <3> QED BY <3>1, <3>2
  <2> HIDE DEF e
  <2>2. PICK x : \/ begun' = [begun EXCEPT ![e].shared = x]
                 \/ begun' = [begun EXCEPT ![e].own = x]
    BY <2>1
  <2>3. DOMAIN begun' = DOMAIN begun
    BY <1>1 DEF Quiet
  <2> QED BY <2>2, <2>3
<1>5. \A d \in Returned : begun'[d] = begun[d]
  BY <1>3, <1>4 DEF Returned
<1> QED BY <1>2, <1>5, RowsKept

LEMMA RowQuiet ==
  ASSUME RowInv, KeepsTracker, Quiet, begun' = begun, tracked' = tracked
  PROVE  RowInv'
<1>1. Returned' = Returned /\ log' = log /\ Unstored' = Unstored
  BY ReturnedQuiet DEF Quiet
<1> QED BY <1>1, RowsKept

LEMMA RowThrows ==
  ASSUME TypeOK, TrackingTyped, CallInv, RowInv, KeepsTracker,
         NEW t \in Thread, AddUnstored(t)
  PROVE  RowInv'
<1> DEFINE e == call[t].event
<1>1. /\ Returned' = Returned \cup {e} /\ e \notin Returned
      /\ log' = log /\ Unstored' = Unstored \cup {e} /\ begun' = begun
  BY ReturnedEnd DEF AddUnstored, AddEventFails, AddEventThrows, Unstored, EndUnstored,
                     store_vars
<1>2. tracked' = tracked
  BY DEF AddUnstored, AddEventFails, AddEventThrows, Discard, vars, events, EndUnstored,
         store_vars
<1> QED BY <1>1, <1>2, RowsKept

LEMMA RowStep ==
  ASSUME TypeOK, TrackingTyped, CallInv, InSessionInv, PayloadInv, RowInv,
         [TrackingStep]_<<vars, trackingVars>>
  PROVE  RowInv'
<1>0. KeepsTracker
  BY TrackerKept
<1>1. CASE \E t \in Thread, e \in Event, ev \in EventData : Track(t, e, ev)
  BY <1>0, <1>1, RowTrack
<1>2. CASE \E t \in Thread : AddSubject(t) \/ AddEventSubject(t)
  BY <1>0, <1>2, RowSubject
<1>3. CASE \E t \in Thread : AddEvent(t)
  BY <1>0, <1>3, RowAdd
<1>4. CASE \E t \in Thread : AddUnstored(t)
  BY <1>0, <1>4, RowThrows
<1>5. ASSUME NEW t \in Thread, NEW e \in Event, NEW ev \in EventData, TrackThrows(t, e, ev)
      PROVE  RowInv'
  <2>1. /\ Unstored' = Unstored \cup {e} /\ e \notin DOMAIN begun
        /\ UNCHANGED <<vars, call, begun, log>>
    BY <1>5, ThrowsEffect
  <2>2. Returned' = Returned
    BY <2>1 DEF Returned
  <2>3. \A d \in Returned \ Unstored : d \in Returned' \ Unstored' /\ begun'[d] = begun[d]
    BY <2>1, <2>2 DEF Returned
  <2>4. tracked' = tracked
    BY <2>1 DEF vars, events
  <2> QED BY <1>0, <2>1, <2>3, <2>4, RowsKept
<1>6. ASSUME \/ \E t \in Thread : \/ GetSessionContext(t) \/ TestSubject(t)
                                  \/ TestDesktopContext(t) \/ MakeDesktopContext(t)
                                  \/ BeginSession(t)
             \/ \E s \in DOMAIN Subjects, k \in Attribute, v \in Value : SetAttribute(s, k, v)
             \/ ChangeSubject
             \/ \E time \in 0..MaxTime : SetClock(time)
             \/ UNCHANGED <<vars, trackingVars>>
      PROVE  RowInv'
  <2>1. Quiet
    BY <1>6, OtherEffect
  <2>2. begun' = begun
    BY <1>6 DEF GetSessionContext, TestSubject, TestDesktopContext, MakeDesktopContext,
                BeginSession,
                SetAttribute, ChangeSubject, SetSubject, SetClock, trackingVars,
                store_vars
  <2>3. tracked' = tracked
    BY <1>6 DEF GetSessionContext, TestSubject, TestDesktopContext, MakeDesktopContext,
                BeginSession,
                SetAttribute, ChangeSubject, SetSubject, SetClock, Clock, vars, events, TrackInSession,
                TrackInNewSession, UpdateSession, SaveSession, SaveFails, StartNewSession,
                Continue, TrackUnlocked
  <2> QED BY <1>0, <2>1, <2>2, <2>3, RowQuiet
<1> QED BY <1>1, <1>2, <1>3, <1>4, <1>5, <1>6 DEF TrackingStep, ChangeSubject, AddUnstored

LEMMA RowInit == TrackingInit => RowInv
<1> SUFFICES ASSUME TrackingInit PROVE RowInv
  OBVIOUS
<1>1. log = << >> /\ tracked = {}
  BY DEF TrackingInit, Init
<1> QED BY <1>1 DEF RowInv

LEMMA SessionJsonText ==
  ASSUME NEW c \in Contexts
  PROVE  SessionJson(c) \in Text
<1>1. /\ c.session.user \in Nat /\ c.session.id \in Nat /\ c.session.index \in Nat
      /\ c.session.previous \in Nat /\ c.session.first \in Event \cup {NoEvent}
      /\ c.event_index \in Nat
  BY DEF Contexts, Session
<1>2. EventId(c.session.first) \in Text
  <2>1. CASE c.session.first = NoEvent
    BY <2>1 DEF EventId, Text
  <2>2. CASE c.session.first # NoEvent
    <3>1. c.session.first \in Byte
      <4>1. Event \subseteq 0..127
        BY TrackingAssumption DEF TrackingAssumption
      <4>2. c.session.first \in 0..127
        BY <1>1, <2>2, <4>1
      <4> QED BY <4>2 DEF Byte
    <3> QED BY <2>2, <3>1 DEF EventId, Text
  <2> QED BY <2>1, <2>2
<1> DEFINE m == << Number(c.session.user), Number(c.session.id), Number(c.session.index),
                   Number(c.session.previous), EventId(c.session.first),
                   Number(c.event_index) >>
<1>3. /\ Number(c.session.user) \in Text /\ Number(c.session.id) \in Text
      /\ Number(c.session.index) \in Text /\ Number(c.session.previous) \in Text
      /\ Number(c.event_index) \in Text
  BY <1>1, NumberText
<1>4. m \in Seq(Text)
  BY <1>2, <1>3
<1>5. Members(m) \in Text
  BY <1>4, MembersText
<1> HIDE DEF m
<1>6. SelfDescribingJson(Schema.client_session, Members(m)) \in Text
  BY <1>5, JsonText DEF Schema, Byte
<1> QED BY <1>6 DEF SessionJson, m

\* What a collector is to get of event e, but the time.
TrackedPairs(e) ==
  OwnPairs(e, begun[e].data) \cup {<<k, StandardPairs[k]>> : k \in DOMAIN StandardPairs}
  \cup SubjectPairs(e) \cup ContextPairs(e, begun[e].data)

LEMMA RowsCarry ==
  ASSUME TypeOK, TrackingTyped, InSessionInv, PayloadInv, RowInv, NEW i \in DOMAIN log
  PROVE  \E e \in Returned \ Unstored : Carries(log[i], RowKey, TrackedPairs(e))
<1>1. PICK e \in Returned \ Unstored : \E sessions :
        /\ OfSession(e, sessions, tracker.client_session, tracked)
        /\ log[i] = Row(begun[e], e, tracker.use_base64,
                        ContextsOf(begun[e], sessions, tracker.desktop_context))
  BY DEF RowInv
<1>2. PICK sessions :
        /\ OfSession(e, sessions, tracker.client_session, tracked)
        /\ log[i] = Row(begun[e], e, tracker.use_base64,
                        ContextsOf(begun[e], sessions, tracker.desktop_context))
  BY <1>1
<1> DEFINE b == begun[e]
           contexts == ContextsOf(b, sessions, tracker.desktop_context)
           of_session == IF tracker.client_session
                         THEN << SessionJson(CHOOSE c \in tracked : c.event = e) >> ELSE << >>
           of_device == IF tracker.desktop_context THEN << DesktopJson >> ELSE << >>
<1>3. e \in DOMAIN begun /\ e \in 0..127
  BY TrackingAssumption DEF Returned, TrackingTyped, TrackingAssumption
<1>4. b.data \in EventData /\ b.at \in Nat
  BY <1>3 DEF TrackingTyped
<1>5. IsBegun(b)
  BY <1>3, <1>4, TrackingAssumption DEF TrackingAssumption, IsBegun, PayloadInv
<1>6. sessions = of_session /\ sessions \in Seq(Text)
  <2>1. CASE tracker.client_session
    <3>1. PICK c \in tracked : c.event = e /\ sessions = << SessionJson(c) >>
      BY <1>2, <2>1 DEF OfSession
    <3>2. (CHOOSE d \in tracked : d.event = e) = c
      BY <3>1 DEF RowInv
    <3>3. SessionJson(c) \in Text
      BY SessionJsonText DEF TypeOK
    <3>4. of_session = << SessionJson(c) >>
      BY <2>1, <3>2
    <3>5. << SessionJson(c) >> \in Seq(Text)
      BY <3>3
    <3> QED BY <3>1, <3>4, <3>5
  <2>2. CASE ~tracker.client_session
    BY <1>2, <2>2 DEF OfSession
  <2> QED BY <2>1, <2>2
<1>7. DesktopJson \in Text
  <2>1. << 100 >> \in Text /\ Schema.desktop_context \in Byte
    BY DEF Text, Byte, Schema
  <2> QED BY <2>1, JsonText DEF DesktopJson
<1>8. of_device \in Seq(Text)
  BY <1>7
<1>9. b.data.context \in Seq(Text)
  BY <1>5 DEF IsBegun, IsEvent
<1>10. contexts = b.data.context \o of_session \o of_device
  BY <1>6 DEF ContextsOf
<1> HIDE DEF of_device
<1>11. contexts \in Seq(Text)
  <2>1. b.data.context \o of_session \in Seq(Text)
    BY <1>6, <1>9
  <2> QED BY <1>8, <1>10, <2>1
<1> HIDE DEF contexts
<1>12. Carries(Row(b, e, tracker.use_base64, contexts), RowKey, RowPairs(b, e, contexts))
  BY <1>3, <1>5, <1>11, RowCarries
<1>13. ContextsPair(contexts) = ContextPairs(e, b.data)
  BY <1>10 DEF ContextsPair, ContextPairs, of_device
<1>14. ReadPairs(b) = SubjectPairs(e)
  BY DEF ReadPairs, SubjectPairs
<1>15. OwnPairs(e, b.data) = ({<<Key.dtm, Time(b.at)>>, <<Key.eid, << e >> >>}
                              \cup KindPairs(b.data))
                             \cup {<<Key.ttm, v>> : v \in b.data.true_timestamp}
  BY DEF OwnPairs, KindPairs
<1>16. RowPairs(b, e, contexts) = TrackedPairs(e)
  BY <1>13, <1>14, <1>15 DEF RowPairs, TrackedPairs, Pairs
<1> QED BY <1>2, <1>12, <1>16 DEF contexts

\* Every request is made of rows, read back and sent with the time.
LEMMA RequestOfRows ==
  ASSUME TypeOK, TrackingTyped, InSessionInv, PayloadInv, RowInv,
         NEW time \in Text \ {<< >>}, NEW r \in Events(time)
  PROVE  \E i \in DOMAIN log : r = Sent(log[i], time)
<1>1. \A i \in DOMAIN log : deserialize_json_str(log[i]) = log[i]
  BY RowsCarry, RowRead
<1>2. CASE tracker.method = "GET"
  <2>1. PICK i \in DOMAIN log : r = Received(Request(<< log[i] >>, time))
    BY <1>2 DEF Events
  <2> DEFINE rows == << log[i] >>
             payloads == [j \in DOMAIN rows |-> deserialize_json_str(rows[j])]
  <2>2. payloads[1] = log[i]
    BY <1>1
  <2>3. Request(rows, time) = map_to_query_string(Sent(log[i], time))
    BY <1>2, <2>2 DEF Request, Sent
  <2>4. IsQuery(Sent(log[i], time))
    BY RowsCarry, RowSent
  <2> QED BY <2>1, <2>3, <2>4, QueryReceived
<1>3. CASE tracker.method # "GET"
  <2>1. PICK m \in DOMAIN log, n \in DOMAIN log : r \in ToSet(Request(SubSeq(log, m, n), time))
    BY <1>3 DEF Events
  <2> DEFINE rows == SubSeq(log, m, n)
             payloads == [j \in DOMAIN rows |-> deserialize_json_str(rows[j])]
  <2>2. PICK P : log \in Seq(P)
    BY DEF TrackingTyped
  <2>3. \A j \in DOMAIN rows : \E i \in DOMAIN log : rows[j] = log[i]
    <3>1. m \in 1..Len(log) /\ n \in 1..Len(log) /\ Len(log) \in Nat
      BY <2>2
    <3>2. CASE m > n
      BY <2>2, <3>1, <3>2
    <3>3. CASE m <= n
      <4>1. /\ DOMAIN rows = 1..n - m + 1
            /\ \A j \in 1..n - m + 1 : rows[j] = log[m + j - 1] /\ m + j - 1 \in 1..Len(log)
        BY <2>2, <3>1, <3>3
      <4> QED BY <2>2, <4>1
    <3> QED BY <3>1, <3>2, <3>3
  <2>4. Request(rows, time) = [j \in DOMAIN payloads |-> Sent(payloads[j], time)]
    BY <1>3 DEF Request, build_post_data_json, Sent
  <2> HIDE DEF rows
  <2>5. PICK j \in DOMAIN rows : r = Sent(deserialize_json_str(rows[j]), time)
    BY <2>1, <2>4 DEF ToSet, rows
  <2> QED BY <1>1, <2>3, <2>5
<1> QED BY <1>2, <1>3

LEMMA InvSent ==
  TypeOK /\ TrackingTyped /\ InSessionInv /\ PayloadInv /\ RowInv => SentAsTracked
<1> SUFFICES ASSUME TypeOK, TrackingTyped, InSessionInv, PayloadInv, RowInv,
                    NEW r \in Events(Time(now))
             PROVE  \E e \in Returned \ Unstored :
                      /\ r[Key.stm] = Time(now)
                      /\ {Plain(k, r[k]) : k \in DOMAIN r \ {Key.stm}} = Filled(TrackedPairs(e))
  BY DEF SentAsTracked, Filled, TrackedPairs, Unstored
<1>1. Time(now) \in Text \ {<< >>}
  BY NumberText DEF TypeOK, Time
<1>2. PICK i \in DOMAIN log : r = Sent(log[i], Time(now))
  BY <1>1, RequestOfRows
<1>3. PICK e \in Returned \ Unstored : Carries(log[i], RowKey, TrackedPairs(e))
  BY RowsCarry
<1> QED BY <1>1, <1>2, <1>3, RowSent

(***************************************************************************)
(* The theorems                                                            *)
(***************************************************************************)
LEMMA SplitStep ==
  ASSUME TrackingTyped, TypeOK, CallInv, SplitInv, [TrackingStep]_<<vars, trackingVars>>
  PROVE  SplitInv'
<1>1. CASE \E t \in Thread, e \in Event, ev \in EventData : TrackThrows(t, e, ev)
  BY <1>1 DEF TrackThrows, Fresh, SplitInv, TrackingTyped, store_vars
<1>2. ASSUME NEW t \in Thread, AddUnstored(t)
      PROVE  SplitInv'
  <2>1. call[t].event \in DOMAIN begun \ Unstored
    BY <1>2, ReturnedEnd
  <2> QED BY <1>2, <2>1 DEF AddUnstored, AddEventFails, AddEventThrows, SplitInv,
                            Unstored,
                            store_vars
<1>3. ASSUME UNCHANGED <<threw, lost>>
      PROVE  SplitInv'
  BY <1>3 DEF SplitInv
<1>4. CASE \E t \in Thread, e \in Event, ev \in EventData : Track(t, e, ev)
  BY <1>3, <1>4, TrackEffect DEF Track, store_vars
<1>5. ASSUME NEW t \in Thread, AddEvent(t)
      PROVE  SplitInv'
  BY <1>3, <1>5, EndEffect DEF AddEvent
<1>6. CASE \E t \in Thread : AddSubject(t) \/ AddEventSubject(t)
  BY <1>3, <1>6, SubjectEffect DEF Quiet, AddSubject, AddEventSubject, store_vars
<1>7. CASE \/ \E t \in Thread : \/ GetSessionContext(t) \/ TestSubject(t)
                                \/ TestDesktopContext(t) \/ MakeDesktopContext(t)
                                \/ BeginSession(t)
           \/ \E s \in DOMAIN Subjects, k \in Attribute, v \in Value : SetAttribute(s, k, v)
           \/ ChangeSubject
           \/ \E time \in 0..MaxTime : SetClock(time)
           \/ UNCHANGED <<vars, trackingVars>>
  <2>1. UNCHANGED <<threw, lost, begun>>
    BY <1>7 DEF GetSessionContext, TestSubject, TestDesktopContext, MakeDesktopContext,
                BeginSession, SetAttribute, ChangeSubject, SetSubject, SetClock,
                trackingVars, store_vars
  <2> QED BY <1>3, <2>1
<1> QED BY <1>1, <1>2, <1>4, <1>5, <1>6, <1>7 DEF TrackingStep, ChangeSubject, AddUnstored

TrackingInv == /\ TypeOK /\ SessionInv /\ TrackingTyped /\ CallInv
               /\ SplitInv /\ LogInv /\ InSessionInv /\ OrderInv

LEMMA InvInit == TrackingInit => TrackingInv
<1> SUFFICES ASSUME TrackingInit PROVE TrackingInv
  OBVIOUS
<1>1. Init /\ TypeOK /\ SessionInv
  BY TypeInit, SessionInit DEF TrackingInit
<1>2. TrackingTyped /\ CallInv
  BY TypedInit
<1>3. /\ log = << >> /\ DOMAIN begun = {} /\ Returned = {}
      /\ \A t \in Thread : call[t].event = NoEvent /\ step[t] = "idle"
  BY DEF TrackingInit, NoPairs, NoCall, Returned
<1>4. LogInv
  BY <1>3 DEF LogInv
<1>5. /\ tracked = {} /\ discarded = {} /\ m_is_new_session
      /\ \A t \in Thread : pc[t] = "idle" /\ context[t].event = NoEvent
  BY <1>1 DEF Init, NoContext, Context
<1>6. InSessionInv /\ OrderInv
  BY <1>3, <1>5 DEF InSessionInv, OrderInv
<1>7. SplitInv
  BY DEF TrackingInit, SplitInv
<1> QED BY <1>1, <1>2, <1>4, <1>6, <1>7 DEF TrackingInv

LEMMA InvStep == TrackingInv /\ [TrackingStep]_<<vars, trackingVars>> => TrackingInv'
<1> SUFFICES ASSUME TrackingInv, [TrackingStep]_<<vars, trackingVars>> PROVE TrackingInv'
  OBVIOUS
<1> USE DEF TrackingInv
<1>1. TypeOK' /\ TrackingTyped' /\ CallInv'
  BY TypedStep
<1>2. SessionInv'
  BY SessionNext, SessionStep
<1> QED BY <1>1, <1>2, SplitStep, LogStep, InSessionStep, OrderStep

LEMMA InvOrder == TrackingInv => CallOrderKept
<1> SUFFICES ASSUME TrackingInv PROVE CallOrderKept
  OBVIOUS
<1> USE DEF TrackingInv
<1>1. ASSUME NEW i \in DOMAIN log, NEW j \in DOMAIN log, NEW f \in DOMAIN begun,
             NEW e \in begun[f].after,
             log[i][Key.eid] = << e >>, log[j][Key.eid] = << f >>
      PROVE  i < j
  <2>1. HasEid(log[i], e) /\ HasEid(log[j], f)
    BY <1>1 DEF LogInv, HasEid
  <2> QED BY <2>1 DEF LogInv
<1> QED BY <1>1 DEF OrderInv, Before, CallOrderKept

LEMMA InvStored == TrackingInv => StoredThrewOrLogged
<1> SUFFICES ASSUME TrackingInv PROVE StoredThrewOrLogged
  OBVIOUS
<1> USE DEF TrackingInv
<1> DEFINE Stored(e) == {i \in DOMAIN log : log[i][Key.eid] = << e >>}
<1>1. ASSUME NEW e \in Returned \ Unstored PROVE Cardinality(Stored(e)) = 1
  <2>1. PICK i \in DOMAIN log : HasEid(log[i], e)
    BY DEF LogInv
  <2>2. Stored(e) = {i}
    BY <2>1 DEF LogInv, HasEid
  <2> QED BY <2>2, FS_Singleton
<1>2. ASSUME NEW e \in Unstored PROVE Stored(e) = {}
  <2> SUFFICES ASSUME NEW i \in DOMAIN log, log[i][Key.eid] = << e >> PROVE FALSE
    OBVIOUS
  <2>1. PICK f \in Returned \ Unstored : HasEid(log[i], f)
    BY DEF LogInv
  <2> QED BY <2>1 DEF HasEid
<1>3. tracker.client_session =>
        \A e \in Returned : (e \in Unstored) <=> ~\E c \in tracked : c.event = e
  BY DEF InSessionInv
<1>4. \A c \in tracked \cup discarded : c.event \in DOMAIN begun
  BY DEF InSessionInv, Returned
<1> QED BY <1>1, <1>2, <1>3, <1>4 DEF StoredThrewOrLogged, SplitInv, Unstored

\* Of two calls of track() the second of which began when the first had
\* returned, the store and the session have the first before the second,
\* whatever other threads do meanwhile.
THEOREM TrackingOrderKept == TrackingSpec => []CallOrderKept
BY InvInit, InvStep, InvOrder, StepOfNext, PTL DEF TrackingSpec

\* Every call of track() stores its event once and in its session, or throws, or
\* the store logs that it could not insert it; then nothing is stored, and the
\* session has no context of it, whatever texts its data have.
THEOREM TrackStoresThrowsOrLogs == TrackingSpec => []StoredThrewOrLogged
BY InvInit, InvStep, InvStored, StepOfNext, PTL DEF TrackingSpec

\* What holds of every state, and makes SentAsTracked inductive.
SentInv == TrackingInv /\ PayloadInv /\ RowInv

\* A request has, but for the time it is sent at, the pairs of an event that was
\* tracked, of the Subjects its call has read and of its contexts, and no other
\* event's: whatever the threads, the daemon, the clock and the program do with
\* Subjects between the call and the request.
THEOREM TrackedIsSent == TrackingSpec => []SentAsTracked
<1>1. TrackingInit => SentInv
  BY InvInit, PayloadInit, RowInit DEF SentInv
<1>2. SentInv /\ [TrackingStep]_<<vars, trackingVars>> => SentInv'
  BY InvStep, PayloadStep, RowStep DEF SentInv, TrackingInv
<1>3. SentInv => SentAsTracked
  BY InvSent DEF SentInv, TrackingInv
<1> QED BY <1>1, <1>2, <1>3, StepOfNext, PTL DEF TrackingSpec
=============================================================================
