----------------------------- MODULE NatRecursion -----------------------------
(***************************************************************************)
(* Facts about the natural numbers, recursive functions and sequences that *)
(* are joined, which the proofs of this project use.  Those of the library *)
(* take an operator as a parameter; these are about sets and functions,    *)
(* which a proof can cite for any definition.                              *)
(***************************************************************************)
EXTENDS Integers, SequencesExt, WellFoundedInduction, TLAPS

\* A set of natural numbers that has a member has a least one.  (Induction:
\* there is no least counterexample.)
LEMMA LeastNat ==
  ASSUME NEW T, T \subseteq Nat, T # {}
  PROVE  \E x \in T : \A y \in T : x <= y
<1>1. PICK x \in T : \A y \in T : ~(<<y, x>> \in OpToRel(<, Nat))
  BY NatLessThanWellFounded, WFMin, Zenon
<1>2. \A y \in T : ~(y < x)
  BY <1>1 DEF OpToRel
<1> QED BY <1>2

\* A set of natural numbers with 0, and with the successor of each member, is
\* all of them.
LEMMA InductiveSet ==
  ASSUME NEW T, 0 \in T, \A n \in Nat : n \in T => n + 1 \in T
  PROVE  Nat \subseteq T
<1> DEFINE Bad == Nat \ T
<1>1. SUFFICES ASSUME Bad # {} PROVE FALSE
  OBVIOUS
<1>2. PICK x \in Bad : \A y \in Bad : x <= y
  BY <1>1, LeastNat
<1>3. x - 1 \in Nat /\ x - 1 \in T
  BY <1>2
<1> QED BY <1>2, <1>3

\* The first values of the function that starts with a and goes on with h.
Begins(f, n, T, a, h) ==
  /\ f \in [0..n -> T]
  /\ f[0] = a
  /\ \A k \in 0..n - 1 : f[k + 1] = h[<<k + 1, f[k]>>]

LEMMA BeginsExists ==
  ASSUME NEW T, NEW a \in T, NEW h \in [Nat \X T -> T], NEW n \in Nat
  PROVE  \E f : Begins(f, n, T, a, h)
<1> DEFINE S == {m \in Nat : \E f : Begins(f, m, T, a, h)}
<1>1. 0 \in S
  <2>1. Begins([k \in 0..0 |-> a], 0, T, a, h)
    BY DEF Begins
  <2> QED BY <2>1
<1>2. ASSUME NEW m \in Nat, m \in S PROVE m + 1 \in S
  <2>1. PICK f : Begins(f, m, T, a, h)
    BY <1>2
  <2> DEFINE g == [k \in 0..m + 1 |-> IF k <= m THEN f[k] ELSE h[<<m + 1, f[m]>>]]
  <2>2. g \in [0..m + 1 -> T]
    BY <2>1 DEF Begins
  <2>3. g[0] = a
    BY <2>1 DEF Begins
  <2>4. ASSUME NEW k \in 0..m PROVE g[k + 1] = h[<<k + 1, g[k]>>]
    <3>1. g[k] = f[k] /\ k + 1 \in 0..m + 1
      OBVIOUS
    <3>2. CASE k = m
      <4>1. g[k + 1] = h[<<m + 1, f[m]>>]
        BY <3>1, <3>2
      <4> QED BY <3>1, <3>2, <4>1
    <3>3. CASE k < m
      <4>1. g[k + 1] = f[k + 1] /\ k \in 0..m - 1
        BY <3>3
      <4> QED BY <2>1, <3>1, <4>1 DEF Begins
    <3> QED BY <3>2, <3>3
  <2>5. 0..(m + 1) - 1 = 0..m
    OBVIOUS
  <2> HIDE DEF g
  <2>6. Begins(g, m + 1, T, a, h)
    BY <2>2, <2>3, <2>4, <2>5 DEF Begins
  <2> QED BY <2>6
<1> HIDE DEF S
<1>3. Nat \subseteq S
  BY <1>1, <1>2, InductiveSet
<1> QED BY <1>3 DEF S

LEMMA BeginsAgree ==
  ASSUME NEW T, NEW a, NEW h, NEW m \in Nat, NEW n \in Nat, m <= n,
         NEW f, Begins(f, m, T, a, h), NEW g, Begins(g, n, T, a, h)
  PROVE  f[m] = g[m]
<1> DEFINE S == {k \in Nat : k <= m => f[k] = g[k]}
<1>1. 0 \in S
  BY DEF Begins
<1>2. ASSUME NEW k \in Nat, k \in S PROVE k + 1 \in S
  <2>1. SUFFICES ASSUME k + 1 <= m PROVE f[k + 1] = g[k + 1]
    OBVIOUS
  <2>2. f[k] = g[k]
    BY <1>2, <2>1
  <2>3. f[k + 1] = h[<<k + 1, f[k]>>] /\ g[k + 1] = h[<<k + 1, g[k]>>]
    BY <2>1 DEF Begins
  <2> QED BY <2>2, <2>3
<1> HIDE DEF S
<1>3. Nat \subseteq S
  BY <1>1, <1>2, InductiveSet
<1> QED BY <1>3 DEF S

\* f starts with a and goes on with h.
Recursive(f, T, a, h) ==
  /\ f \in [Nat -> T]
  /\ f[0] = a
  /\ \A n \in Nat \ {0} : f[n] = h[<<n, f[n - 1]>>]

\* There is a function on the natural numbers for every start and every way to
\* go on.
LEMMA PrimitiveRecursion ==
  ASSUME NEW T, NEW a \in T, NEW h \in [Nat \X T -> T]
  PROVE  \E f : Recursive(f, T, a, h)
<1> DEFINE first == [n \in Nat |-> CHOOSE f : Begins(f, n, T, a, h)]
           f == [n \in Nat |-> first[n][n]]
<1>1. \A n \in Nat : Begins(first[n], n, T, a, h)
  BY BeginsExists
<1> HIDE DEF first
<1>2. f \in [Nat -> T] /\ f[0] = a
  BY <1>1 DEF Begins
<1>3. ASSUME NEW n \in Nat \ {0} PROVE f[n] = h[<<n, f[n - 1]>>]
  <2>1. /\ n - 1 \in Nat /\ (n - 1) + 1 = n /\ n - 1 \in 0..n - 1
    OBVIOUS
  <2>2. first[n][n] = h[<<n, first[n][n - 1]>>]
    BY <1>1, <2>1 DEF Begins
  <2>3. first[n - 1][n - 1] = first[n][n - 1]
    BY <1>1, <2>1, BeginsAgree
  <2> QED BY <2>1, <2>2, <2>3
<1> HIDE DEF f
<1>4. Recursive(f, T, a, h)
  BY <1>2, <1>3 DEF Recursive
<1> QED BY <1>4

\* Min gives the least number of a set.
LEMMA MinIs ==
  ASSUME NEW T, T \subseteq Nat, NEW x \in T, \A y \in T : x <= y
  PROVE  Min(T) = x
<1>1. \E z \in T : \A y \in T : z <= y
  OBVIOUS
<1>2. Min(T) \in T /\ \A y \in T : Min(T) <= y
  BY <1>1, Zenon DEF Min
<1>3. Min(T) \in Nat /\ x \in Nat /\ Min(T) <= x /\ x <= Min(T)
  BY <1>2
<1> HIDE DEF Min
<1> QED BY <1>3

(***************************************************************************)
(* Joined sequences                                                        *)
(***************************************************************************)
\* seqs are pieces of a sequence F, each behind the offset off gives it.
Joins(F, seqs, off) ==
  /\ \E S : seqs \in Seq(Seq(S)) /\ F \in Seq(S)
  /\ off \in [1..Len(seqs) + 1 -> Nat]
  /\ off[1] = 0 /\ off[Len(seqs) + 1] = Len(F)
  /\ \A i \in 1..Len(seqs) : off[i + 1] = off[i] + Len(seqs[i])
  /\ \A i \in 1..Len(seqs) : \A k \in 1..Len(seqs[i]) : F[off[i] + k] = seqs[i][k]

LEMMA PieceType ==
  ASSUME NEW S, NEW seqs \in Seq(Seq(S))
  PROVE  /\ Len(seqs) \in Nat
         /\ \A i \in 1..Len(seqs) : seqs[i] \in Seq(S) /\ Len(seqs[i]) \in Nat
<1>1. \A i \in 1..Len(seqs) : seqs[i] \in Seq(S)
  OBVIOUS
<1>2. ASSUME NEW s \in Seq(S) PROVE Len(s) \in Nat
  OBVIOUS
<1> QED BY <1>1, <1>2

\* The first pieces of seqs joined.
LEMMA PrefixesExist ==
  ASSUME NEW S, NEW seqs \in Seq(Seq(S))
  PROVE  \E f : /\ f \in [0..Len(seqs) -> Seq(S)]
                /\ f[0] = << >>
                /\ \A i \in 1..Len(seqs) : f[i] = f[i - 1] \o seqs[i]
<1> DEFINE T == Seq(S)
           h == [p \in Nat \X T |-> IF p[1] \in 1..Len(seqs) THEN p[2] \o seqs[p[1]]
                                    ELSE p[2]]
<1>1. ASSUME NEW i \in Nat, NEW s \in T
      PROVE  (IF i \in 1..Len(seqs) THEN s \o seqs[i] ELSE s) \in T
  BY DEF T
<1>2. /\ h \in [Nat \X T -> T]
      /\ \A i \in Nat, s \in T : h[<<i, s>>] = IF i \in 1..Len(seqs) THEN s \o seqs[i] ELSE s
  BY <1>1
<1>3. << >> \in T
  BY DEF T
<1> HIDE DEF h, T
<1>4. PICK g : Recursive(g, T, << >>, h)
  BY <1>2, <1>3, PrimitiveRecursion
<1> DEFINE f == [i \in 0..Len(seqs) |-> g[i]]
<1>5. \A i \in 1..Len(seqs) : i \in Nat \ {0} /\ i - 1 \in Nat /\ i - 1 \in 0..Len(seqs)
                              /\ i \in 0..Len(seqs)
  OBVIOUS
<1>6. f \in [0..Len(seqs) -> T] /\ f[0] = << >>
  BY <1>4 DEF Recursive
<1>7. ASSUME NEW i \in 1..Len(seqs) PROVE f[i] = f[i - 1] \o seqs[i]
  <2>1. g[i] = h[<<i, g[i - 1]>>] /\ g[i - 1] \in T
    BY <1>4, <1>5 DEF Recursive
  <2>2. g[i] = g[i - 1] \o seqs[i]
    BY <1>2, <1>5, <2>1
  <2> QED BY <1>5, <2>2
<1> HIDE DEF f
<1> QED BY <1>6, <1>7 DEF T

\* What FlattenSeq unfolds to.
LEMMA FlattenUnfolds ==
  ASSUME NEW S, NEW seqs \in Seq(Seq(S))
  PROVE  \E f : /\ f \in [0..Len(seqs) -> Seq(S)]
                /\ f[0] = << >>
                /\ \A i \in 1..Len(seqs) : f[i] = f[i - 1] \o seqs[i]
                /\ FlattenSeq(seqs) = f[Len(seqs)]
<1> DEFINE n == Len(seqs)
           Equation(f) == f = [i \in 1..n |-> IF i = 1 THEN seqs[i] ELSE f[i - 1] \o seqs[i]]
           flatten == CHOOSE f : Equation(f)
<1>0. n \in Nat
  OBVIOUS
<1>1. PICK g : /\ g \in [0..n -> Seq(S)]
               /\ g[0] = << >>
               /\ \A i \in 1..n : g[i] = g[i - 1] \o seqs[i]
  BY PrefixesExist
<1>2. CASE n = 0
  <2>1. seqs = << >>
    BY <1>2
  <2>2. FlattenSeq(seqs) = << >>
    BY <2>1, <1>2 DEF FlattenSeq
  <2> QED BY <1>1, <1>2, <2>2
<1>3. CASE n # 0
  <2>1. FlattenSeq(seqs) = flatten[n]
    BY <1>3 DEF FlattenSeq
  <2> DEFINE gg == [i \in 1..n |-> g[i]]
  <2>2. ASSUME NEW i \in 1..n
        PROVE  gg[i] = IF i = 1 THEN seqs[i] ELSE gg[i - 1] \o seqs[i]
    <3>1. CASE i = 1
      <4>1. seqs[1] \in Seq(S) /\ 1 \in 1..n /\ 1 - 1 = 0
        BY <3>1, PieceType
      <4>2. g[1] = << >> \o seqs[1]
        BY <1>1, <4>1
      <4>3. << >> \o seqs[1] = seqs[1]
        BY <4>1
      <4> QED BY <3>1, <4>1, <4>2, <4>3
    <3>2. CASE i # 1
      <4>1. i - 1 \in 1..n
        BY <1>0, <3>2
      <4> QED BY <1>1, <3>2, <4>1
    <3> QED BY <3>1, <3>2
  <2>3. Equation(gg)
    BY <2>2
  <2>4. Equation(flatten)
    BY <2>3
  <2> HIDE DEF flatten
  <2>5. \A i \in 1..n : flatten[i] = IF i = 1 THEN seqs[i] ELSE flatten[i - 1] \o seqs[i]
    BY <2>4
  <2> DEFINE P == {i \in Nat : i + 1 \in 1..n => flatten[i + 1] = g[i + 1]}
  <2>6. 0 \in P
    <3>1. 1 \in 1..n /\ 0 + 1 = 1
      BY <1>0, <1>3
    <3>2. flatten[1] = seqs[1] /\ g[1] = seqs[1]
      BY <2>2, <2>5, <3>1
    <3> QED BY <3>1, <3>2
  <2>7. ASSUME NEW i \in Nat, i \in P PROVE i + 1 \in P
    <3>1. SUFFICES ASSUME (i + 1) + 1 \in 1..n
                   PROVE  flatten[(i + 1) + 1] = g[(i + 1) + 1]
      OBVIOUS
    <3>2. /\ (i + 1) + 1 # 1 /\ ((i + 1) + 1) - 1 = i + 1 /\ i + 1 \in 1..n
      BY <1>0, <3>1
    <3>3. flatten[i + 1] = g[i + 1]
      BY <2>7, <3>2
    <3>4. /\ flatten[(i + 1) + 1] = flatten[i + 1] \o seqs[(i + 1) + 1]
          /\ g[(i + 1) + 1] = g[i + 1] \o seqs[(i + 1) + 1]
      BY <1>1, <2>5, <3>1, <3>2
    <3> QED BY <3>3, <3>4
  <2> HIDE DEF P
  <2>8. n - 1 \in P
    <3>1. n - 1 \in Nat
      BY <1>0, <1>3
    <3> QED BY <2>6, <2>7, <3>1, InductiveSet
  <2>9. flatten[n] = g[n]
    <3>1. (n - 1) + 1 = n /\ n \in 1..n
      BY <1>0, <1>3
    <3> QED BY <2>8, <3>1 DEF P
  <2> QED BY <1>1, <2>1, <2>9
<1> QED BY <1>2, <1>3

\* FlattenSeq joins the sequences.
LEMMA FlattenJoins ==
  ASSUME NEW S, NEW seqs \in Seq(Seq(S))
  PROVE  FlattenSeq(seqs) \in Seq(S) /\ \E off : Joins(FlattenSeq(seqs), seqs, off)
<1> DEFINE n == Len(seqs)
<1>0. n \in Nat
  OBVIOUS
<1>1. PICK f : /\ f \in [0..n -> Seq(S)]
               /\ f[0] = << >>
               /\ \A i \in 1..n : f[i] = f[i - 1] \o seqs[i]
               /\ FlattenSeq(seqs) = f[n]
  BY FlattenUnfolds
<1> DEFINE off == [i \in 1..n + 1 |-> Len(f[i - 1])]
<1>2. \A i \in 1..n + 1 : i - 1 \in 0..n
  BY <1>0
<1>3. off \in [1..n + 1 -> Nat] /\ \A i \in 1..n + 1 : off[i] = Len(f[i - 1])
  BY <1>1, <1>2
<1>4. off[1] = 0
  <2>1. 1 \in 1..n + 1 /\ 1 - 1 = 0
    BY <1>0
  <2> QED BY <1>1, <1>3, <2>1
<1> HIDE DEF off
<1>5. ASSUME NEW i \in 1..n
      PROVE  /\ off[i + 1] = off[i] + Len(seqs[i]) /\ seqs[i] \in Seq(S)
             /\ f[i] \in Seq(S) /\ Len(f[i]) = off[i + 1]
             /\ \A k \in 1..Len(seqs[i]) : f[i][off[i] + k] = seqs[i][k]
             /\ \A k \in 1..off[i] : f[i][k] = f[i - 1][k]
  <2>1. /\ i + 1 \in 1..n + 1 /\ (i + 1) - 1 = i /\ i \in 1..n + 1 /\ i - 1 \in 0..n
        /\ i \in 0..n
    BY <1>0
  <2>2. /\ f[i] = f[i - 1] \o seqs[i] /\ f[i - 1] \in Seq(S) /\ seqs[i] \in Seq(S)
        /\ f[i] \in Seq(S)
    BY <1>1, <2>1, PieceType
  <2>3. off[i + 1] = Len(f[i]) /\ off[i] = Len(f[i - 1])
    BY <1>3, <2>1
  <2> DEFINE a == f[i - 1]
             b == seqs[i]
  <2> HIDE DEF a, b
  <2>4. /\ a \in Seq(S) /\ b \in Seq(S)
    BY <2>2 DEF a, b
  <2>5. /\ Len(a \o b) = Len(a) + Len(b)
        /\ \A k \in 1..Len(b) : (a \o b)[Len(a) + k] = b[k]
        /\ \A k \in 1..Len(a) : (a \o b)[k] = a[k]
    BY <2>4
  <2> QED BY <2>2, <2>3, <2>5 DEF a, b
<1> DEFINE P == {m \in Nat : m <= n => \A i \in 1..m : \A k \in 1..Len(seqs[i]) :
                                          f[m][off[i] + k] = seqs[i][k]
                                          /\ off[i] + k <= off[m + 1]}
<1>6. 0 \in P
  OBVIOUS
<1>7. ASSUME NEW m \in Nat, m \in P PROVE m + 1 \in P
  <2> SUFFICES ASSUME m + 1 <= n, NEW i \in 1..m + 1, NEW k \in 1..Len(seqs[i])
               PROVE  f[m + 1][off[i] + k] = seqs[i][k] /\ off[i] + k <= off[(m + 1) + 1]
    OBVIOUS
  <2>1. m + 1 \in 1..n /\ (m + 1) - 1 = m /\ m + 1 \in 1..n + 1 /\ m <= n /\ i \in 1..n
    BY <1>0
  <2>2. /\ off[(m + 1) + 1] = off[m + 1] + Len(seqs[m + 1])
        /\ off[m + 1] \in Nat /\ off[i] \in Nat /\ Len(seqs[m + 1]) \in Nat
        /\ Len(seqs[i]) \in Nat /\ off[(m + 1) + 1] \in Nat
    <3>1. i \in 1..n + 1 /\ (m + 1) + 1 \in 1..n + 1
      BY <1>0, <2>1
    <3> QED BY <1>3, <1>5, <2>1, <3>1, PieceType
  <2>3. CASE i = m + 1
    BY <1>5, <2>1, <2>2, <2>3
  <2>4. CASE i \in 1..m
    <3>1. f[m][off[i] + k] = seqs[i][k] /\ off[i] + k <= off[m + 1]
      BY <1>7, <2>1, <2>4
    <3>2. off[i] + k \in 1..off[m + 1]
      BY <2>2, <3>1
    <3>3. f[m + 1][off[i] + k] = f[m][off[i] + k]
      BY <1>5, <2>1, <3>2
    <3>4. off[m + 1] <= off[(m + 1) + 1]
      BY <2>2
    <3>0. k \in Nat
      BY <2>2
    <3>5. off[i] + k \in Nat /\ off[(m + 1) + 1] \in Nat /\ off[m + 1] \in Nat
      BY <2>2, <3>0
    <3>6. off[i] + k <= off[(m + 1) + 1]
      BY <3>1, <3>4, <3>5
    <3> QED BY <3>1, <3>3, <3>6
  <2> QED BY <2>3, <2>4
<1> HIDE DEF P
<1>8. n \in P
  BY <1>0, <1>6, <1>7, InductiveSet
<1>9. \A i \in 1..n : \A k \in 1..Len(seqs[i]) : f[n][off[i] + k] = seqs[i][k]
  <2>1. n <= n
    BY <1>0
  <2> QED BY <1>8, <2>1 DEF P
<1>10. off[n + 1] = Len(f[n]) /\ f[n] \in Seq(S)
  <2>1. n + 1 \in 1..n + 1 /\ (n + 1) - 1 = n /\ n \in 0..n
    BY <1>0
  <2> QED BY <1>1, <1>3, <2>1
<1>11. Joins(f[n], seqs, off)
  BY <1>3, <1>4, <1>5, <1>9, <1>10 DEF Joins
<1> QED BY <1>1, <1>10, <1>11

LEMMA JoinsTypes ==
  ASSUME NEW F, NEW seqs, NEW off, Joins(F, seqs, off)
  PROVE  /\ Len(seqs) \in Nat /\ Len(F) \in Nat
         /\ \A i \in 1..Len(seqs) : Len(seqs[i]) \in Nat /\ off[i] \in Nat
                                     /\ off[i + 1] \in Nat
<1> PICK S : seqs \in Seq(Seq(S)) /\ F \in Seq(S)
  BY DEF Joins
<1>1. Len(seqs) \in Nat /\ \A i \in 1..Len(seqs) : Len(seqs[i]) \in Nat
  BY PieceType
<1>2. Len(F) \in Nat
  OBVIOUS
<1>3. \A i \in 1..Len(seqs) : i \in 1..Len(seqs) + 1 /\ i + 1 \in 1..Len(seqs) + 1
  BY <1>1
<1> QED BY <1>1, <1>2, <1>3 DEF Joins

\* The pieces come one behind the other.
LEMMA OffsetsGrow ==
  ASSUME NEW F, NEW seqs, NEW off, Joins(F, seqs, off),
         NEW i \in 1..Len(seqs) + 1, NEW j \in i..Len(seqs) + 1
  PROVE  off[i] <= off[j]
<1> DEFINE n == Len(seqs)
           P == {d \in Nat : i + d <= n + 1 => off[i] <= off[i + d]}
<1> PICK S : seqs \in Seq(Seq(S))
  BY DEF Joins
<1>0. n \in Nat /\ off \in [1..n + 1 -> Nat] /\ j - i \in Nat /\ i + (j - i) = j
  BY DEF Joins
<1>1. 0 \in P
  <2>1. i + 0 = i /\ off[i] \in Nat
    BY <1>0
  <2> QED BY <2>1
<1>2. ASSUME NEW d \in Nat, d \in P PROVE d + 1 \in P
  <2> SUFFICES ASSUME i + (d + 1) <= n + 1 PROVE off[i] <= off[i + (d + 1)]
    OBVIOUS
  <2>1. i + d \in 1..n /\ i + (d + 1) = (i + d) + 1 /\ i + d <= n + 1 /\ i + d \in 1..n + 1
        /\ (i + d) + 1 \in 1..n + 1
    BY <1>0
  <2>2. off[(i + d) + 1] = off[i + d] + Len(seqs[i + d]) /\ Len(seqs[i + d]) \in Nat
    BY <2>1 DEF Joins
  <2>3. off[i] \in Nat /\ off[i + d] \in Nat /\ off[i] <= off[i + d]
    BY <1>0, <1>2, <2>1
  <2> QED BY <2>1, <2>2, <2>3
<1> HIDE DEF P
<1>3. j - i \in P
  BY <1>0, <1>1, <1>2, InductiveSet
<1> QED BY <1>0, <1>3 DEF P

\* Every place in it is in one of the pieces.
LEMMA JoinsCovers ==
  ASSUME NEW F, NEW seqs, NEW off, Joins(F, seqs, off)
  PROVE  \A j \in 1..Len(F) :
           \E i \in 1..Len(seqs) : \E k \in 1..Len(seqs[i]) :
             j = off[i] + k /\ F[j] = seqs[i][k]
<1> TAKE j \in 1..Len(F)
<1> DEFINE n == Len(seqs)
           T == {i \in 1..n + 1 : j <= off[i]}
<1> PICK S : seqs \in Seq(Seq(S)) /\ F \in Seq(S)
  BY DEF Joins
<1>0. n \in Nat /\ off \in [1..n + 1 -> Nat] /\ off[n + 1] = Len(F) /\ Len(F) \in Nat
      /\ off[1] = 0
  BY DEF Joins
<1>1. n + 1 \in T /\ T \subseteq Nat /\ T # {}
  BY <1>0
<1>2. PICK m \in T : \A y \in T : m <= y
  BY <1>1, LeastNat
<1>3. m # 1 /\ m \in 1..n + 1 /\ j <= off[m]
  BY <1>0, <1>2
<1>4. m - 1 \in 1..n /\ (m - 1) + 1 = m /\ m - 1 \in 1..n + 1
  BY <1>0, <1>3
<1>5. ~(j <= off[m - 1])
  BY <1>2, <1>4
<1>6. off[m] = off[m - 1] + Len(seqs[m - 1]) /\ Len(seqs[m - 1]) \in Nat
      /\ off[m - 1] \in Nat
  BY <1>0, <1>4, PieceType DEF Joins
<1> DEFINE k == j - off[m - 1]
<1>7. k \in 1..Len(seqs[m - 1]) /\ j = off[m - 1] + k
  <2>0. j \in Nat
    BY <1>0
  <2>1. j \in Nat /\ off[m] \in Nat
    BY <1>0, <1>3, <2>0
  <2> QED BY <1>3, <1>5, <1>6, <2>1
<1> QED BY <1>4, <1>7 DEF Joins
===============================================================================
