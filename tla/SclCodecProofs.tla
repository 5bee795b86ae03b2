--------------------------- MODULE SclCodecProofs ---------------------------
(***************************************************************************)
(* Theorems about SclCodec, for all values, packets and lengths of queues. *)
(***************************************************************************)
EXTENDS SclCodec, SequenceTheorems, WellFoundedInduction, TLAPS

-----------------------------------------------------------------------------
(* Types and words.                                                        *)

Scalars == {"SCL_INT", "SCL_FLOAT", "SCL_LONG", "SCL_DOUB", "SCL_BOOL"}
Arrays == {"SCL_INT_A", "SCL_FLOAT_A", "SCL_LONG_A", "SCL_DOUB_A", "SCL_BOOL_A", "SCL_DATA"}

LEMMA TypeFacts ==
  /\ DOMAIN Width = Scalars /\ DOMAIN MemberWidth = Arrays
  /\ \A t \in Scalars : Width[t] \in {1, 4, 8}
  /\ \A t \in Arrays : MemberWidth[t] \in {1, 4, 8}
  /\ scl_type_complex = Arrays \cup {"SCL_STRING_A"}
  /\ scl_type = Scalars \cup {"SCL_STRING"} \cup Arrays \cup {"SCL_STRING_A"}
  <1>1. DOMAIN Width = Scalars /\ \A t \in Scalars : Width[t] \in {1, 4, 8}
    BY DEF Width, Scalars
  <1>2. DOMAIN MemberWidth = Arrays /\ \A t \in Arrays : MemberWidth[t] \in {1, 4, 8}
    BY DEF MemberWidth, Arrays
  <1> QED
    BY <1>1, <1>2 DEF scl_type_complex, scl_type

LEMMA TypesApart ==
  /\ Scalars \cap Arrays = {}
  /\ "SCL_STRING" \notin Scalars \cup Arrays
  /\ "SCL_STRING_A" \notin Scalars \cup Arrays
  /\ "SCL_STRING" # "SCL_STRING_A"
  BY DEF Scalars, Arrays

LEMMA IntMax == INT_MAX \in Nat /\ INT_MAX < 2147483648
  BY SMT DEF INT_MAX

\* A word is read as it was written.
LEMMA WordFacts ==
  ASSUME NEW n \in 0 .. INT_MAX
  PROVE  /\ Word(n) \in Seq(Byte) /\ Len(Word(n)) = 4
         /\ n = Word(n)[1] + 256 * Word(n)[2] + 65536 * Word(n)[3] + 16777216 * Word(n)[4]
  <1> DEFINE a == n \div 256
             b == a \div 256
             c == b \div 256
  <1>1. n \in Nat /\ n < 2147483648
    BY IntMax, SMT
  <1>2. n = 256 * a + (n % 256) /\ n % 256 \in 0 .. 255 /\ a \in Nat /\ a < 8388608
    BY <1>1, SMT
  <1>3. a = 256 * b + (a % 256) /\ a % 256 \in 0 .. 255 /\ b \in Nat /\ b < 32768
    BY <1>2, SMT
  <1>4. b = 256 * c + (b % 256) /\ b % 256 \in 0 .. 255 /\ c \in 0 .. 127
    BY <1>3, SMT
  <1>5. b = n \div 65536
    BY <1>1, SMT
  <1>6. c = n \div 16777216
    BY <1>1, SMT
  <1> HIDE DEF a, b, c
  <1>7. Word(n) = <<n % 256, a % 256, b % 256, c % 256>> /\ c % 256 = c
    BY <1>4, <1>5, <1>6, SMT DEF Word, a
  <1>8. n % 256 \in Byte /\ a % 256 \in Byte /\ b % 256 \in Byte /\ c \in Byte
    BY <1>2, <1>3, <1>4 DEF Byte
  <1> QED
    BY <1>1, <1>2, <1>3, <1>4, <1>7, <1>8, SMT

-----------------------------------------------------------------------------
(* FlattenSeq.                                                             *)

\* A set of natural numbers that is not empty has a least element.
LEMMA LeastOf ==
  ASSUME NEW S \in SUBSET Nat, S # {}
  PROVE  \E m \in S : \A k \in S : m <= k
  <1>1. \E m \in S : \A k \in S : <<k, m>> \notin OpToRel(<, Nat)
    BY NatLessThanWellFounded, WFMin
  <1>2. ASSUME NEW m \in S, NEW k \in S, <<k, m>> \notin OpToRel(<, Nat)
        PROVE  m <= k
    BY <1>2 DEF OpToRel
  <1> QED
    BY <1>1, <1>2

\* What the function inside FlattenSeq is, as long as it is one.
Rows(S, seqs, n) ==
    {f \in [1 .. n -> Seq(S)] :
        \A i \in 1 .. n : f[i] = IF i = 1 THEN seqs[i] ELSE f[i - 1] \o seqs[i]}

LEMMA RowsExist ==
  ASSUME NEW S, NEW seqs \in Seq(Seq(S))
  PROVE  Rows(S, seqs, Len(seqs)) # {}
  <1> DEFINE L == Len(seqs)
             Without == {n \in 0 .. L : Rows(S, seqs, n) = {}}
  <1>1. L \in Nat /\ \A i \in 1 .. L : seqs[i] \in Seq(S)
    OBVIOUS
  <1> HIDE DEF L
  <1> SUFFICES ASSUME Without # {} PROVE FALSE
    BY <1>1 DEF L
  <1>2. PICK n \in Without : \A m \in Without : n <= m
    <2>1. Without \in SUBSET Nat
      BY <1>1
    <2> HIDE DEF Without
    <2> QED
      BY <2>1, LeastOf
  <1>3. n \in 0 .. L /\ Rows(S, seqs, n) = {}
    BY <1>2
  <1>4. n # 0
    <2> DEFINE f == [i \in 1 .. 0 |-> <<>>]
    <2>1. f \in Rows(S, seqs, 0)
      BY DEF Rows
    <2> QED
      BY <1>3, <2>1
  <1>5. PICK f \in Rows(S, seqs, n - 1) : TRUE
    <2>1. n - 1 \in 0 .. L /\ ~(n <= n - 1)
      BY <1>1, <1>3, <1>4
    <2>2. n - 1 \notin Without
      <3> HIDE DEF Without
      <3> QED
        BY <1>2, <2>1
    <2> QED
      BY <2>1, <2>2
  <1>6. /\ f \in [1 .. n - 1 -> Seq(S)]
        /\ \A i \in 1 .. n - 1 : f[i] = IF i = 1 THEN seqs[i] ELSE f[i - 1] \o seqs[i]
    BY <1>5 DEF Rows
  <1> DEFINE last == IF n = 1 THEN seqs[n] ELSE f[n - 1] \o seqs[n]
             h == [i \in 1 .. n |-> IF i = n THEN last ELSE f[i]]
  <1>7. last \in Seq(S)
    BY <1>1, <1>3, <1>4, <1>6
  <1>8. h \in [1 .. n -> Seq(S)]
    <2> HIDE DEF last
    <2> QED
      BY <1>1, <1>3, <1>6, <1>7
  <1>9. ASSUME NEW i \in 1 .. n
        PROVE  h[i] = IF i = 1 THEN seqs[i] ELSE h[i - 1] \o seqs[i]
    <2>1. CASE i = n
      <3>1. i # 1 => i - 1 \in 1 .. n /\ i - 1 # n
        BY <1>1, <1>3
      <3>2. h[i] = last /\ (i # 1 => h[i - 1] = f[i - 1])
        <4> HIDE DEF last
        <4> QED
          BY <2>1, <3>1
      <3> QED
        BY <2>1, <3>2
    <2>2. CASE i # n
      <3>1. i \in 1 .. n - 1 /\ (i # 1 => i - 1 \in 1 .. n /\ i - 1 # n)
        BY <1>1, <1>3, <2>2
      <3>2. h[i] = f[i] /\ (i # 1 => h[i - 1] = f[i - 1])
        <4> HIDE DEF last
        <4> QED
          BY <2>2, <3>1
      <3> QED
        BY <1>6, <3>1, <3>2
    <2> QED
      BY <2>1, <2>2
  <1>10. h \in Rows(S, seqs, n)
    <2> HIDE DEF h
    <2> QED
      BY <1>8, <1>9 DEF Rows
  <1> QED
    BY <1>3, <1>10

\* The first k of the sequences in a row.
Row(seqs) ==
    CHOOSE f : f = [i \in 1 .. Len(seqs) |-> IF i = 1 THEN seqs[i] ELSE f[i - 1] \o seqs[i]]
Upto(seqs, k) == IF k = 0 THEN <<>> ELSE Row(seqs)[k]

LEMMA FlattenIsUpto ==
  ASSUME NEW S, NEW seqs \in Seq(Seq(S))
  PROVE  /\ Upto(seqs, 0) = <<>>
         /\ \A k \in 0 .. Len(seqs) : Upto(seqs, k) \in Seq(S)
         /\ \A k \in 1 .. Len(seqs) : Upto(seqs, k) = Upto(seqs, k - 1) \o seqs[k]
         /\ FlattenSeq(seqs) = Upto(seqs, Len(seqs))
  <1> DEFINE L == Len(seqs)
             Is(f) == f = [i \in 1 .. L |-> IF i = 1 THEN seqs[i] ELSE f[i - 1] \o seqs[i]]
  <1>1. L \in Nat /\ \A i \in 1 .. L : seqs[i] \in Seq(S)
    OBVIOUS
  <1>2. PICK g \in Rows(S, seqs, L) : TRUE
    BY RowsExist
  <1>3. /\ g \in [1 .. L -> Seq(S)]
        /\ \A i \in 1 .. L : g[i] = IF i = 1 THEN seqs[i] ELSE g[i - 1] \o seqs[i]
    BY <1>2 DEF Rows
  <1>4. Is(g)
    <2> HIDE DEF L
    <2> QED
      BY <1>3
  <1>5. ASSUME NEW f, Is(f), NEW i \in 1 .. L PROVE f[i] = g[i]
    <2> DEFINE Bad == {k \in 1 .. L : f[k] # g[k]}
    <2> SUFFICES ASSUME Bad # {} PROVE FALSE
      OBVIOUS
    <2>1. PICK k \in Bad : \A m \in Bad : k <= m
      <3>1. Bad \in SUBSET Nat
        BY <1>1
      <3> HIDE DEF Bad
      <3> QED
        BY <3>1, LeastOf
    <2>2. k = 1 \/ (k - 1 \in 1 .. L /\ k - 1 \notin Bad)
      BY <1>1, <2>1
    <2>3. f[k] = IF k = 1 THEN seqs[k] ELSE f[k - 1] \o seqs[k]
      <3>1. k \in 1 .. L
        BY <2>1
      <3> HIDE DEF L
      <3> QED
        BY <1>5, <3>1
    <2>4. f[k] = g[k]
      BY <1>3, <2>1, <2>2, <2>3
    <2> QED
      BY <2>1, <2>4
  <1>6. \A f : Is(f) => f = g
    <2> SUFFICES ASSUME NEW f, Is(f) PROVE f = g
      OBVIOUS
    <2>1. \A i \in 1 .. L : f[i] = g[i]
      BY <1>5
    <2>2. DOMAIN f = 1 .. L /\ f = [i \in 1 .. L |-> f[i]]
      <3> HIDE DEF L
      <3> QED
        OBVIOUS
    <2> HIDE DEF L
    <2> QED
      BY <1>3, <2>1, <2>2
  <1>7. Row(seqs) = g
    <2>1. Row(seqs) = CHOOSE f : Is(f)
      BY DEF Row
    <2> HIDE DEF Is
    <2> QED
      BY <1>4, <1>6, <2>1
  <1>8. \A k \in 1 .. L : Upto(seqs, k) = g[k]
    BY <1>7 DEF Upto
  <1>9. \A s \in Seq(S) : <<>> \o s = s
    OBVIOUS
  <1>10. \A k \in 1 .. L : Upto(seqs, k) = Upto(seqs, k - 1) \o seqs[k]
    <2> SUFFICES ASSUME NEW k \in 1 .. L PROVE Upto(seqs, k) = Upto(seqs, k - 1) \o seqs[k]
      OBVIOUS
    <2>1. CASE k = 1
      <3>1. Upto(seqs, k - 1) = <<>> /\ Upto(seqs, k) = seqs[k]
        <4>1. k - 1 = 0 /\ g[k] = seqs[k]
          <5>1. g[k] = IF k = 1 THEN seqs[k] ELSE g[k - 1] \o seqs[k]
            <6> HIDE DEF L
            <6> QED
              BY <1>3
          <5> QED
            BY <2>1, <5>1
        <4> QED
          BY <1>8, <4>1 DEF Upto
      <3>2. seqs[k] \in Seq(S)
        BY <1>1
      <3> QED
        BY <1>9, <3>1, <3>2, Zenon
    <2>2. CASE k # 1
      <3>1. k - 1 \in 1 .. L
        BY <1>1, <2>2
      <3> QED
        BY <1>3, <1>8, <2>2, <3>1
    <2> QED
      BY <2>1, <2>2
  <1>11. FlattenSeq(seqs) = Upto(seqs, L)
    <2>1. CASE L = 0
      <3>1. seqs = <<>>
        BY <2>1
      <3> QED
        BY <2>1, <3>1 DEF FlattenSeq, Upto
    <2>2. CASE L # 0
      BY <2>2 DEF FlattenSeq, Upto, Row
    <2> QED
      BY <2>1, <2>2
  <1>12. \A k \in 0 .. L : Upto(seqs, k) \in Seq(S)
    <2> SUFFICES ASSUME NEW k \in 0 .. L PROVE Upto(seqs, k) \in Seq(S)
      OBVIOUS
    <2>1. CASE k = 0
      BY <2>1 DEF Upto
    <2>2. CASE k # 0
      BY <1>1, <1>3, <1>8, <2>2
    <2> QED
      BY <2>1, <2>2
  <1>13. Upto(seqs, 0) = <<>>
    BY DEF Upto
  <1> QED
    BY <1>10, <1>11, <1>12, <1>13

\* Where the k-th sequence ends in the row.
EndOf(seqs, k) == Len(Upto(seqs, k))

LEMMA EndFacts ==
  ASSUME NEW S, NEW seqs \in Seq(Seq(S))
  PROVE  /\ EndOf(seqs, 0) = 0
         /\ \A k \in 0 .. Len(seqs) : EndOf(seqs, k) \in Nat
         /\ \A k \in 1 .. Len(seqs) : EndOf(seqs, k) = EndOf(seqs, k - 1) + Len(seqs[k])
         /\ \A i, j \in 0 .. Len(seqs) : i <= j => EndOf(seqs, i) <= EndOf(seqs, j)
         /\ FlattenSeq(seqs) \in Seq(S) /\ Len(FlattenSeq(seqs)) = EndOf(seqs, Len(seqs))
  <1> DEFINE L == Len(seqs)
             E(k) == EndOf(seqs, k)
  <1>1. L \in Nat /\ \A i \in 1 .. L : seqs[i] \in Seq(S)
    OBVIOUS
  <1>2. /\ Upto(seqs, 0) = <<>>
        /\ \A k \in 0 .. L : Upto(seqs, k) \in Seq(S)
        /\ \A k \in 1 .. L : Upto(seqs, k) = Upto(seqs, k - 1) \o seqs[k]
        /\ FlattenSeq(seqs) = Upto(seqs, L)
    BY FlattenIsUpto
  <1> HIDE DEF L
  <1>3. E(0) = 0 /\ \A k \in 0 .. L : E(k) \in Nat
    BY <1>2 DEF EndOf
  <1>4. \A k \in 1 .. L : E(k) = E(k - 1) + Len(seqs[k])
    <2> SUFFICES ASSUME NEW k \in 1 .. L PROVE E(k) = E(k - 1) + Len(seqs[k])
      OBVIOUS
    <2>1. k - 1 \in 0 .. L
      BY <1>1
    <2>2. Upto(seqs, k - 1) \in Seq(S) /\ seqs[k] \in Seq(S) /\ Upto(seqs, k) = Upto(seqs, k - 1) \o seqs[k]
      BY <1>1, <1>2, <2>1
    <2> QED
      BY <2>2 DEF EndOf
  <1> HIDE DEF E
  <1>5. ASSUME NEW i \in 0 .. L, NEW j \in 0 .. L, i <= j PROVE E(i) <= E(j)
    <2> DEFINE Bad == {k \in i .. L : ~(E(i) <= E(k))}
    <2> SUFFICES ASSUME Bad # {} PROVE FALSE
      BY <1>5
    <2>1. PICK k \in Bad : \A m \in Bad : k <= m
      <3>1. Bad \in SUBSET Nat
        BY <1>1
      <3> HIDE DEF Bad
      <3> QED
        BY <3>1, LeastOf
    <2>2. k # i
      BY <1>3, <2>1
    <2>3. k \in 1 .. L /\ k - 1 \in i .. L /\ k - 1 \notin Bad
      BY <1>1, <2>1, <2>2
    <2>4. Len(seqs[k]) \in Nat
      BY <1>1, <2>3
    <2> QED
      BY <1>3, <1>4, <2>1, <2>3, <2>4
  <1>6. FlattenSeq(seqs) \in Seq(S) /\ Len(FlattenSeq(seqs)) = E(L)
    BY <1>1, <1>2 DEF E, EndOf
  <1> QED
    BY <1>3, <1>4, <1>5, <1>6 DEF E, L

LEMMA ConcatPlaces ==
  ASSUME NEW S, NEW s \in Seq(S), NEW t \in Seq(S)
  PROVE  /\ s \o t \in Seq(S) /\ Len(s \o t) = Len(s) + Len(t)
         /\ \A i \in 1 .. Len(s) : (s \o t)[i] = s[i]
         /\ \A j \in 1 .. Len(t) : (s \o t)[Len(s) + j] = t[j]
  OBVIOUS

\* What stands at each place of the row, and of which sequence it is.
LEMMA FlattenPlaces ==
  ASSUME NEW S, NEW seqs \in Seq(Seq(S))
  PROVE  /\ \A k \in 1 .. Len(seqs) : \A j \in 1 .. Len(seqs[k]) :
              FlattenSeq(seqs)[EndOf(seqs, k - 1) + j] = seqs[k][j]
         /\ \A i \in 1 .. EndOf(seqs, Len(seqs)) :
              \E k \in 1 .. Len(seqs) : \E j \in 1 .. Len(seqs[k]) : i = EndOf(seqs, k - 1) + j
  <1> DEFINE L == Len(seqs)
             E(k) == EndOf(seqs, k)
             U(k) == Upto(seqs, k)
  <1>1. L \in Nat /\ \A i \in 1 .. L : seqs[i] \in Seq(S) /\ Len(seqs[i]) \in Nat
    OBVIOUS
  <1>2. /\ \A k \in 0 .. L : U(k) \in Seq(S) /\ Len(U(k)) = E(k)
        /\ \A k \in 1 .. L : U(k) = U(k - 1) \o seqs[k]
        /\ FlattenSeq(seqs) = U(L)
    BY FlattenIsUpto DEF EndOf
  <1>3. /\ E(0) = 0 /\ \A k \in 0 .. L : E(k) \in Nat
        /\ \A k \in 1 .. L : E(k) = E(k - 1) + Len(seqs[k])
        /\ \A i, j \in 0 .. L : i <= j => E(i) <= E(j)
    BY EndFacts
  <1> HIDE DEF L, E, U
  <1>4. ASSUME NEW k \in 1 .. L, NEW j \in 1 .. Len(seqs[k]), NEW m \in k .. L
        PROVE  U(m)[E(k - 1) + j] = seqs[k][j]
    <2> DEFINE Bad == {n \in k .. L : U(n)[E(k - 1) + j] # seqs[k][j]}
    <2> SUFFICES ASSUME Bad # {} PROVE FALSE
      OBVIOUS
    <2>1. PICK n \in Bad : \A o \in Bad : n <= o
      <3>1. Bad \in SUBSET Nat
        BY <1>1
      <3> HIDE DEF Bad
      <3> QED
        BY <3>1, LeastOf
    <2>2. /\ n \in k .. L /\ n \in 1 .. L /\ n - 1 \in 0 .. L /\ k - 1 \in 0 .. L
          /\ U(n)[E(k - 1) + j] # seqs[k][j]
      BY <1>1, <2>1
    <2>3. /\ U(n) = U(n - 1) \o seqs[n] /\ U(n - 1) \in Seq(S) /\ Len(U(n - 1)) = E(n - 1)
          /\ E(k - 1) \in Nat /\ E(n - 1) \in Nat /\ seqs[n] \in Seq(S) /\ Len(seqs[k]) \in Nat
      BY <1>1, <1>2, <1>3, <2>2
    <2>4. CASE n = k
      <3>1. U(n)[E(n - 1) + j] = seqs[n][j]
        <4>1. \A i \in 1 .. Len(seqs[n]) : (U(n - 1) \o seqs[n])[Len(U(n - 1)) + i] = seqs[n][i]
          BY <2>3, ConcatPlaces
        <4> QED
          BY <2>3, <2>4, <4>1
      <3> QED
        BY <2>2, <2>4, <3>1
    <2>5. CASE n # k
      <3>1. n - 1 \in k .. L /\ k \in 0 .. L /\ k <= n - 1 /\ n - 1 \notin Bad
        BY <1>1, <2>1, <2>2, <2>5
      <3>2. U(n - 1)[E(k - 1) + j] = seqs[k][j]
        BY <3>1
      <3>3. E(k - 1) + j \in 1 .. E(n - 1)
        <4>1. E(k) = E(k - 1) + Len(seqs[k]) /\ E(k) <= E(n - 1)
          BY <1>3, <2>2, <3>1
        <4> QED
          BY <2>3, <4>1
      <3>4. U(n)[E(k - 1) + j] = U(n - 1)[E(k - 1) + j]
        <4>1. \A i \in 1 .. Len(U(n - 1)) : (U(n - 1) \o seqs[n])[i] = U(n - 1)[i]
          BY <2>3, ConcatPlaces
        <4> QED
          BY <2>3, <3>3, <4>1
      <3> QED
        BY <2>2, <3>2, <3>4
    <2> QED
      BY <2>4, <2>5
  <1>5. ASSUME NEW i \in 1 .. E(L)
        PROVE  \E k \in 1 .. L : \E j \in 1 .. Len(seqs[k]) : i = E(k - 1) + j
    <2> DEFINE Ahead == {n \in 0 .. L : i <= E(n)}
    <2>1. PICK k \in Ahead : \A m \in Ahead : k <= m
      <3>1. Ahead \in SUBSET Nat /\ L \in Ahead
        BY <1>1, <1>3
      <3> HIDE DEF Ahead
      <3> QED
        BY <3>1, LeastOf
    <2>2. k \in 1 .. L /\ k - 1 \in 0 .. L /\ k - 1 \notin Ahead
      BY <1>1, <1>3, <2>1
    <2>3. E(k) = E(k - 1) + Len(seqs[k]) /\ E(k - 1) \in Nat /\ E(k) \in Nat
      BY <1>3, <2>2
    <2>4. i - E(k - 1) \in 1 .. Len(seqs[k]) /\ i = E(k - 1) + (i - E(k - 1))
      BY <1>3, <2>1, <2>2, <2>3
    <2> QED
      BY <2>2, <2>4
  <1>6. \A k \in 1 .. L : L \in k .. L
    BY <1>1
  <1> QED
    BY <1>2, <1>4, <1>5, <1>6 DEF E, L, U

LEMMA FlattenAppend ==
  ASSUME NEW S, NEW seqs \in Seq(Seq(S)), NEW x \in Seq(S)
  PROVE  FlattenSeq(Append(seqs, x)) = FlattenSeq(seqs) \o x
  <1> DEFINE L == Len(seqs)
             more == Append(seqs, x)
             U(k) == Upto(seqs, k)
             V(k) == Upto(more, k)
  <1>1. /\ L \in Nat /\ more \in Seq(Seq(S)) /\ Len(more) = L + 1 /\ more[L + 1] = x
        /\ \A i \in 1 .. L : more[i] = seqs[i]
    OBVIOUS
  <1>2. U(0) = <<>> /\ FlattenSeq(seqs) = U(L) /\ \A k \in 1 .. L : U(k) = U(k - 1) \o seqs[k]
    BY FlattenIsUpto
  <1>3. /\ V(0) = <<>> /\ FlattenSeq(more) = V(L + 1)
        /\ \A k \in 1 .. L + 1 : V(k) = V(k - 1) \o more[k]
    <2> HIDE DEF more, L, V
    <2>1. /\ V(0) = <<>> /\ FlattenSeq(more) = V(Len(more))
          /\ \A k \in 1 .. Len(more) : V(k) = V(k - 1) \o more[k]
      BY <1>1, FlattenIsUpto DEF V
    <2> QED
      BY <1>1, <2>1
  <1> HIDE DEF L, more, U, V
  <1>4. \A k \in 0 .. L : U(k) = V(k)
    <2> DEFINE Bad == {k \in 0 .. L : U(k) # V(k)}
    <2> SUFFICES ASSUME Bad # {} PROVE FALSE
      OBVIOUS
    <2>1. PICK k \in Bad : \A m \in Bad : k <= m
      <3>1. Bad \in SUBSET Nat
        BY <1>1
      <3> HIDE DEF Bad
      <3> QED
        BY <3>1, LeastOf
    <2>2. k \in 1 .. L /\ k - 1 \in 0 .. L /\ k - 1 \notin Bad /\ k \in 1 .. L + 1
      BY <1>1, <1>2, <1>3, <2>1
    <2>3. U(k) = V(k)
      BY <1>1, <1>2, <1>3, <2>2
    <2> QED
      BY <2>1, <2>3
  <1>5. V(L + 1) = V(L) \o x
    <2>1. L + 1 \in 1 .. L + 1 /\ (L + 1) - 1 = L
      BY <1>1
    <2> QED
      BY <1>1, <1>3, <2>1
  <1>6. L \in 0 .. L
    BY <1>1
  <1> QED
    BY <1>2, <1>3, <1>4, <1>5, <1>6 DEF more

LEMMA FlattenCons ==
  ASSUME NEW S, NEW seqs \in Seq(Seq(S)), seqs # <<>>
  PROVE  FlattenSeq(seqs) = Head(seqs) \o FlattenSeq(Tail(seqs))
  <1> DEFINE L == Len(seqs)
             rest == Tail(seqs)
             first == Head(seqs)
             U(k) == Upto(seqs, k)
             V(k) == Upto(rest, k)
  <1>1. /\ L \in Nat /\ L > 0 /\ rest \in Seq(Seq(S)) /\ Len(rest) = L - 1
        /\ \A i \in 1 .. L - 1 : rest[i] = seqs[i + 1]
        /\ first = seqs[1] /\ first \in Seq(S) /\ \A i \in 1 .. L : seqs[i] \in Seq(S)
    OBVIOUS
  <1>2. U(0) = <<>> /\ FlattenSeq(seqs) = U(L) /\ \A k \in 1 .. L : U(k) = U(k - 1) \o seqs[k]
    BY FlattenIsUpto
  <1>3. /\ V(0) = <<>> /\ FlattenSeq(rest) = V(L - 1)
        /\ \A k \in 1 .. L - 1 : V(k) = V(k - 1) \o rest[k]
        /\ \A k \in 0 .. L - 1 : V(k) \in Seq(S)
    <2> HIDE DEF rest, L, V
    <2>1. /\ V(0) = <<>> /\ FlattenSeq(rest) = V(Len(rest))
          /\ \A k \in 1 .. Len(rest) : V(k) = V(k - 1) \o rest[k]
          /\ \A k \in 0 .. Len(rest) : V(k) \in Seq(S)
      BY <1>1, FlattenIsUpto DEF V
    <2> QED
      BY <1>1, <2>1
  <1>4. \A s, t, u \in Seq(S) : (s \o t) \o u = s \o (t \o u)
    OBVIOUS
  <1>5. \A s \in Seq(S) : s \o <<>> = s /\ <<>> \o s = s
    OBVIOUS
  <1> HIDE DEF L, rest, first, U, V
  <1>6. U(1) = first \o V(0)
    <2>1. 1 \in 1 .. L /\ 1 - 1 = 0
      BY <1>1
    <2>2. U(1) = <<>> \o first
      BY <1>1, <1>2, <2>1
    <2> QED
      BY <1>1, <1>3, <1>5, <2>2
  <1>7. \A k \in 0 .. L - 1 : U(k + 1) = first \o V(k)
    <2> DEFINE Bad == {k \in 0 .. L - 1 : U(k + 1) # first \o V(k)}
    <2> SUFFICES ASSUME Bad # {} PROVE FALSE
      OBVIOUS
    <2>1. PICK k \in Bad : \A m \in Bad : k <= m
      <3>1. Bad \in SUBSET Nat
        BY <1>1
      <3> HIDE DEF Bad
      <3> QED
        BY <3>1, LeastOf
    <2>2. k # 0
      BY <1>6, <2>1
    <2>3. /\ k \in 1 .. L - 1 /\ k \in 1 .. L /\ k + 1 \in 1 .. L /\ k - 1 \in 0 .. L - 1
          /\ ~(k <= k - 1) /\ (k - 1) + 1 = k /\ (k + 1) - 1 = k
      BY <1>1, <2>1, <2>2
    <2>4. U(k) = first \o V(k - 1)
      BY <2>1, <2>3
    <2>5. U(k + 1) = U(k) \o rest[k] /\ V(k) = V(k - 1) \o rest[k]
      BY <1>1, <1>2, <1>3, <2>3
    <2>6. V(k - 1) \in Seq(S) /\ rest[k] \in Seq(S) /\ first \in Seq(S)
      BY <1>1, <1>3, <2>3
    <2>7. U(k + 1) = first \o V(k)
      <3>1. (first \o V(k - 1)) \o rest[k] = first \o (V(k - 1) \o rest[k])
        BY <1>4, <2>6
      <3> QED
        BY <2>4, <2>5, <3>1, Zenon
    <2> QED
      BY <2>1, <2>7
  <1>8. L - 1 \in 0 .. L - 1 /\ (L - 1) + 1 = L
    BY <1>1
  <1> QED
    BY <1>2, <1>3, <1>7, <1>8 DEF first, rest

-----------------------------------------------------------------------------
(* What the writer writes.                                                 *)

LEMMA WordBytes ==
  ASSUME NEW n \in Nat
  PROVE  Word(n) \in Seq(Byte) /\ Len(Word(n)) = 4
  <1> DEFINE w1 == n % 256
             w2 == (n \div 256) % 256
             w3 == (n \div 65536) % 256
             w4 == (n \div 16777216) % 256
  <1>1. w1 \in 0 .. 255 /\ w2 \in 0 .. 255
    BY SMT
  <1>2. w3 \in 0 .. 255 /\ w4 \in 0 .. 255
    BY SMT
  <1>3. Word(n) = <<w1, w2, w3, w4>>
    BY SMT DEF Word
  <1> HIDE DEF w1, w2, w3, w4
  <1> QED
    BY <1>1, <1>2, <1>3 DEF Byte

LEMMA TextFacts ==
  ASSUME NEW s \in CString
  PROVE  /\ Text(s) \in Seq(1 .. 255) /\ Text(s) \in Seq(Byte) /\ StrLen(s) = Len(Text(s)) /\ StrLen(s) \in Nat
         /\ WithLength(s) \in Seq(Byte) /\ Len(WithLength(s)) = 4 + StrLen(s)
         /\ Arrives(s) = IF StrLen(s) = 0 THEN NULL ELSE Text(s)
  <1>1. Text(s) \in Seq(1 .. 255)
    BY DEF CString, Text
  <1>2. Text(s) \in Seq(Byte)
    BY <1>1 DEF Byte
  <1>3. StrLen(s) = Len(Text(s)) /\ StrLen(s) \in Nat
    BY <1>1 DEF StrLen
  <1>4. Word(StrLen(s)) \in Seq(Byte) /\ Len(Word(StrLen(s))) = 4
    BY <1>3, WordBytes
  <1>5. WithLength(s) \in Seq(Byte) /\ Len(WithLength(s)) = 4 + StrLen(s)
    <2>1. \A t, u \in Seq(Byte) : t \o u \in Seq(Byte) /\ Len(t \o u) = Len(t) + Len(u)
      BY ConcatPlaces
    <2>2. WithLength(s) \in Seq(Byte) /\ Len(WithLength(s)) = Len(Word(StrLen(s))) + Len(Text(s))
      BY <1>2, <1>4, <2>1 DEF WithLength
    <2> QED
      BY <1>3, <1>4, <2>2
  <1>6. Arrives(s) = IF StrLen(s) = 0 THEN NULL ELSE Text(s)
    <2>1. StrLen(s) # 0 => s # NULL
      BY DEF StrLen, Text
    <2> QED
      BY <2>1 DEF Arrives, Text
  <1> QED
    BY <1>1, <1>2, <1>3, <1>5, <1>6

\* The bytes of the members of an array, the coded strings of one of strings.
Members(v) == IF v.array_len = 0 THEN <<>> ELSE v.object
Coded(v) == [i \in 1 .. v.array_len |-> WithLength(v.object[i])]

LEMMA ScalarShape ==
  ASSUME NEW v \in Values, v.type \in Scalars
  PROVE  /\ v.object \in Seq(Byte) /\ Len(v.object) = Width[v.type]
         /\ Written(v) = v.object /\ QueuedLen(v) = Width[v.type]
  <1>1. v.object \in Seq(Byte) /\ Len(v.object) = Width[v.type]
    BY CodecAssumption, TypeFacts, TypesApart DEF CodecAssumption, WellFormed
  <1>2. v.type \notin scl_type_complex
    BY TypeFacts, TypesApart
  <1> QED
    BY <1>1, <1>2, TypeFacts, TypesApart DEF Written, QueuedLen

LEMMA ArrayShape ==
  ASSUME NEW v \in Values, v.type \in Arrays
  PROVE  /\ v.array_len \in Nat
         /\ Members(v) \in Seq(Byte) /\ Len(Members(v)) = MemberWidth[v.type] * v.array_len
         /\ Written(v) = Word(v.array_len) \o Members(v)
         /\ QueuedLen(v) = 4 + MemberWidth[v.type] * v.array_len
  <1>1. v.array_len \in Nat
    BY CodecAssumption DEF CodecAssumption
  <1>2. v.array_len # 0 => v.object \in Seq(Byte) /\ Len(v.object) = MemberWidth[v.type] * v.array_len
    BY CodecAssumption, TypeFacts, TypesApart DEF CodecAssumption, WellFormed
  <1>3. MemberWidth[v.type] * 0 = 0 /\ MemberWidth[v.type] \in Nat
    BY TypeFacts
  <1>4. Members(v) \in Seq(Byte) /\ Len(Members(v)) = MemberWidth[v.type] * v.array_len
    BY <1>2, <1>3 DEF Members
  <1>5. /\ v.type \in scl_type_complex /\ v.type # "SCL_STRING_A" /\ v.type # "SCL_STRING"
        /\ v.type \notin DOMAIN Width /\ v.type \in DOMAIN MemberWidth
    BY TypeFacts, TypesApart
  <1>6. Written(v) = Word(v.array_len) \o Members(v)
    <2>1. CASE v.array_len = 0
      BY <1>5, <2>1 DEF Written, Members
    <2>2. CASE v.array_len # 0
      <3>1. Written(v) = Word(v.array_len) \o v.object
        BY <1>5, <2>2 DEF Written
      <3> QED
        BY <2>2, <3>1 DEF Members
    <2> QED
      BY <2>1, <2>2
  <1>7. QueuedLen(v) = 4 + MemberWidth[v.type] * v.array_len
    BY <1>5 DEF QueuedLen, SCL_LEN_LEN
  <1> QED
    BY <1>1, <1>4, <1>6, <1>7

LEMMA StringShape ==
  ASSUME NEW v \in Values, v.type = "SCL_STRING"
  PROVE  /\ v.object \in CString
         /\ Written(v) = WithLength(v.object) \o <<0>>
         /\ QueuedLen(v) = 5 + StrLen(v.object)
  <1>1. v.type \notin scl_type_complex /\ v.type \notin DOMAIN Width /\ v.type \notin DOMAIN MemberWidth
    BY TypeFacts, TypesApart
  <1>2. v.object \in CString
    BY <1>1, TypesApart, CodecAssumption DEF CodecAssumption, WellFormed
  <1>3. StrLen(v.object) \in Nat
    BY <1>2, TextFacts
  <1> QED
    BY <1>1, <1>2, <1>3, TypesApart DEF Written, QueuedLen, SCL_LEN_LEN

\* The coded strings are as long as the strings and their length fields.
LEMMA CodedLen ==
  ASSUME NEW n \in Nat, NEW s \in Seq(CString), Len(s) = n
  PROVE  LET coded == [i \in 1 .. n |-> WithLength(s[i])]
             texts == [i \in DOMAIN s |-> Text(s[i])]
         IN  /\ coded \in Seq(Seq(Byte)) /\ Len(coded) = n
             /\ Len(FlattenSeq(coded)) = 4 * n + Len(FlattenSeq(texts))
             /\ Len(FlattenSeq(texts)) \in Nat
  <1> DEFINE coded == [i \in 1 .. n |-> WithLength(s[i])]
             texts == [i \in DOMAIN s |-> Text(s[i])]
             C(k) == EndOf(coded, k)
             T(k) == EndOf(texts, k)
  <1>1. DOMAIN s = 1 .. n /\ \A i \in 1 .. n : s[i] \in CString
    OBVIOUS
  <1>2. /\ coded \in Seq(Seq(Byte)) /\ Len(coded) = n
        /\ \A i \in 1 .. n : coded[i] = WithLength(s[i])
    BY <1>1, TextFacts
  <1>3. /\ texts \in Seq(Seq(Byte)) /\ Len(texts) = n
        /\ \A i \in 1 .. n : texts[i] = Text(s[i])
    BY <1>1, TextFacts
  <1> HIDE DEF coded, texts
  <1>4. C(0) = 0 /\ Len(FlattenSeq(coded)) = C(n) /\ \A k \in 1 .. n : C(k) = C(k - 1) + Len(coded[k])
    BY <1>2, EndFacts
  <1>5. /\ T(0) = 0 /\ Len(FlattenSeq(texts)) = T(n) /\ \A k \in 1 .. n : T(k) = T(k - 1) + Len(texts[k])
        /\ \A k \in 0 .. n : T(k) \in Nat
    BY <1>3, EndFacts
  <1> HIDE DEF C, T
  <1>6. \A k \in 0 .. n : C(k) = 4 * k + T(k)
    <2> DEFINE Bad == {k \in 0 .. n : C(k) # 4 * k + T(k)}
    <2> SUFFICES ASSUME Bad # {} PROVE FALSE
      OBVIOUS
    <2>1. PICK k \in Bad : \A m \in Bad : k <= m
      <3>1. Bad \in SUBSET Nat
        OBVIOUS
      <3> HIDE DEF Bad
      <3> QED
        BY <3>1, LeastOf
    <2>2. k # 0
      BY <1>4, <1>5, <2>1
    <2>3. k \in 1 .. n /\ k - 1 \in 0 .. n /\ k - 1 \notin Bad
      BY <2>1, <2>2
    <2>4. Len(coded[k]) = 4 + Len(texts[k]) /\ Len(texts[k]) \in Nat
      BY <1>1, <1>2, <1>3, <2>3, TextFacts
    <2>5. C(k) = 4 * k + T(k)
      <3>1. C(k - 1) = 4 * (k - 1) + T(k - 1) /\ T(k - 1) \in Nat
        BY <1>5, <2>3
      <3> QED
        <4>1. C(k) = C(k - 1) + Len(coded[k]) /\ T(k) = T(k - 1) + Len(texts[k])
          BY <1>4, <1>5, <2>3
        <4> QED
          BY <2>3, <2>4, <3>1, <4>1
    <2> QED
      BY <2>1, <2>3, <2>5
  <1>7. n \in 0 .. n
    OBVIOUS
  <1> QED
    BY <1>2, <1>4, <1>5, <1>6, <1>7 DEF coded, texts

LEMMA StringsShape ==
  ASSUME NEW v \in Values, v.type = "SCL_STRING_A"
  PROVE  /\ v.array_len \in Nat
         /\ v.object = NULL => v.array_len = 0
         /\ v.object # NULL => v.object \in Seq(CString) /\ Len(v.object) = v.array_len
         /\ Coded(v) \in Seq(Seq(Byte)) /\ Len(Coded(v)) = v.array_len
         /\ FlattenSeq(Coded(v)) \in Seq(Byte)
         /\ Written(v) = (Word(v.array_len) \o FlattenSeq(Coded(v))) \o <<0>>
         /\ QueuedLen(v) = 5 + Len(FlattenSeq(Coded(v)))
  <1>1. v.type \in scl_type_complex /\ v.type \notin DOMAIN Width /\ v.type \notin DOMAIN MemberWidth
    BY TypeFacts, TypesApart
  <1>2. /\ v.array_len \in Nat
        /\ \/ v.array_len = 0 /\ v.object = NULL
           \/ v.object # NULL /\ v.object \in Seq(CString) /\ Len(v.object) = v.array_len
    BY <1>1, TypesApart, CodecAssumption DEF CodecAssumption, WellFormed
  <1>3. v.array_len = 0 => Coded(v) = <<>>
    BY DEF Coded
  <1>4. Coded(v) \in Seq(Seq(Byte)) /\ Len(Coded(v)) = v.array_len
    <2>1. CASE v.object = NULL
      <3>1. v.array_len = 0 /\ Coded(v) = <<>>
        BY <1>2, <1>3, <2>1
      <3> QED
        BY <3>1
    <2>2. CASE v.object # NULL
      BY <1>2, <2>2, CodedLen DEF Coded
    <2> QED
      BY <2>1, <2>2
  <1>5. FlattenSeq(Coded(v)) \in Seq(Byte)
    BY <1>4, EndFacts
  <1>6. v.array_len = 0 => FlattenSeq(Coded(v)) = <<>>
    BY <1>3, <1>4, FlattenIsUpto DEF Upto
  <1>7. Written(v) = (Word(v.array_len) \o FlattenSeq(Coded(v))) \o <<0>>
    <2>1. CASE v.array_len = 0
      <3>1. Word(0) \o <<>> = Word(0)
        BY WordBytes
      <3> QED
        BY <1>1, <1>6, <2>1, <3>1 DEF Written
    <2>2. CASE v.array_len # 0
      BY <1>1, <2>2, TypesApart DEF Written, Coded
    <2> QED
      BY <2>1, <2>2
  <1>8. QueuedLen(v) = 5 + Len(FlattenSeq(Coded(v)))
    <2>1. QueuedLen(v) = 5 + IF v.object = NULL THEN 0 ELSE 4 * v.array_len + StrLens(v.object)
      BY <1>1, TypesApart DEF QueuedLen, SCL_LEN_LEN
    <2>2. CASE v.object = NULL
      BY <1>2, <1>6, <2>1, <2>2
    <2>3. CASE v.object # NULL
      <3>1. Len(FlattenSeq(Coded(v))) = 4 * v.array_len + StrLens(v.object)
        BY <1>2, <2>3, CodedLen DEF Coded, StrLens
      <3> QED
        BY <2>1, <2>3, <3>1
    <2> QED
      BY <2>2, <2>3
  <1> QED
    BY <1>2, <1>4, <1>5, <1>7, <1>8

\* The two passes of the writer agree on a value.
LEMMA WrittenFacts ==
  ASSUME NEW v \in Values
  PROVE  Written(v) \in Seq(Byte) /\ Len(Written(v)) = QueuedLen(v) /\ QueuedLen(v) \in Nat
  <1>1. \A t, u \in Seq(Byte) : t \o u \in Seq(Byte) /\ Len(t \o u) = Len(t) + Len(u)
    BY ConcatPlaces
  <1>2. <<0>> \in Seq(Byte) /\ Len(<<0>>) = 1
    BY DEF Byte
  <1>3. CASE v.type \in Scalars
    BY <1>3, ScalarShape
  <1>4. CASE v.type \in Arrays
    <2>1. Word(v.array_len) \in Seq(Byte) /\ Len(Word(v.array_len)) = 4
      BY <1>4, ArrayShape, WordBytes
    <2>2. Members(v) \in Seq(Byte)
      BY <1>4, ArrayShape
    <2>3. Written(v) \in Seq(Byte) /\ Len(Written(v)) = Len(Word(v.array_len)) + Len(Members(v))
      <3>1. Written(v) = Word(v.array_len) \o Members(v)
        BY <1>4, ArrayShape
      <3> QED
        BY <1>1, <2>1, <2>2, <3>1
    <2> QED
      BY <1>4, <2>1, <2>3, ArrayShape
  <1>5. CASE v.type = "SCL_STRING"
    <2>1. WithLength(v.object) \in Seq(Byte) /\ Len(WithLength(v.object)) = 4 + StrLen(v.object) /\ StrLen(v.object) \in Nat
      BY <1>5, StringShape, TextFacts
    <2>2. Written(v) = WithLength(v.object) \o <<0>> /\ QueuedLen(v) = 5 + StrLen(v.object)
      BY <1>5, StringShape
    <2>3. Written(v) \in Seq(Byte) /\ Len(Written(v)) = Len(WithLength(v.object)) + Len(<<0>>)
      BY <1>1, <1>2, <2>1, <2>2
    <2> QED
      BY <1>2, <2>1, <2>2, <2>3
  <1>6. CASE v.type = "SCL_STRING_A"
    <2> DEFINE f == FlattenSeq(Coded(v))
               w == Word(v.array_len)
    <2>1. w \in Seq(Byte) /\ Len(w) = 4
      BY <1>6, StringsShape, WordBytes
    <2>2. f \in Seq(Byte) /\ Written(v) = (w \o f) \o <<0>> /\ QueuedLen(v) = 5 + Len(f)
      BY <1>6, StringsShape
    <2> HIDE DEF f, w
    <2>3. w \o f \in Seq(Byte) /\ Len(w \o f) = Len(w) + Len(f) /\ Len(f) \in Nat
      <3>1. w \in Seq(Byte) /\ f \in Seq(Byte)
        BY <2>1, <2>2
      <3>2. w \o f \in Seq(Byte) /\ Len(w \o f) = Len(w) + Len(f)
        BY <1>1, <3>1, Zenon
      <3> QED
        BY <3>1, <3>2
    <2>4. Written(v) \in Seq(Byte) /\ Len(Written(v)) = Len(w \o f) + Len(<<0>>)
      BY <1>1, <1>2, <2>2, <2>3
    <2> QED
      BY <1>2, <2>1, <2>2, <2>3, <2>4
  <1>7. v.type \in scl_type
    BY CodecAssumption DEF CodecAssumption
  <1> QED
    BY <1>3, <1>4, <1>5, <1>6, <1>7, TypeFacts

\* The values of a packet one by one.
Parts(values) == [k \in DOMAIN values |-> Written(values[k])]

LEMMA BodyFacts ==
  ASSUME NEW values \in Seq(Values)
  PROVE  /\ Parts(values) \in Seq(Seq(Byte)) /\ Len(Parts(values)) = Len(values)
         /\ \A k \in 1 .. Len(values) : Parts(values)[k] = Written(values[k]) /\ values[k] \in Values
         /\ Body(values) = FlattenSeq(Parts(values))
         /\ Body(values) \in Seq(Byte) /\ Len(Body(values)) \in Nat
  <1>1. DOMAIN values = 1 .. Len(values) /\ \A k \in 1 .. Len(values) : values[k] \in Values
    OBVIOUS
  <1>2. Parts(values) \in Seq(Seq(Byte)) /\ Len(Parts(values)) = Len(values)
    BY <1>1, WrittenFacts DEF Parts
  <1>3. Body(values) = FlattenSeq(Parts(values))
    BY DEF Body, Parts
  <1>4. Body(values) \in Seq(Byte)
    BY <1>2, <1>3, EndFacts
  <1> QED
    BY <1>1, <1>2, <1>3, <1>4 DEF Parts

LEMMA BodyAppend ==
  ASSUME NEW values \in Seq(Values), NEW v \in Values
  PROVE  /\ Body(Append(values, v)) = Body(values) \o Written(v)
         /\ Len(Body(Append(values, v))) = Len(Body(values)) + QueuedLen(v)
  <1>1. Parts(Append(values, v)) = Append(Parts(values), Written(v))
    BY DEF Parts
  <1>2. Body(Append(values, v)) = Body(values) \o Written(v)
    <2>1. Append(values, v) \in Seq(Values)
      OBVIOUS
    <2>2. Body(Append(values, v)) = FlattenSeq(Parts(Append(values, v)))
      BY <2>1, BodyFacts
    <2>3. Parts(values) \in Seq(Seq(Byte)) /\ Body(values) = FlattenSeq(Parts(values)) /\ Written(v) \in Seq(Byte)
      BY BodyFacts, WrittenFacts
    <2> QED
      BY <1>1, <2>2, <2>3, FlattenAppend
  <1>3. Body(values) \in Seq(Byte) /\ Written(v) \in Seq(Byte) /\ Len(Written(v)) = QueuedLen(v)
    BY BodyFacts, WrittenFacts
  <1>4. \A t, u \in Seq(Byte) : Len(t \o u) = Len(t) + Len(u)
    BY ConcatPlaces
  <1> QED
    BY <1>2, <1>3, <1>4

-----------------------------------------------------------------------------
(* What the reader finds.                                                  *)

\* The bytes s stand in d behind place b.
Holds(d, b, s) == b + Len(s) <= Len(d) /\ \A j \in 1 .. Len(s) : d[b + j] = s[j]

LEMMA HoldsConcat ==
  ASSUME NEW d \in Seq(Byte), NEW b \in Nat, NEW s \in Seq(Byte), NEW t \in Seq(Byte),
         Holds(d, b, s \o t)
  PROVE  Holds(d, b, s) /\ Holds(d, b + Len(s), t)
  <1>1. /\ Len(s \o t) = Len(s) + Len(t)
        /\ \A i \in 1 .. Len(s) : (s \o t)[i] = s[i]
        /\ \A j \in 1 .. Len(t) : (s \o t)[Len(s) + j] = t[j]
    BY ConcatPlaces
  <1>2. Len(s) \in Nat /\ Len(t) \in Nat
    OBVIOUS
  <1>3. b + (Len(s) + Len(t)) <= Len(d) /\ \A j \in 1 .. Len(s) + Len(t) : d[b + j] = (s \o t)[j]
    BY <1>1 DEF Holds
  <1>4. Holds(d, b, s)
    <2>1. b + Len(s) <= Len(d) /\ \A j \in 1 .. Len(s) : j \in 1 .. Len(s) + Len(t)
      BY <1>2, <1>3
    <2>2. \A j \in 1 .. Len(s) : d[b + j] = s[j]
      BY <1>1, <1>3, <2>1
    <2> QED
      BY <2>1, <2>2 DEF Holds
  <1>5. ASSUME NEW j \in 1 .. Len(t) PROVE d[(b + Len(s)) + j] = t[j]
    <2>1. Len(s) + j \in 1 .. Len(s) + Len(t) /\ (b + Len(s)) + j = b + (Len(s) + j)
      BY <1>2
    <2> QED
      BY <1>1, <1>3, <2>1
  <1> QED
    BY <1>2, <1>3, <1>4, <1>5 DEF Holds

LEMMA HoldsPart ==
  ASSUME NEW d \in Seq(Byte), NEW b \in Nat, NEW seqs \in Seq(Seq(Byte)),
         Holds(d, b, FlattenSeq(seqs)), NEW k \in 1 .. Len(seqs)
  PROVE  Holds(d, b + EndOf(seqs, k - 1), seqs[k])
  <1> DEFINE E(i) == EndOf(seqs, i)
             L == Len(seqs)
             f == FlattenSeq(seqs)
  <1>1. /\ L \in Nat /\ seqs[k] \in Seq(Byte) /\ Len(seqs[k]) \in Nat /\ k \in 1 .. L
    OBVIOUS
  <1>2. /\ \A i \in 0 .. L : E(i) \in Nat
        /\ \A i \in 1 .. L : E(i) = E(i - 1) + Len(seqs[i])
        /\ \A i, j \in 0 .. L : i <= j => E(i) <= E(j)
        /\ Len(f) = E(L)
    BY EndFacts
  <1>3. \A j \in 1 .. Len(seqs[k]) : f[E(k - 1) + j] = seqs[k][j]
    BY FlattenPlaces
  <1>4. b + Len(f) <= Len(d) /\ \A j \in 1 .. Len(f) : d[b + j] = f[j]
    BY DEF Holds
  <1> HIDE DEF E, L, f
  <1>5. E(k - 1) \in Nat /\ E(k) = E(k - 1) + Len(seqs[k]) /\ E(k) <= E(L) /\ E(L) \in Nat
    <2>1. k - 1 \in 0 .. L /\ k \in 0 .. L /\ L \in 0 .. L /\ k <= L
      BY <1>1
    <2> QED
      BY <1>1, <1>2, <2>1
  <1> DEFINE e == E(k - 1)
             l == Len(seqs[k])
             m == Len(f)
  <1>6. e \in Nat /\ l \in Nat /\ m \in Nat /\ e + l <= m
    BY <1>1, <1>2, <1>5
  <1>7. Len(d) \in Nat /\ b + m <= Len(d)
    BY <1>4
  <1>8. ASSUME NEW j \in 1 .. l PROVE d[(b + e) + j] = seqs[k][j]
    <2>1. e + j \in 1 .. m /\ (b + e) + j = b + (e + j)
      <3> HIDE DEF e, l, m
      <3> QED
        BY <1>6
    <2> QED
      BY <1>3, <1>4, <2>1
  <1>9. (b + e) + l <= Len(d)
    <2> HIDE DEF e, l, m
    <2> QED
      BY <1>6, <1>7
  <1> QED
    BY <1>8, <1>9 DEF Holds, E

LEMMA UnwordReads ==
  ASSUME NEW d \in Seq(Byte), NEW b \in Nat, NEW n \in 0 .. INT_MAX, Holds(d, b, Word(n))
  PROVE  Unword(d, b + 1) = n
  <1>1. Len(Word(n)) = 4 /\ Word(n) \in Seq(Byte)
    BY WordFacts
  <1>2. b + 4 <= Len(d) /\ \A j \in 1 .. 4 : d[b + j] = Word(n)[j]
    BY <1>1 DEF Holds
  <1>3. At(d, b + 1) = Word(n)[1] /\ At(d, (b + 1) + 1) = Word(n)[2]
        /\ At(d, (b + 1) + 2) = Word(n)[3] /\ At(d, (b + 1) + 3) = Word(n)[4]
    <2>1. \A j \in 1 .. 4 : b + j \in DOMAIN d
      BY <1>2
    <2>2. \A j \in 1 .. 4 : At(d, b + j) = Word(n)[j]
      BY <1>2, <2>1 DEF At
    <2>3. (b + 1) + 1 = b + 2 /\ (b + 1) + 2 = b + 3 /\ (b + 1) + 3 = b + 4
      OBVIOUS
    <2> QED
      BY <2>2, <2>3
  <1>4. n = Word(n)[1] + 256 * Word(n)[2] + 65536 * Word(n)[3] + 16777216 * Word(n)[4]
    BY WordFacts, SMT
  <1>5. Unword(d, b + 1) = Word(n)[1] + 256 * Word(n)[2] + 65536 * Word(n)[3] + 16777216 * Word(n)[4]
    BY <1>3, SMT DEF Unword
  <1> QED
    BY <1>4, <1>5, SMT

LEMMA ZeroedFacts ==
  ASSUME NEW d \in Seq(Byte), NEW p \in Nat, NEW n \in Nat
  PROVE  /\ Zeroed(d, p, n) \in Seq(Byte) /\ Len(Zeroed(d, p, n)) = Len(d)
         /\ \A i \in 1 .. Len(d) : Zeroed(d, p, n)[i] = IF i \in p .. p + n - 1 THEN 0 ELSE d[i]
  <1>1. 0 \in Byte
    BY DEF Byte
  <1>2. \A i \in 1 .. Len(d) : d[i] \in Byte
    OBVIOUS
  <1> QED
    BY <1>1, <1>2 DEF Zeroed

-----------------------------------------------------------------------------
(* What scl_get_value returns.                                             *)

\* The text t behind place b, and its end.
HoldsText(d, b, t) == (\A j \in 1 .. Len(t) : d[b + j] = t[j]) /\ d[b + Len(t) + 1] = 0

\* Where the i-th string of an array lies, its length field before it.
StringBase(v, b, i) == b + 8 + EndOf(Coded(v), i - 1)

\* The pointer r into d, for the value v whose bytes were behind place b.
Denotes(v, r, d, b) ==
    /\ v.type \in Scalars => r = b + 1 /\ \A j \in 1 .. Len(v.object) : d[b + j] = v.object[j]
    /\ v.type \in Arrays => r = b + 5 /\ \A j \in 1 .. Len(Members(v)) : d[b + 4 + j] = Members(v)[j]
    /\ v.type = "SCL_STRING" =>
          IF StrLen(v.object) = 0 THEN r = NULL ELSE r = b + 5 /\ HoldsText(d, b + 4, Text(v.object))
    /\ v.type = "SCL_STRING_A" =>
          /\ r = [i \in 1 .. v.array_len |->
                    IF StrLen(v.object[i]) = 0 THEN NULL ELSE StringBase(v, b, i) + 1]
          /\ \A i \in 1 .. v.array_len :
                StrLen(v.object[i]) # 0 => HoldsText(d, StringBase(v, b, i), Text(v.object[i]))

\* The value is taken, the cursor moved over it, and no other byte touched.
Takes(v, d, b, got) ==
    /\ got.pdata \in Seq(Byte) /\ Len(got.pdata) = Len(d)
    /\ got.pcursor = (b + 1) + QueuedLen(v)
    /\ \A i \in 1 .. Len(d) : i <= b \/ i > b + QueuedLen(v) => got.pdata[i] = d[i]
    /\ Denotes(v, got.retval, got.pdata, b)

LEMMA TakesScalar ==
  ASSUME NEW v \in Values, v.type \in Scalars, NEW d \in Seq(Byte), NEW b \in Nat,
         Holds(d, b, Written(v))
  PROVE  Takes(v, d, b, Got(v.type, d, b + 1))
  <1>1. Got(v.type, d, b + 1) = [retval |-> b + 1, pdata |-> d, pcursor |-> (b + 1) + Width[v.type]]
    BY TypeFacts, TypesApart DEF Got
  <1>2. Written(v) = v.object /\ QueuedLen(v) = Width[v.type]
    BY ScalarShape
  <1>3. Denotes(v, b + 1, d, b)
    BY <1>2, TypesApart DEF Denotes, Holds
  <1> QED
    BY <1>1, <1>2, <1>3 DEF Takes

LEMMA TakesArray ==
  ASSUME NEW v \in Values, v.type \in Arrays, NEW d \in Seq(Byte), NEW b \in Nat,
         Holds(d, b, Written(v)), QueuedLen(v) <= INT_MAX
  PROVE  Takes(v, d, b, Got(v.type, d, b + 1))
  <1> DEFINE n == v.array_len
             w == Word(n)
             m == Members(v)
  <1>1. /\ n \in Nat /\ m \in Seq(Byte) /\ Written(v) = w \o m
        /\ QueuedLen(v) = 4 + MemberWidth[v.type] * n
    BY ArrayShape
  <1>2. n \in 0 .. INT_MAX
    <2>1. MemberWidth[v.type] \in {1, 4, 8}
      BY TypeFacts
    <2>2. n <= INT_MAX
      BY <1>1, <2>1, IntMax
    <2> QED
      BY <1>1, <2>2, IntMax
  <1>3. w \in Seq(Byte) /\ Len(w) = 4
    BY <1>1, WordBytes
  <1>4. Holds(d, b, w) /\ Holds(d, b + 4, m)
    <2> HIDE DEF w, m
    <2>1. Holds(d, b, w \o m)
      BY <1>1
    <2> QED
      BY <1>1, <1>3, <2>1, HoldsConcat
  <1>5. Unword(d, b + 1) = n
    BY <1>2, <1>4, UnwordReads
  <1>6. Got(v.type, d, b + 1) =
          [retval |-> (b + 1) + 4, pdata |-> d, pcursor |-> ((b + 1) + 4) + MemberWidth[v.type] * n]
    BY <1>5, TypeFacts, TypesApart DEF Got, SCL_LEN_LEN
  <1>7. MemberWidth[v.type] * n \in Nat
    <2>1. MemberWidth[v.type] \in Nat
      BY TypeFacts
    <2> QED
      BY <1>1, <2>1
  <1>8. Denotes(v, b + 5, d, b)
    BY <1>4, TypesApart DEF Denotes, Holds
  <1> QED
    <2> DEFINE x == MemberWidth[v.type] * n
    <2> HIDE DEF x, n
    <2>1. QueuedLen(v) = 4 + x /\ x \in Nat
      BY <1>1, <1>7 DEF x
    <2>2. Got(v.type, d, b + 1) = [retval |-> b + 5, pdata |-> d, pcursor |-> (b + 1) + (4 + x)]
      <3>1. (b + 1) + 4 = b + 5 /\ ((b + 1) + 4) + x = (b + 1) + (4 + x)
        BY <2>1
      <3>2. Got(v.type, d, b + 1) = [retval |-> (b + 1) + 4, pdata |-> d, pcursor |-> ((b + 1) + 4) + x]
        BY <1>6, Zenon DEF x
      <3> QED
        BY <3>1, <3>2, Zenon
    <2> QED
      BY <1>8, <2>1, <2>2 DEF Takes

LEMMA TakesString ==
  ASSUME NEW v \in Values, v.type = "SCL_STRING", NEW d \in Seq(Byte), NEW b \in Nat,
         Holds(d, b, Written(v)), QueuedLen(v) <= INT_MAX
  PROVE  Takes(v, d, b, Got(v.type, d, b + 1))
  <1> DEFINE t == Text(v.object)
             n == StrLen(v.object)
             w == Word(n)
  <1>1. /\ v.object \in CString /\ Written(v) = WithLength(v.object) \o <<0>>
        /\ QueuedLen(v) = 5 + n
    BY StringShape
  <1>2. /\ t \in Seq(Byte) /\ n = Len(t) /\ n \in Nat /\ WithLength(v.object) \in Seq(Byte)
        /\ Len(WithLength(v.object)) = 4 + n /\ WithLength(v.object) = w \o t
    BY <1>1, TextFacts DEF WithLength
  <1>3. n \in 0 .. INT_MAX
    BY <1>1, <1>2, IntMax
  <1>4. w \in Seq(Byte) /\ Len(w) = 4 /\ <<0>> \in Seq(Byte)
    BY <1>2, WordBytes DEF Byte
  <1> HIDE DEF t, n, w
  <1>5. Holds(d, b, w \o t) /\ Holds(d, b + (4 + n), <<0>>)
    <2> DEFINE u == WithLength(v.object)
    <2>1. u \in Seq(Byte) /\ Len(u) = 4 + n /\ u = w \o t /\ Holds(d, b, u \o <<0>>)
      BY <1>1, <1>2
    <2> HIDE DEF u
    <2>2. Holds(d, b, u) /\ Holds(d, b + Len(u), <<0>>)
      BY <1>4, <2>1, HoldsConcat
    <2> QED
      BY <2>1, <2>2, Zenon
  <1>6. Holds(d, b, w) /\ Holds(d, b + 4, t)
    BY <1>2, <1>4, <1>5, HoldsConcat
  <1>7. Unword(d, b + 1) = n
    BY <1>3, <1>6, UnwordReads DEF w
  <1>8. b + 5 + n <= Len(d) /\ Len(d) \in Nat
    BY <1>2, <1>5 DEF Holds
  <1>9. Got(v.type, d, b + 1) =
          IF n = 0 THEN [retval |-> NULL, pdata |-> d, pcursor |-> b + 6]
          ELSE [retval |-> b + 5, pdata |-> Zeroed(d, b + 5 + n, 1), pcursor |-> b + 6 + n]
    <2>1. Got(v.type, d, b + 1) = GetString(d, b + 1)
      BY TypeFacts, TypesApart DEF Got
    <2>2. (b + 1) + 4 = b + 5 /\ (b + 5) + 1 = b + 6 /\ (b + 5) + n + 1 = b + 6 + n
      BY <1>2
    <2> QED
      BY <1>7, <2>1, <2>2 DEF GetString, SCL_LEN_LEN
  <1>10. CASE n = 0
    <2>1. Denotes(v, NULL, d, b)
      BY <1>10, TypesApart DEF Denotes, n
    <2> QED
      BY <1>1, <1>9, <1>10, <2>1 DEF Takes, n
  <1>11. CASE n # 0
    <2> DEFINE z == Zeroed(d, b + 5 + n, 1)
    <2>1. /\ z \in Seq(Byte) /\ Len(z) = Len(d)
          /\ \A i \in 1 .. Len(d) : z[i] = IF i \in b + 5 + n .. (b + 5 + n) + 1 - 1 THEN 0 ELSE d[i]
      <3>1. b + 5 + n \in Nat /\ 1 \in Nat
        BY <1>2
      <3> QED
        BY <3>1, ZeroedFacts
    <2> HIDE DEF z
    <2>2. \A i \in 1 .. Len(d) : z[i] = IF i = b + 5 + n THEN 0 ELSE d[i]
      BY <1>2, <2>1
    <2>3. HoldsText(z, b + 4, t)
      <3>1. \A j \in 1 .. n : (b + 4) + j \in 1 .. Len(d) /\ (b + 4) + j # b + 5 + n
        BY <1>2, <1>8
      <3>2. (b + 4) + n + 1 = b + 5 + n /\ b + 5 + n \in 1 .. Len(d)
        BY <1>2, <1>8
      <3>3. \A j \in 1 .. n : d[(b + 4) + j] = t[j]
        BY <1>2, <1>6 DEF Holds
      <3> QED
        BY <1>2, <2>2, <3>1, <3>2, <3>3 DEF HoldsText
    <2>4. Denotes(v, b + 5, z, b)
      BY <1>11, <2>3, TypesApart DEF Denotes, n, t
    <2>5. \A i \in 1 .. Len(d) : i <= b \/ i > b + QueuedLen(v) => z[i] = d[i]
      BY <1>1, <1>2, <2>2 DEF n
    <2>6. (b + 1) + QueuedLen(v) = b + 6 + n
      BY <1>1, <1>2 DEF n
    <2> QED
      BY <1>9, <1>11, <2>1, <2>4, <2>5, <2>6 DEF Takes, z
  <1> QED
    BY <1>10, <1>11

\* Where the strings of an array lie, their length fields and the last byte.
LEMMA StringsLaid ==
  ASSUME NEW v \in Values, v.type = "SCL_STRING_A", NEW d \in Seq(Byte), NEW b \in Nat,
         Holds(d, b, Written(v)), QueuedLen(v) <= INT_MAX
  PROVE  LET n == v.array_len
             C(i) == EndOf(Coded(v), i)
         IN  /\ n \in Nat /\ Unword(d, b + 1) = n
             /\ C(0) = 0 /\ \A i \in 0 .. n : C(i) \in Nat
             /\ \A i, j \in 0 .. n : i <= j => C(i) <= C(j)
             /\ \A i \in 1 .. n : /\ v.object[i] \in CString
                                  /\ StrLen(v.object[i]) \in 0 .. INT_MAX
                                  /\ C(i) = (C(i - 1) + 4) + StrLen(v.object[i])
                                  /\ Holds(d, b + 4 + C(i - 1), Word(StrLen(v.object[i])))
                                  /\ Holds(d, b + 8 + C(i - 1), Text(v.object[i]))
             /\ QueuedLen(v) = 5 + C(n) /\ b + 5 + C(n) <= Len(d)
  <1> DEFINE n == v.array_len
             c == Coded(v)
             C(i) == EndOf(Coded(v), i)
             f == FlattenSeq(c)
             w == Word(n)
  <1>1. /\ n \in Nat /\ c \in Seq(Seq(Byte)) /\ Len(c) = n /\ f \in Seq(Byte)
        /\ Written(v) = (w \o f) \o <<0>> /\ QueuedLen(v) = 5 + Len(f)
        /\ v.object = NULL => n = 0
        /\ v.object # NULL => v.object \in Seq(CString) /\ Len(v.object) = n
    BY StringsShape
  <1>2. /\ C(0) = 0 /\ (\A i \in 0 .. n : C(i) \in Nat)
        /\ (\A i, j \in 0 .. n : i <= j => C(i) <= C(j))
        /\ (\A i \in 1 .. n : C(i) = C(i - 1) + Len(c[i])) /\ Len(f) = C(n)
    <2> HIDE DEF c, n
    <2> QED
      BY <1>1, EndFacts DEF c
  <1>3. n \in 0 .. INT_MAX
    <2>1. CASE v.object = NULL
      BY <1>1, <2>1, IntMax
    <2>2. CASE v.object # NULL
      <3>1. PICK x \in Nat : Len(f) = 4 * n + x
        BY <1>1, <2>2, CodedLen DEF Coded
      <3> HIDE DEF f, n
      <3> QED
        BY <1>1, <3>1, IntMax
    <2> QED
      BY <2>1, <2>2
  <1>4. w \in Seq(Byte) /\ Len(w) = 4 /\ <<0>> \in Seq(Byte)
    BY <1>1, WordBytes DEF Byte
  <1>5. Holds(d, b, w) /\ Holds(d, b + 4, f) /\ b + 5 + C(n) <= Len(d)
    <2> HIDE DEF w, f, C, n
    <2>1. w \o f \in Seq(Byte) /\ Len(w \o f) = 4 + Len(f) /\ Len(f) \in Nat
      <3>1. \A s, t \in Seq(Byte) : s \o t \in Seq(Byte) /\ Len(s \o t) = Len(s) + Len(t)
        BY ConcatPlaces
      <3>2. Len(f) \in Nat
        BY <1>1
      <3> QED
        <4>1. w \o f \in Seq(Byte) /\ Len(w \o f) = Len(w) + Len(f)
          BY <1>1, <1>4, <3>1
        <4> QED
          BY <1>4, <3>2, <4>1, Zenon
    <2>2. Holds(d, b, (w \o f) \o <<0>>)
      BY <1>1
    <2>3. Holds(d, b, w \o f) /\ Holds(d, b + Len(w \o f), <<0>>)
      <3> DEFINE u == w \o f
      <3>1. u \in Seq(Byte) /\ Holds(d, b, u \o <<0>>)
        BY <2>1, <2>2
      <3> HIDE DEF u
      <3>2. Holds(d, b, u) /\ Holds(d, b + Len(u), <<0>>)
        BY <1>4, <3>1, HoldsConcat
      <3> QED
        BY <3>2 DEF u
    <2>4. Holds(d, b, w) /\ Holds(d, b + Len(w), f)
      BY <1>1, <1>4, <2>3, HoldsConcat
    <2>5. Holds(d, b, w) /\ Holds(d, b + 4, f)
      BY <1>4, <2>4, Zenon
    <2>6. (b + (4 + Len(f))) + 1 <= Len(d)
      BY <2>1, <2>3 DEF Holds
    <2> QED
      BY <1>2, <2>1, <2>5, <2>6
  <1>6. Unword(d, b + 1) = n
    BY <1>3, <1>5, UnwordReads
  <1>7. ASSUME NEW i \in 1 .. n
        PROVE  /\ v.object[i] \in CString
               /\ StrLen(v.object[i]) \in 0 .. INT_MAX
               /\ C(i) = (C(i - 1) + 4) + StrLen(v.object[i])
               /\ Holds(d, b + 4 + C(i - 1), Word(StrLen(v.object[i])))
               /\ Holds(d, b + 8 + C(i - 1), Text(v.object[i]))
    <2> DEFINE s == v.object[i]
               l == StrLen(v.object[i])
               e == C(i - 1)
    <2>1. n # 0 /\ s \in CString /\ c[i] = WithLength(s)
      <3>1. n # 0 /\ v.object \in Seq(CString) /\ Len(v.object) = n
        BY <1>1
      <3>2. s \in CString
        <4> DEFINE m == v.object
        <4>1. m \in Seq(CString) /\ i \in 1 .. Len(m)
          BY <3>1
        <4> HIDE DEF m
        <4>2. m[i] \in CString
          BY <4>1
        <4> QED
          BY <4>2 DEF m
      <3>3. c[i] = WithLength(s)
        BY DEF Coded
      <3> QED
        BY <3>1, <3>2, <3>3
    <2>2. /\ l \in Nat /\ Text(s) \in Seq(Byte) /\ Len(c[i]) = 4 + l /\ l = Len(Text(s))
          /\ c[i] = Word(l) \o Text(s)
      BY <2>1, TextFacts DEF WithLength
    <2>3. e \in Nat /\ C(i) = e + (4 + l) /\ C(i) <= C(n) /\ C(i) \in Nat /\ C(n) \in Nat
      <3>1. i - 1 \in 0 .. n /\ i \in 0 .. n /\ n \in 0 .. n /\ i <= n
        BY <1>1
      <3> HIDE DEF c, l, n, C
      <3> QED
        BY <1>2, <2>2, <3>1
    <2>4. l \in 0 .. INT_MAX
      <3> DEFINE m == C(n)
                 x == C(i)
      <3>1. QueuedLen(v) = 5 + m
        BY <1>1, <1>2
      <3>2. m \in Nat /\ x \in Nat /\ x <= m /\ x = e + (4 + l) /\ e \in Nat /\ l \in Nat
        BY <2>2, <2>3
      <3> HIDE DEF l, e, m, x
      <3>3. 5 + m <= INT_MAX
        BY <3>1
      <3> QED
        BY <3>2, <3>3, IntMax
    <2>5. Holds(d, (b + 4) + e, c[i])
      <3> HIDE DEF c, n, f
      <3>1. b + 4 \in Nat /\ i \in 1 .. Len(c)
        <4>1. Len(c) = v.array_len
          BY <1>1 DEF n
        <4>2. i \in 1 .. v.array_len
          BY DEF n
        <4> QED
          BY <4>1, <4>2
      <3> QED
        BY <1>1, <1>5, <3>1, HoldsPart DEF f, c
    <2>6. Word(l) \in Seq(Byte) /\ Len(Word(l)) = 4
      BY <2>2, WordBytes
    <2>7. Holds(d, (b + 4) + e, Word(l)) /\ Holds(d, ((b + 4) + e) + 4, Text(s))
      <3> DEFINE p == (b + 4) + e
                 u == Word(l)
                 t == Text(s)
      <3>1. p \in Nat /\ u \in Seq(Byte) /\ t \in Seq(Byte) /\ Holds(d, p, u \o t) /\ Len(u) = 4
        <4>1. p \in Nat
          <5> HIDE DEF e
          <5> QED
            BY <2>3
        <4>2. Holds(d, p, u \o t)
          BY <2>2, <2>5, Zenon
        <4> QED
          BY <2>2, <2>6, <4>1, <4>2
      <3> HIDE DEF p, u, t
      <3>2. Holds(d, p, u) /\ Holds(d, p + Len(u), t)
        BY <3>1, HoldsConcat
      <3>3. Holds(d, p, u) /\ Holds(d, p + 4, t)
        BY <3>1, <3>2, Zenon
      <3> QED
        BY <3>3 DEF p, u, t
    <2>8. ((b + 4) + e) + 4 = b + 8 + e /\ e + (4 + l) = (e + 4) + l
      <3> HIDE DEF e, l
      <3> QED
        BY <2>2, <2>3
    <2> QED
      BY <2>1, <2>3, <2>4, <2>7, <2>8
  <1>8. QueuedLen(v) = 5 + C(n)
    BY <1>1, <1>2
  <1> QED
    BY <1>1, <1>2, <1>5, <1>6, <1>7, <1>8

\* The array of strings at p, after each of its count strings.
Run(d, p, array_len) ==
    CHOOSE got : got = [count \in 0 .. array_len |->
        IF count = 0 THEN [retval |-> <<>>, pdata |-> d, pcursor |-> p + SCL_LEN_LEN]
        ELSE NextPointer(got[count - 1])]

LEMMA StringsRun ==
  ASSUME NEW d, NEW p, Unword(d, p) \in Nat
  PROVE  LET all == Run(d, p, Unword(d, p))[Unword(d, p)]
         IN  GetStrings(d, p) = [retval |-> all.retval, pdata |-> Zeroed(all.pdata, all.pcursor, 1),
                                 pcursor |-> all.pcursor + 1]
  BY DEF GetStrings, Run

LEMMA RunIs ==
  ASSUME NEW d, NEW p, NEW n \in Nat, NEW g, DOMAIN g = 0 .. n, g = [k \in 0 .. n |-> g[k]],
         g[0] = [retval |-> <<>>, pdata |-> d, pcursor |-> p + SCL_LEN_LEN],
         \A k \in 1 .. n : g[k] = NextPointer(g[k - 1])
  PROVE  Run(d, p, n) = g
  <1> DEFINE base == [retval |-> <<>>, pdata |-> d, pcursor |-> p + SCL_LEN_LEN]
             Is(f) == f = [k \in 0 .. n |-> IF k = 0 THEN base ELSE NextPointer(f[k - 1])]
  <1>1. Run(d, p, n) = CHOOSE f : Is(f)
    BY DEF Run
  <1> HIDE DEF base
  <1>2. g[0] = base
    BY DEF base
  <1>3. Is(g)
    <2>1. \A k \in 0 .. n : g[k] = IF k = 0 THEN base ELSE NextPointer(g[k - 1])
      <3> SUFFICES ASSUME NEW k \in 0 .. n
                   PROVE  g[k] = IF k = 0 THEN base ELSE NextPointer(g[k - 1])
        OBVIOUS
      <3>1. k # 0 => k \in 1 .. n
        OBVIOUS
      <3> QED
        BY <1>2, <3>1
    <2> QED
      BY <2>1, Zenon
  <1>4. ASSUME NEW f, Is(f), NEW i \in 0 .. n PROVE f[i] = g[i]
    <2> DEFINE Bad == {k \in 0 .. n : f[k] # g[k]}
    <2> SUFFICES ASSUME Bad # {} PROVE FALSE
      OBVIOUS
    <2>1. PICK k \in Bad : \A m \in Bad : k <= m
      <3>1. Bad \in SUBSET Nat
        OBVIOUS
      <3> HIDE DEF Bad
      <3> QED
        BY <3>1, LeastOf
    <2>2. k \in 0 .. n /\ f[k] # g[k]
      BY <2>1
    <2>3. f[k] = IF k = 0 THEN base ELSE NextPointer(f[k - 1])
      BY <1>4, <2>2
    <2>4. k # 0
      BY <1>2, <2>2, <2>3
    <2>5. k \in 1 .. n /\ k - 1 \in 0 .. n /\ ~(k <= k - 1)
      BY <2>2, <2>4
    <2>6. f[k - 1] = g[k - 1]
      BY <2>1, <2>5
    <2> QED
      BY <2>2, <2>3, <2>4, <2>5, <2>6
  <1>5. \A f : Is(f) => f = g
    <2> SUFFICES ASSUME NEW f, Is(f) PROVE f = g
      OBVIOUS
    <2>1. \A i \in 0 .. n : f[i] = g[i]
      BY <1>4
    <2>2. f = [i \in 0 .. n |-> f[i]]
      OBVIOUS
    <2> HIDE DEF Is
    <2>3. [i \in 0 .. n |-> f[i]] = [i \in 0 .. n |-> g[i]]
      BY <2>1
    <2> QED
      BY <2>2, <2>3
  <1> HIDE DEF Is
  <1> QED
    BY <1>1, <1>3, <1>5

\* The length field of the i-th string, the pointer to the string, and the
\* state of scl_get_value after k strings.
Field(v, b, i) == (b + 5 + EndOf(Coded(v), i - 1)) .. (b + 8 + EndOf(Coded(v), i - 1))
Pointer(v, b, i) == IF StrLen(v.object[i]) = 0 THEN NULL ELSE StringBase(v, b, i) + 1
Cleared(v, d, b, k) ==
    [i \in DOMAIN d |-> IF \E j \in 1 .. k : i \in Field(v, b, j) THEN 0 ELSE d[i]]
After(v, d, b, k) ==
    [retval |-> [i \in 1 .. k |-> Pointer(v, b, i)],
     pdata |-> Cleared(v, d, b, k),
     pcursor |-> b + 5 + EndOf(Coded(v), k)]

LEMMA ClearedFacts ==
  ASSUME NEW v, NEW d \in Seq(Byte), NEW b, NEW k
  PROVE  /\ Cleared(v, d, b, k) \in Seq(Byte) /\ Len(Cleared(v, d, b, k)) = Len(d)
         /\ \A i \in 1 .. Len(d) :
               Cleared(v, d, b, k)[i] = IF \E j \in 1 .. k : i \in Field(v, b, j) THEN 0 ELSE d[i]
  <1> DEFINE In(i) == \E j \in 1 .. k : i \in Field(v, b, j)
  <1>1. Cleared(v, d, b, k) = [i \in 1 .. Len(d) |-> IF In(i) THEN 0 ELSE d[i]]
    BY DEF Cleared
  <1>2. 0 \in Byte /\ \A i \in 1 .. Len(d) : d[i] \in Byte
    <2>1. 0 \in Byte
      BY DEF Byte
    <2>2. \A i \in 1 .. Len(d) : d[i] \in Byte
      OBVIOUS
    <2> QED
      BY <2>1, <2>2
  <1> HIDE DEF In
  <1>3. \A i \in 1 .. Len(d) : (IF In(i) THEN 0 ELSE d[i]) \in Byte
    BY <1>2
  <1>4. Len(d) \in Nat
    OBVIOUS
  <1>5. Cleared(v, d, b, k) \in Seq(Byte) /\ Len(Cleared(v, d, b, k)) = Len(d)
    BY <1>1, <1>3, <1>4
  <1>6. \A i \in 1 .. Len(d) : Cleared(v, d, b, k)[i] = IF In(i) THEN 0 ELSE d[i]
    BY <1>1
  <1> QED
    BY <1>5, <1>6 DEF In

\* One string more.
LEMMA AfterNext ==
  ASSUME NEW v \in Values, v.type = "SCL_STRING_A", NEW d \in Seq(Byte), NEW b \in Nat,
         Holds(d, b, Written(v)), QueuedLen(v) <= INT_MAX, NEW k \in 1 .. v.array_len
  PROVE  After(v, d, b, k) = NextPointer(After(v, d, b, k - 1))
  <1> DEFINE n == v.array_len
             C(i) == EndOf(Coded(v), i)
             l == StrLen(v.object[k])
             e == C(k - 1)
             c == Cleared(v, d, b, k - 1)
             D == Len(d)
  <1>1. /\ n \in Nat /\ (\A i \in 0 .. n : C(i) \in Nat)
        /\ (\A i, j \in 0 .. n : i <= j => C(i) <= C(j))
        /\ \A i \in 1 .. n : /\ StrLen(v.object[i]) \in 0 .. INT_MAX
                             /\ C(i) = (C(i - 1) + 4) + StrLen(v.object[i])
                             /\ Holds(d, b + 4 + C(i - 1), Word(StrLen(v.object[i])))
    BY StringsLaid
  <1>2. /\ k \in 1 .. n /\ k - 1 \in 0 .. n /\ e \in Nat /\ l \in 0 .. INT_MAX /\ l \in Nat
        /\ C(k) = (e + 4) + l /\ Holds(d, b + 4 + e, Word(l))
    <2>1. n \in Nat
      BY <1>1
    <2>2. k \in 1 .. n /\ k - 1 \in 0 .. n
      <3>1. k \in 1 .. n
        OBVIOUS
      <3> HIDE DEF n
      <3> QED
        BY <2>1, <3>1
    <2>3. e \in Nat
      <3> HIDE DEF n, C
      <3> QED
        BY <1>1, <2>2
    <2>4. /\ l \in 0 .. INT_MAX
          /\ C(k) = (e + 4) + l /\ Holds(d, b + 4 + e, Word(l))
      BY <1>1, <2>2
    <2>5. l \in Nat
      <3> HIDE DEF l
      <3> QED
        BY <2>4, IntMax
    <2> QED
      BY <2>2, <2>3, <2>4, <2>5
  <1>3. \A j \in 1 .. k - 1 : C(j - 1) \in Nat /\ C(j - 1) + 4 <= e
    <2> SUFFICES ASSUME NEW j \in 1 .. k - 1 PROVE C(j - 1) \in Nat /\ C(j - 1) + 4 <= e
      OBVIOUS
    <2>1. j \in 1 .. n /\ j \in 0 .. n /\ j - 1 \in 0 .. n /\ j <= k - 1
      <3>1. n \in Nat /\ k \in 1 .. n
        BY <1>1, <1>2
      <3> HIDE DEF n
      <3> QED
        BY <3>1
    <2>2. C(j - 1) \in Nat /\ C(j) <= e /\ C(j) = (C(j - 1) + 4) + StrLen(v.object[j])
          /\ StrLen(v.object[j]) \in Nat /\ C(j) \in Nat
      <3>1. /\ C(j - 1) \in Nat /\ C(j) \in Nat /\ C(j) = (C(j - 1) + 4) + StrLen(v.object[j])
            /\ StrLen(v.object[j]) \in 0 .. INT_MAX
        BY <1>1, <2>1
      <3>2. C(j) <= e
        <4> HIDE DEF n, C, l
        <4> QED
          BY <1>1, <1>2, <2>1
      <3>3. StrLen(v.object[j]) \in Nat
        BY <3>1, IntMax
      <3> QED
        BY <3>1, <3>2, <3>3
    <2> DEFINE x == StrLen(v.object[j])
               y == C(j - 1)
               z == C(j)
    <2> HIDE DEF x, y, z, e
    <2>3. x \in Nat /\ y \in Nat /\ z \in Nat /\ z <= e /\ z = (y + 4) + x
      BY <2>2 DEF x, y, z
    <2>4. e \in Nat
      BY <1>2
    <2>5. y \in Nat /\ y + 4 <= e
      BY <2>3, <2>4
    <2> QED
      BY <2>5 DEF y, e
  <1>4. Len(Word(l)) = 4 /\ Word(l) \in Seq(Byte)
    BY <1>2, WordBytes
  <1>5. /\ c \in Seq(Byte) /\ Len(c) = D /\ D \in Nat
        /\ \A i \in 1 .. D :
              c[i] = IF \E j \in 1 .. k - 1 : i \in Field(v, b, j) THEN 0 ELSE d[i]
    BY ClearedFacts
  <1>6. b + 4 + e + 4 <= D /\ \A j \in 1 .. 4 : d[(b + 4 + e) + j] = Word(l)[j]
    BY <1>2, <1>4 DEF Holds
  <1>7. \A j \in 1 .. k - 1 : Field(v, b, j) = (b + 5 + C(j - 1)) .. (b + 8 + C(j - 1))
    BY DEF Field
  <1>8. Field(v, b, k) = (b + 5 + e) .. (b + 8 + e)
    BY DEF Field
  <1> HIDE DEF c, D
  <1>9. Unword(c, (b + 4 + e) + 1) = l
    <2>1. \A j \in 1 .. 4 : c[(b + 4 + e) + j] = Word(l)[j]
      <3> SUFFICES ASSUME NEW j \in 1 .. 4 PROVE c[(b + 4 + e) + j] = Word(l)[j]
        OBVIOUS
      <3>1. (b + 4 + e) + j \in 1 .. D
        <4> HIDE DEF e, l
        <4> QED
          BY <1>2, <1>5, <1>6
      <3>2. \A i \in 1 .. k - 1 : (b + 4 + e) + j \notin Field(v, b, i)
        <4> SUFFICES ASSUME NEW i \in 1 .. k - 1 PROVE (b + 4 + e) + j \notin Field(v, b, i)
          OBVIOUS
        <4> DEFINE y == C(i - 1)
        <4>1. y \in Nat /\ y + 4 <= e /\ Field(v, b, i) = (b + 5 + y) .. (b + 8 + y)
          BY <1>3, <1>7
        <4> HIDE DEF y, e, l
        <4> QED
          BY <1>2, <4>1
      <3> QED
        BY <1>5, <1>6, <3>1, <3>2
    <2>2. Holds(c, b + 4 + e, Word(l))
      BY <1>4, <1>5, <1>6, <2>1 DEF Holds
    <2>3. b + 4 + e \in Nat
      <3> HIDE DEF e, l
      <3> QED
        BY <1>2
    <2> DEFINE p == b + 4 + e
    <2>4. p \in Nat /\ Holds(c, p, Word(l))
      BY <2>2, <2>3
    <2> HIDE DEF p, l
    <2>5. Unword(c, p + 1) = l
      BY <1>2, <1>5, <2>4, UnwordReads
    <2> QED
      BY <2>5 DEF p
  <1>10. Zeroed(c, b + 5 + e, 4) = Cleared(v, d, b, k)
    <2> DEFINE z == Zeroed(c, b + 5 + e, 4)
               u == Cleared(v, d, b, k)
    <2>1. /\ z \in Seq(Byte) /\ Len(z) = D
          /\ \A i \in 1 .. D : z[i] = IF i \in (b + 5 + e) .. (b + 5 + e) + 4 - 1 THEN 0 ELSE c[i]
      <3>1. b + 5 + e \in Nat /\ 4 \in Nat
        <4> HIDE DEF e, l
        <4> QED
          BY <1>2
      <3> QED
        BY <1>5, <3>1, ZeroedFacts
    <2>2. /\ u \in Seq(Byte) /\ Len(u) = D
          /\ \A i \in 1 .. D : u[i] = IF \E j \in 1 .. k : i \in Field(v, b, j) THEN 0 ELSE d[i]
      BY ClearedFacts DEF D
    <2> HIDE DEF z, u
    <2>3. (b + 5 + e) .. (b + 5 + e) + 4 - 1 = Field(v, b, k)
      <3>1. (b + 5 + e) + 4 - 1 = b + 8 + e
        <4> HIDE DEF e, l
        <4> QED
          BY <1>2
      <3> QED
        BY <1>8, <3>1
    <2>4. \A i : (\E j \in 1 .. k : i \in Field(v, b, j))
                    <=> i \in Field(v, b, k) \/ \E j \in 1 .. k - 1 : i \in Field(v, b, j)
      <3>1. 1 .. k = (1 .. k - 1) \cup {k}
        BY <1>1, <1>2
      <3> QED
        BY <3>1
    <2>5. \A i \in 1 .. D : z[i] = u[i]
      BY <1>5, <2>1, <2>2, <2>3, <2>4
    <2>6. z = [i \in 1 .. D |-> z[i]] /\ u = [i \in 1 .. D |-> u[i]]
      BY <2>1, <2>2
    <2>7. [i \in 1 .. D |-> z[i]] = [i \in 1 .. D |-> u[i]]
      BY <2>5
    <2>8. z = u
      BY <2>6, <2>7, Zenon
    <2> QED
      BY <2>8 DEF z, u
  <1>11. Append([i \in 1 .. k - 1 |-> Pointer(v, b, i)], IF l = 0 THEN NULL ELSE b + 9 + e)
           = [i \in 1 .. k |-> Pointer(v, b, i)]
    <2>1. Pointer(v, b, k) = IF l = 0 THEN NULL ELSE b + 9 + e
      <3>1. (b + 8 + e) + 1 = b + 9 + e
        <4> HIDE DEF e, l
        <4> QED
          BY <1>2
      <3> QED
        BY <3>1 DEF Pointer, StringBase
    <2>2. k - 1 \in Nat /\ (k - 1) + 1 = k
      BY <1>1, <1>2
    <2> DEFINE P(i) == Pointer(v, b, i)
    <2> HIDE DEF P
    <2>3. ASSUME NEW m \in Nat PROVE Append([i \in 1 .. m |-> P(i)], P(m + 1)) = [i \in 1 .. m + 1 |-> P(i)]
      OBVIOUS
    <2>4. Append([i \in 1 .. k - 1 |-> P(i)], P(k)) = [i \in 1 .. k |-> P(i)]
      BY <2>2, <2>3
    <2> QED
      BY <2>1, <2>4 DEF P
  <1>12. NextPointer(After(v, d, b, k - 1)) =
           [retval |-> Append([i \in 1 .. k - 1 |-> Pointer(v, b, i)], IF l = 0 THEN NULL ELSE b + 9 + e),
            pdata |-> Zeroed(c, b + 5 + e, 4),
            pcursor |-> (b + 9 + e) + l]
    <2>1. After(v, d, b, k - 1) = [retval |-> [i \in 1 .. k - 1 |-> Pointer(v, b, i)],
                                   pdata |-> c, pcursor |-> b + 5 + e]
      BY DEF After, c
    <2>2. (b + 4 + e) + 1 = b + 5 + e /\ (b + 5 + e) + 4 = b + 9 + e
      <3> HIDE DEF e, l
      <3> QED
        BY <1>2
    <2> HIDE DEF e, l
    <2>3. Unword(c, b + 5 + e) = l
      BY <1>9, <2>2
    <2> DEFINE a == After(v, d, b, k - 1)
               q == b + 5 + e
               r == [i \in 1 .. k - 1 |-> Pointer(v, b, i)]
    <2>4. a.retval = r /\ a.pdata = c /\ a.pcursor = q
      BY <2>1
    <2>5. Unword(c, q) = l /\ q + 4 = b + 9 + e
      BY <2>2, <2>3
    <2> HIDE DEF a, q, r
    <2>6. NextPointer(a) = [retval |-> Append(r, IF l = 0 THEN NULL ELSE q + 4),
                            pdata |-> Zeroed(c, q, 4), pcursor |-> (q + 4) + l]
      BY <2>4, <2>5 DEF NextPointer, SCL_LEN_LEN
    <2>7. NextPointer(a) = [retval |-> Append(r, IF l = 0 THEN NULL ELSE b + 9 + e),
                            pdata |-> Zeroed(c, q, 4), pcursor |-> (b + 9 + e) + l]
      BY <2>5, <2>6
    <2> QED
      BY <2>7 DEF a, q, r
  <1>13. (b + 9 + e) + l = b + 5 + C(k)
    <2> DEFINE z == C(k)
    <2>1. z = (e + 4) + l
      BY <1>2
    <2> HIDE DEF z, e, l
    <2>2. (b + 9 + e) + l = b + 5 + z
      BY <1>2, <2>1
    <2> QED
      BY <2>2 DEF z
  <1> QED
    BY <1>10, <1>11, <1>12, <1>13 DEF After

LEMMA TakesStrings ==
  ASSUME NEW v \in Values, v.type = "SCL_STRING_A", NEW d \in Seq(Byte), NEW b \in Nat,
         Holds(d, b, Written(v)), QueuedLen(v) <= INT_MAX
  PROVE  Takes(v, d, b, Got(v.type, d, b + 1))
  <1> DEFINE n == v.array_len
             C(i) == EndOf(Coded(v), i)
             l(i) == StrLen(v.object[i])
             all == After(v, d, b, n)
             c == Cleared(v, d, b, n)
             z == Zeroed(c, b + 5 + C(n), 1)
             D == Len(d)
  <1>1. /\ n \in Nat /\ Unword(d, b + 1) = n
        /\ C(0) = 0 /\ (\A i \in 0 .. n : C(i) \in Nat)
        /\ (\A i, j \in 0 .. n : i <= j => C(i) <= C(j))
        /\ (\A i \in 1 .. n : /\ v.object[i] \in CString
                              /\ C(i) = (C(i - 1) + 4) + l(i)
                              /\ Holds(d, b + 8 + C(i - 1), Text(v.object[i])))
        /\ QueuedLen(v) = 5 + C(n) /\ b + 5 + C(n) <= D
    BY StringsLaid
  <1>2. n \in 0 .. n /\ C(n) \in Nat /\ D \in Nat
    <2>1. n \in 0 .. n
      BY <1>1
    <2> QED
      BY <1>1, <2>1
  <1> HIDE DEF n
  <1>3. Run(d, b + 1, n) = [k \in 0 .. n |-> After(v, d, b, k)]
    <2> DEFINE g == [k \in 0 .. n |-> After(v, d, b, k)]
    <2>1. DOMAIN g = 0 .. n /\ g = [k \in 0 .. n |-> g[k]]
      OBVIOUS
    <2>2. g[0] = [retval |-> <<>>, pdata |-> d, pcursor |-> (b + 1) + SCL_LEN_LEN]
      <3>1. 0 \in 0 .. n /\ 1 .. 0 = {}
        BY <1>1
      <3>2. Cleared(v, d, b, 0) = d
        <4>1. Cleared(v, d, b, 0) = [i \in DOMAIN d |-> d[i]]
          BY <3>1 DEF Cleared
        <4> QED
          BY <4>1
      <3>3. b + 5 + C(0) = (b + 1) + SCL_LEN_LEN
        BY <1>1 DEF SCL_LEN_LEN
      <3>4. [i \in 1 .. 0 |-> Pointer(v, b, i)] = <<>>
        BY <3>1
      <3> QED
        BY <3>1, <3>2, <3>3, <3>4 DEF After
    <2>3. \A k \in 1 .. n : g[k] = NextPointer(g[k - 1])
      <3> SUFFICES ASSUME NEW k \in 1 .. n PROVE g[k] = NextPointer(g[k - 1])
        OBVIOUS
      <3>1. k \in 0 .. n /\ k - 1 \in 0 .. n
        BY <1>1
      <3>2. After(v, d, b, k) = NextPointer(After(v, d, b, k - 1))
        BY AfterNext DEF n
      <3> QED
        BY <3>1, <3>2
    <2> HIDE DEF g
    <2>4. Run(d, b + 1, n) = g
      BY <1>1, <2>1, <2>2, <2>3, RunIs
    <2> QED
      BY <2>4 DEF g
  <1>4. Got(v.type, d, b + 1) =
          [retval |-> [i \in 1 .. n |-> Pointer(v, b, i)], pdata |-> z, pcursor |-> (b + 5 + C(n)) + 1]
    <2>1. Got(v.type, d, b + 1) = GetStrings(d, b + 1)
      BY TypeFacts, TypesApart DEF Got
    <2>2. Run(d, b + 1, n)[n] = all
      BY <1>2, <1>3
    <2>3. GetStrings(d, b + 1) = [retval |-> all.retval, pdata |-> Zeroed(all.pdata, all.pcursor, 1),
                                  pcursor |-> all.pcursor + 1]
      <3> DEFINE u == Unword(d, b + 1)
      <3>1. u \in Nat /\ Run(d, b + 1, u)[u] = all
        BY <1>1, <2>2
      <3> QED
        BY <3>1, StringsRun
    <2>4. all.retval = [i \in 1 .. n |-> Pointer(v, b, i)] /\ all.pdata = c /\ all.pcursor = b + 5 + C(n)
      BY DEF After
    <2> HIDE DEF all, c
    <2> QED
      BY <2>1, <2>3, <2>4
  <1> DEFINE In(i) == \E j \in 1 .. n : i \in Field(v, b, j)
  <1>5. c \in Seq(Byte) /\ Len(c) = D /\ \A i \in 1 .. D : c[i] = IF In(i) THEN 0 ELSE d[i]
    BY ClearedFacts
  <1>6. /\ z \in Seq(Byte) /\ Len(z) = D
        /\ \A i \in 1 .. D : z[i] = IF i = b + 5 + C(n) \/ In(i) THEN 0 ELSE d[i]
    <2> DEFINE q == b + 5 + C(n)
    <2>1. q \in Nat /\ 1 \in Nat
      BY <1>2
    <2> HIDE DEF c, In, q
    <2>2. /\ Zeroed(c, q, 1) \in Seq(Byte) /\ Len(Zeroed(c, q, 1)) = D
          /\ \A i \in 1 .. D : Zeroed(c, q, 1)[i] = IF i \in q .. q + 1 - 1 THEN 0 ELSE c[i]
      BY <1>5, <2>1, ZeroedFacts
    <2>3. \A i \in 1 .. D : Zeroed(c, q, 1)[i] = IF i = q \/ In(i) THEN 0 ELSE d[i]
      BY <1>5, <2>1, <2>2
    <2> QED
      BY <2>2, <2>3 DEF q
  <1> HIDE DEF z, c
  <1>7. \A j \in 1 .. n : Field(v, b, j) = (b + 5 + C(j - 1)) .. (b + 8 + C(j - 1))
    BY DEF Field
  <1>8. \A j \in 1 .. n : /\ j - 1 \in 0 .. n /\ j \in 0 .. n
                          /\ C(j - 1) \in Nat /\ C(j) \in Nat /\ l(j) \in Nat
                          /\ C(j) = (C(j - 1) + 4) + l(j) /\ C(j) <= C(n)
                          /\ l(j) = Len(Text(v.object[j]))
    <2> SUFFICES ASSUME NEW j \in 1 .. n
                 PROVE  /\ j - 1 \in 0 .. n /\ j \in 0 .. n
                        /\ C(j - 1) \in Nat /\ C(j) \in Nat /\ l(j) \in Nat
                        /\ C(j) = (C(j - 1) + 4) + l(j) /\ C(j) <= C(n)
                        /\ l(j) = Len(Text(v.object[j]))
      OBVIOUS
    <2>1. j - 1 \in 0 .. n /\ j \in 0 .. n /\ j <= n
      BY <1>1
    <2>2. l(j) \in Nat /\ l(j) = Len(Text(v.object[j]))
      BY <1>1, TextFacts
    <2> HIDE DEF C
    <2> QED
      BY <1>1, <1>2, <2>1, <2>2
  <1>9. ASSUME NEW i \in 1 .. D, i <= b \/ i > b + QueuedLen(v) PROVE z[i] = d[i]
    <2>1. i # b + 5 + C(n)
      BY <1>1, <1>2, <1>9
    <2>2. ~In(i)
      <3> SUFFICES ASSUME NEW j \in 1 .. n PROVE i \notin Field(v, b, j)
        OBVIOUS
      <3> DEFINE x == C(j - 1)
                 y == C(j)
                 m == C(n)
                 k == l(j)
      <3>1. x \in Nat /\ y = (x + 4) + k /\ y <= m /\ Field(v, b, j) = (b + 5 + x) .. (b + 8 + x)
        BY <1>7, <1>8
      <3>2. i <= b \/ i > b + (5 + m)
        BY <1>1, <1>9
      <3>3. m \in Nat /\ y \in Nat /\ k \in Nat
        BY <1>2, <1>8
      <3> HIDE DEF x, y, m, k
      <3> QED
        BY <3>1, <3>2, <3>3
    <2> HIDE DEF In, C
    <2> QED
      BY <1>6, <2>1, <2>2
  <1>10. ASSUME NEW i \in 1 .. n PROVE HoldsText(z, b + 8 + C(i - 1), Text(v.object[i]))
    <2> DEFINE t == Text(v.object[i])
               x == C(i - 1)
               k == l(i)
               m == C(n)
    <2>1. x \in Nat /\ k \in Nat /\ m \in Nat /\ C(i) = (x + 4) + k /\ (x + 4) + k <= m /\ k = Len(t)
      BY <1>2, <1>8
    <2>2. \A j \in 1 .. k : d[(b + 8 + x) + j] = t[j]
      BY <1>1, <2>1 DEF Holds
    <2>3. ASSUME NEW j \in 1 .. k PROVE z[(b + 8 + x) + j] = t[j]
      <3> DEFINE q == (b + 8 + x) + j
      <3>1. q \in 1 .. D /\ q # b + 5 + m
        <4>1. b + 5 + m <= D
          BY <1>1
        <4> HIDE DEF x, k, m, D
        <4> QED
          BY <1>2, <2>1, <4>1
      <3>2. ~In(q)
        <4> SUFFICES ASSUME NEW o \in 1 .. n PROVE q \notin Field(v, b, o)
          OBVIOUS
        <4> DEFINE w == C(o - 1)
        <4>1. w \in Nat /\ Field(v, b, o) = (b + 5 + w) .. (b + 8 + w)
          BY <1>7, <1>8
        <4>2. CASE o <= i
          <5>1. w <= x
            <6>1. o - 1 \in 0 .. n /\ i - 1 \in 0 .. n /\ o - 1 <= i - 1
              BY <1>1, <4>2
            <6> HIDE DEF C
            <6> QED
              BY <1>1, <6>1
          <5> HIDE DEF w, x, k, m
          <5> QED
            BY <2>1, <4>1, <5>1
        <4>3. CASE ~(o <= i)
          <5>1. (x + 4) + k <= w
            <6>1. i \in 0 .. n /\ o - 1 \in 0 .. n /\ i <= o - 1
              BY <1>1, <4>3
            <6> HIDE DEF C
            <6> QED
              BY <1>1, <2>1, <6>1
          <5> HIDE DEF w, x, k, m
          <5> QED
            BY <2>1, <4>1, <5>1
        <4> QED
          BY <4>2, <4>3
      <3> HIDE DEF In, q, D
      <3>3. z[q] = d[q]
        BY <1>6, <3>1, <3>2
      <3> QED
        BY <2>2, <3>3 DEF q
    <2>4. z[(b + 8 + x) + k + 1] = 0
      <3> DEFINE q == (b + 8 + x) + k + 1
      <3>1. q \in 1 .. D
        <4>1. b + 5 + m <= D
          BY <1>1
        <4> HIDE DEF x, k, m, D
        <4> QED
          BY <1>2, <2>1, <4>1
      <3>2. q = b + 5 + C(i)
        <4> DEFINE y == C(i)
        <4>1. y = (x + 4) + k
          BY <2>1
        <4> HIDE DEF x, k, y
        <4> QED
          BY <2>1, <4>1
      <3>3. CASE i = n
        <4> HIDE DEF In, q, D
        <4> QED
          BY <1>6, <3>1, <3>2, <3>3 DEF q
      <3>4. CASE i # n
        <4>1. i + 1 \in 1 .. n /\ (i + 1) - 1 = i
          BY <1>1, <3>4
        <4>2. Field(v, b, i + 1) = (b + 5 + C(i)) .. (b + 8 + C(i)) /\ C(i) \in Nat
          BY <1>7, <1>8, <4>1
        <4>3. q \in Field(v, b, i + 1)
          <5> DEFINE y == C(i)
          <5>1. y \in Nat /\ q = b + 5 + y /\ Field(v, b, i + 1) = (b + 5 + y) .. (b + 8 + y)
            BY <3>2, <4>2
          <5> HIDE DEF y, q
          <5> QED
            BY <5>1
        <4>4. In(q)
          BY <4>1, <4>3
        <4> HIDE DEF In, q, D
        <4> QED
          BY <1>6, <3>1, <4>4 DEF q
      <3> QED
        BY <3>3, <3>4
    <2> QED
      BY <2>1, <2>3, <2>4 DEF HoldsText
  <1>11. Denotes(v, [i \in 1 .. n |-> Pointer(v, b, i)], z, b)
    <2>1. v.type \notin Scalars /\ v.type \notin Arrays /\ v.type # "SCL_STRING"
      BY TypesApart
    <2>2. [i \in 1 .. n |-> Pointer(v, b, i)]
            = [i \in 1 .. v.array_len |->
                 IF StrLen(v.object[i]) = 0 THEN NULL ELSE StringBase(v, b, i) + 1]
      BY DEF Pointer, n
    <2>3. \A i \in 1 .. v.array_len : HoldsText(z, StringBase(v, b, i), Text(v.object[i]))
      BY <1>10 DEF StringBase, n
    <2> QED
      BY <2>1, <2>2, <2>3 DEF Denotes
  <1>12. (b + 5 + C(n)) + 1 = (b + 1) + QueuedLen(v)
    BY <1>1, <1>2
  <1> QED
    <2> DEFINE r == [i \in 1 .. n |-> Pointer(v, b, i)]
               q == (b + 5 + C(n)) + 1
    <2> HIDE DEF r, q
    <2>1. Got(v.type, d, b + 1) = [retval |-> r, pdata |-> z, pcursor |-> q]
      BY <1>4 DEF r, q
    <2>2. Denotes(v, r, z, b) /\ q = (b + 1) + QueuedLen(v)
      BY <1>11, <1>12 DEF r, q
    <2> QED
      BY <1>6, <1>9, <2>1, <2>2 DEF Takes

LEMMA TakesValue ==
  ASSUME NEW v \in Values, NEW d \in Seq(Byte), NEW b \in Nat,
         Holds(d, b, Written(v)), QueuedLen(v) <= INT_MAX
  PROVE  Takes(v, d, b, Got(v.type, d, b + 1))
  <1>1. v.type \in Scalars \cup {"SCL_STRING"} \cup Arrays \cup {"SCL_STRING_A"}
    BY CodecAssumption, TypeFacts DEF CodecAssumption
  <1> QED
    BY <1>1, TakesScalar, TakesArray, TakesString, TakesStrings

-----------------------------------------------------------------------------
(* What the pointers denote.                                               *)

LEMMA CodedFacts ==
  ASSUME NEW v \in Values, v.type = "SCL_STRING_A"
  PROVE  LET n == v.array_len
             C(i) == EndOf(Coded(v), i)
         IN  /\ n \in Nat /\ QueuedLen(v) = 5 + C(n)
             /\ \A i \in 1 .. n : /\ v.object[i] \in CString
                                  /\ C(i - 1) \in Nat
                                  /\ (C(i - 1) + 4) + Len(Text(v.object[i])) <= C(n)
             /\ C(n) \in Nat
  <1> DEFINE n == v.array_len
             c == Coded(v)
             C(i) == EndOf(c, i)
  <1>1. /\ n \in Nat /\ c \in Seq(Seq(Byte)) /\ Len(c) = n /\ QueuedLen(v) = 5 + Len(FlattenSeq(c))
        /\ v.object = NULL => n = 0
        /\ v.object # NULL => v.object \in Seq(CString) /\ Len(v.object) = n
    BY StringsShape
  <1>2. \A i \in 1 .. n : c[i] = WithLength(v.object[i])
    BY DEF Coded
  <1> HIDE DEF n, c
  <1>3. /\ (\A i \in 0 .. n : C(i) \in Nat)
        /\ (\A i \in 1 .. n : C(i) = C(i - 1) + Len(c[i]))
        /\ (\A i, j \in 0 .. n : i <= j => C(i) <= C(j)) /\ Len(FlattenSeq(c)) = C(n)
    BY <1>1, EndFacts
  <1> HIDE DEF C
  <1>4. ASSUME NEW i \in 1 .. n
        PROVE  /\ v.object[i] \in CString /\ C(i - 1) \in Nat
               /\ (C(i - 1) + 4) + Len(Text(v.object[i])) <= C(n)
    <2>1. v.object \in Seq(CString) /\ Len(v.object) = n /\ n \in Nat
      BY <1>1
    <2>2. v.object[i] \in CString
      <3> DEFINE m == v.object
      <3>1. m \in Seq(CString) /\ i \in 1 .. Len(m)
        BY <2>1
      <3> HIDE DEF m
      <3>2. m[i] \in CString
        BY <3>1
      <3> QED
        BY <3>2 DEF m
    <2> DEFINE l == Len(Text(v.object[i]))
    <2>3. Len(c[i]) = 4 + l /\ l \in Nat
      BY <1>2, <2>2, TextFacts
    <2>4. i - 1 \in 0 .. n /\ i \in 0 .. n /\ n \in 0 .. n /\ i <= n
      BY <2>1
    <2> HIDE DEF l
    <2>5. C(i - 1) \in Nat /\ C(i) = C(i - 1) + (4 + l) /\ C(i) <= C(n) /\ C(n) \in Nat
      BY <1>3, <2>3, <2>4
    <2>6. (C(i - 1) + 4) + l <= C(n)
      BY <2>3, <2>5
    <2> QED
      BY <2>2, <2>5, <2>6 DEF l
  <1>5. C(n) \in Nat
    BY <1>1, <1>3
  <1> QED
    BY <1>1, <1>3, <1>4, <1>5 DEF n, c, C

LEMMA SubSeqIs ==
  ASSUME NEW d \in Seq(Byte), NEW b \in Nat, NEW t \in Seq(Byte), b + Len(t) <= Len(d),
         \A j \in 1 .. Len(t) : d[b + j] = t[j]
  PROVE  SubSeq(d, b + 1, (b + 1) + Len(t) - 1) = t
  <1> DEFINE m == Len(t)
             s == SubSeq(d, b + 1, b + m)
  <1>1. m \in Nat /\ b + m <= Len(d)
    OBVIOUS
  <1>2. (b + 1) + m - 1 = b + m
    BY <1>1
  <1>3. s \in Seq(Byte) /\ Len(s) = m /\ \A j \in 1 .. m : s[j] = d[b + j]
    <2>1. b + 1 \in Int /\ b + m \in Int /\ \A i \in b + 1 .. b + m : d[i] \in Byte
      BY <1>1
    <2> HIDE DEF m
    <2>2. /\ s \in Seq(Byte) /\ Len(s) = IF b + 1 <= b + m THEN (b + m) - (b + 1) + 1 ELSE 0
          /\ \A i \in 1 .. (b + m) - (b + 1) + 1 : s[i] = d[(b + 1) + i - 1]
      BY <2>1, SubSeqProperties
    <2>3. Len(s) = m
      BY <1>1, <2>2
    <2>4. ASSUME NEW j \in 1 .. m PROVE s[j] = d[b + j]
      <3>1. j \in 1 .. (b + m) - (b + 1) + 1 /\ (b + 1) + j - 1 = b + j
        BY <1>1
      <3> HIDE DEF s
      <3> QED
        BY <2>2, <3>1
    <2> QED
      BY <2>2, <2>3, <2>4
  <1>4. s = t
    <2> HIDE DEF s
    <2>1. \A j \in 1 .. m : s[j] = t[j]
      BY <1>3
    <2>2. t = [j \in 1 .. m |-> t[j]]
      OBVIOUS
    <2> HIDE DEF m
    <2>3. s = [j \in 1 .. m |-> s[j]]
      BY <1>3
    <2>4. [j \in 1 .. m |-> s[j]] = [j \in 1 .. m |-> t[j]]
      BY <2>1
    <2> QED
      BY <2>2, <2>3, <2>4, Zenon
  <1> QED
    BY <1>2, <1>4

LEMMA StringAtIs ==
  ASSUME NEW d \in Seq(Byte), NEW b \in Nat, NEW t \in Seq(1 .. 255),
         (b + Len(t)) + 1 <= Len(d), HoldsText(d, b, t)
  PROVE  StringAt(d, b + 1) = t
  <1> DEFINE m == Len(t)
             ends == {q \in b + 1 .. Len(d) : d[q] = 0}
             e == b + m + 1
  <1>1. m \in Nat /\ e <= Len(d) /\ Len(d) \in Nat
    OBVIOUS
  <1>2. d[e] = 0 /\ \A j \in 1 .. m : d[b + j] = t[j] /\ t[j] # 0
    <2>1. d[b + Len(t) + 1] = 0 /\ \A j \in 1 .. Len(t) : d[b + j] = t[j]
      BY DEF HoldsText
    <2>2. \A j \in 1 .. Len(t) : t[j] \in 1 .. 255
      <3>1. \A S, u : u \in Seq(S) => \A j \in 1 .. Len(u) : u[j] \in S
        OBVIOUS
      <3> QED
        BY <3>1, Zenon
    <2>3. \A x \in 1 .. 255 : x # 0
      OBVIOUS
    <2> QED
      BY <2>1, <2>2, <2>3, Zenon
  <1>3. e \in ends
    BY <1>1, <1>2
  <1>4. \A q \in ends : e <= q
    <2> SUFFICES ASSUME NEW q \in ends, ~(e <= q) PROVE FALSE
      OBVIOUS
    <2>1. q - b \in 1 .. m /\ b + (q - b) = q
      BY <1>1
    <2>2. d[q] = 0
      OBVIOUS
    <2> QED
      BY <1>2, <2>1, <2>2
  <1>5. ends \subseteq Nat
    OBVIOUS
  <1> HIDE DEF ends
  <1>6. Min(ends) = e
    <2>1. Min(ends) \in ends /\ \A q \in ends : Min(ends) <= q
      <3> DEFINE Least(x) == x \in ends /\ \A q \in ends : x <= q
      <3>1. Min(ends) = CHOOSE x : Least(x)
        BY DEF Min
      <3>2. Least(e)
        BY <1>3, <1>4
      <3> HIDE DEF Least
      <3>3. Least(Min(ends))
        BY <3>1, <3>2, Zenon
      <3> QED
        BY <3>3 DEF Least
    <2> HIDE DEF e
    <2>2. Min(ends) <= e /\ e <= Min(ends) /\ e \in Nat /\ Min(ends) \in Nat
      BY <1>3, <1>4, <1>5, <2>1
    <2> QED
      BY <2>2
  <1>7. b + 1 # NULL
    BY CodecAssumption DEF CodecAssumption
  <1>8. StringAt(d, b + 1) = SubSeq(d, b + 1, e - 1)
    BY <1>3, <1>6, <1>7 DEF StringAt, ends
  <1>9. e - 1 = (b + 1) + m - 1
    BY <1>1
  <1>10. t \in Seq(Byte)
    BY DEF Byte
  <1>11. SubSeq(d, b + 1, (b + 1) + Len(t) - 1) = t
    <2>1. b + Len(t) <= Len(d) /\ \A j \in 1 .. Len(t) : d[b + j] = t[j]
      BY <1>1, <1>2
    <2> QED
      BY <1>10, <2>1, SubSeqIs
  <1> QED
    BY <1>8, <1>9, <1>11

\* A pointer that denotes its value gives it back.
LEMMA DenotesSent ==
  ASSUME NEW v \in Values, NEW d \in Seq(Byte), NEW b \in Nat, NEW r,
         b + QueuedLen(v) <= Len(d), Denotes(v, r, d, b)
  PROVE  Denoted(v, r, d) = Sent(v)
  <1>1. CASE v.type \in Scalars
    <2>1. /\ v.object \in Seq(Byte) /\ Len(v.object) = Width[v.type] /\ QueuedLen(v) = Width[v.type]
      BY <1>1, ScalarShape
    <2>2. r = b + 1 /\ \A j \in 1 .. Len(v.object) : d[b + j] = v.object[j]
      BY <1>1 DEF Denotes
    <2>3. Denoted(v, r, d) = SubSeq(d, b + 1, (b + 1) + Len(v.object) - 1)
      BY <1>1, <2>1, <2>2, TypeFacts, TypesApart DEF Denoted
    <2>4. Sent(v) = v.object
      <3>1. v.object # NULL
        BY <2>1, CodecAssumption DEF CodecAssumption
      <3> QED
        BY <1>1, <3>1, TypesApart DEF Sent
    <2> QED
      BY <2>1, <2>2, <2>3, <2>4, SubSeqIs
  <1>2. CASE v.type \in Arrays
    <2> DEFINE m == Members(v)
    <2>1. /\ m \in Seq(Byte) /\ Len(m) = MemberWidth[v.type] * v.array_len
          /\ QueuedLen(v) = 4 + Len(m) /\ Len(m) \in Nat
      <3>1. m \in Seq(Byte) /\ Len(m) = MemberWidth[v.type] * v.array_len
        BY <1>2, ArrayShape
      <3>2. QueuedLen(v) = 4 + MemberWidth[v.type] * v.array_len
        BY <1>2, ArrayShape
      <3> QED
        BY <3>1, <3>2
    <2>2. r = b + 5 /\ \A j \in 1 .. Len(m) : d[b + 4 + j] = m[j]
      BY <1>2 DEF Denotes
    <2>3. Denoted(v, r, d) = SubSeq(d, b + 5, b + 5 + Len(m) - 1)
      <3>1. v.type \notin DOMAIN Width /\ v.type \in DOMAIN MemberWidth
        BY <1>2, TypeFacts, TypesApart
      <3>2. Denoted(v, r, d) = SubSeq(d, r, r + MemberWidth[v.type] * v.array_len - 1)
        BY <3>1, <1>2, TypesApart DEF Denoted
      <3> QED
        BY <2>1, <2>2, <3>2, Zenon
    <2>4. Sent(v) = m
      <3>1. v.type # "SCL_STRING" /\ v.type # "SCL_STRING_A"
        BY <1>2, TypesApart
      <3>2. \/ v.array_len = 0 /\ v.object = NULL
            \/ v.object \in Seq(Byte) /\ Len(v.object) = MemberWidth[v.type] * v.array_len
        BY <1>2, TypeFacts, TypesApart, CodecAssumption DEF CodecAssumption, WellFormed
      <3>3. CASE v.array_len = 0 /\ v.object = NULL
        BY <3>1, <3>3 DEF Sent, Members
      <3>4. CASE v.object \in Seq(Byte) /\ Len(v.object) = MemberWidth[v.type] * v.array_len
        <4>1. v.object # NULL
          BY <3>4, CodecAssumption DEF CodecAssumption
        <4>2. Sent(v) = v.object
          BY <3>1, <4>1 DEF Sent
        <4>3. v.array_len = 0 => v.object = <<>>
          <5>1. MemberWidth[v.type] \in Nat
            BY <1>2, TypeFacts
          <5>2. v.array_len = 0 => Len(v.object) = 0
            BY <3>4, <5>1
          <5>3. \A s \in Seq(Byte) : Len(s) = 0 => s = <<>>
            OBVIOUS
          <5> QED
            BY <3>4, <5>2, <5>3, Zenon
        <4> QED
          BY <4>2, <4>3 DEF Members
      <3> QED
        BY <3>2, <3>3, <3>4
    <2> HIDE DEF m
    <2>5. SubSeq(d, (b + 4) + 1, ((b + 4) + 1) + Len(m) - 1) = m
      <3>1. b + 4 \in Nat /\ (b + 4) + Len(m) <= Len(d)
        BY <2>1
      <3> QED
        BY <2>1, <2>2, <3>1, SubSeqIs
    <2>6. (b + 4) + 1 = b + 5
      OBVIOUS
    <2> QED
      BY <2>3, <2>4, <2>5, <2>6, Zenon
  <1>3. CASE v.type = "SCL_STRING"
    <2> DEFINE s == v.object
               t == Text(s)
    <2>1. /\ s \in CString /\ QueuedLen(v) = 5 + Len(t) /\ t \in Seq(1 .. 255) /\ Len(t) \in Nat
          /\ StrLen(s) = Len(t) /\ Arrives(s) = IF StrLen(s) = 0 THEN NULL ELSE t
      BY <1>3, StringShape, TextFacts
    <2>2. IF StrLen(s) = 0 THEN r = NULL ELSE r = b + 5 /\ HoldsText(d, b + 4, t)
      BY <1>3 DEF Denotes
    <2>3. Denoted(v, r, d) = StringAt(d, r)
      BY <1>3, TypeFacts, TypesApart DEF Denoted
    <2>4. Sent(v) = Arrives(s)
      BY <1>3 DEF Sent
    <2> HIDE DEF t
    <2>5. CASE StrLen(s) = 0
      BY <2>1, <2>2, <2>3, <2>4, <2>5 DEF StringAt
    <2>6. CASE StrLen(s) # 0
      <3>1. b + 4 \in Nat /\ ((b + 4) + Len(t)) + 1 <= Len(d) /\ (b + 4) + 1 = b + 5
        BY <2>1
      <3>2. StringAt(d, (b + 4) + 1) = t
        BY <2>1, <2>2, <2>6, <3>1, StringAtIs
      <3> QED
        BY <2>1, <2>2, <2>3, <2>4, <2>6, <3>1, <3>2
    <2> QED
      BY <2>5, <2>6
  <1>4. CASE v.type = "SCL_STRING_A"
    <2> DEFINE n == v.array_len
               P(i) == IF StrLen(v.object[i]) = 0 THEN NULL ELSE StringBase(v, b, i) + 1
    <2>1. r = [i \in 1 .. n |-> P(i)] /\ \A i \in 1 .. n :
            StrLen(v.object[i]) # 0 => HoldsText(d, StringBase(v, b, i), Text(v.object[i]))
      BY <1>4 DEF Denotes
    <2>2. \A i \in 1 .. n : StringAt(d, P(i)) = Arrives(v.object[i])
      <3> SUFFICES ASSUME NEW i \in 1 .. n PROVE StringAt(d, P(i)) = Arrives(v.object[i])
        OBVIOUS
      <3> DEFINE s == v.object[i]
                 t == Text(s)
                 e == EndOf(Coded(v), i - 1)
                 m == EndOf(Coded(v), n)
                 q == StringBase(v, b, i)
      <3>1. QueuedLen(v) = 5 + m /\ s \in CString /\ e \in Nat /\ (e + 4) + Len(t) <= m /\ m \in Nat
        BY <1>4, CodedFacts
      <3>2. /\ t \in Seq(1 .. 255) /\ Len(t) \in Nat /\ StrLen(s) = Len(t)
            /\ Arrives(s) = IF StrLen(s) = 0 THEN NULL ELSE t
        BY <3>1, TextFacts
      <3>3. q = b + 8 + e
        BY DEF StringBase
      <3>4. q \in Nat /\ (q + Len(t)) + 1 <= Len(d)
        <4> DEFINE l == Len(t)
        <4>1. l \in Nat /\ (e + 4) + l <= m /\ b + (5 + m) <= Len(d)
          BY <3>1, <3>2
        <4> HIDE DEF e, m, l, q
        <4>2. q \in Nat /\ (q + l) + 1 <= Len(d)
          BY <3>1, <3>3, <4>1
        <4> QED
          BY <4>2 DEF l
      <3>5. CASE StrLen(s) = 0
        BY <3>2, <3>5 DEF StringAt
      <3>6. CASE StrLen(s) # 0
        <4>1. HoldsText(d, q, t)
          BY <2>1, <3>6
        <4> HIDE DEF q, t
        <4>2. StringAt(d, q + 1) = t
          BY <3>2, <3>4, <4>1, StringAtIs
        <4>3. P(i) = q + 1
          BY <3>6 DEF q
        <4> QED
          BY <3>2, <3>6, <4>2, <4>3
      <3> QED
        BY <3>5, <3>6
    <2>3. Denoted(v, r, d) = [i \in 1 .. n |-> StringAt(d, r[i])]
      <3>1. v.type \notin DOMAIN Width /\ v.type \notin DOMAIN MemberWidth /\ v.type # "SCL_STRING"
        BY <1>4, TypeFacts, TypesApart
      <3>2. DOMAIN r = 1 .. n
        BY <2>1
      <3> HIDE DEF n, P
      <3>3. Denoted(v, r, d) = [i \in DOMAIN r |-> StringAt(d, r[i])]
        BY <1>4, <3>1 DEF Denoted
      <3> QED
        BY <3>2, <3>3
    <2>4. Denoted(v, r, d) = [i \in 1 .. n |-> Arrives(v.object[i])]
      <3>1. \A i \in 1 .. n : r[i] = P(i)
        BY <2>1
      <3> HIDE DEF n, P
      <3> QED
        BY <2>2, <2>3, <3>1
    <2>5. Sent(v) = [i \in 1 .. n |-> Arrives(v.object[i])]
      <3>1. v.type # "SCL_STRING"
        BY <1>4, TypesApart
      <3>2. CASE v.object = NULL
        <4>1. n = 0
          BY <1>4, <3>2, StringsShape
        <4>2. Sent(v) = <<>>
          BY <3>1, <3>2 DEF Sent
        <4>3. [i \in 1 .. n |-> Arrives(v.object[i])] = <<>>
          <5> HIDE DEF n
          <5> QED
            BY <4>1
        <4> QED
          BY <4>2, <4>3
      <3>3. CASE v.object # NULL
        <4>1. DOMAIN v.object = 1 .. n
          <5>1. v.object \in Seq(CString) /\ Len(v.object) = n
            BY <1>4, <3>3, StringsShape
          <5> DEFINE o == v.object
          <5>2. o \in Seq(CString) /\ Len(o) = n
            BY <5>1
          <5> HIDE DEF o, n
          <5>3. DOMAIN o = 1 .. n
            BY <5>2
          <5> QED
            BY <5>3 DEF o
        <4>2. Sent(v) = [i \in DOMAIN v.object |-> Arrives(v.object[i])]
          BY <1>4, <3>1, <3>3 DEF Sent
        <4> QED
          BY <4>1, <4>2
      <3> QED
        BY <3>2, <3>3
    <2> QED
      BY <2>4, <2>5
  <1>5. v.type \in Scalars \cup {"SCL_STRING"} \cup Arrays \cup {"SCL_STRING_A"}
    BY CodecAssumption, TypeFacts DEF CodecAssumption
  <1> QED
    BY <1>1, <1>2, <1>3, <1>4, <1>5

\* It goes on denoting it as long as the bytes of the value stay.
LEMMA DenotesStays ==
  ASSUME NEW v \in Values, NEW d, NEW e, NEW b \in Nat, NEW r, Denotes(v, r, d, b),
         \A i \in b + 1 .. b + QueuedLen(v) : e[i] = d[i]
  PROVE  Denotes(v, r, e, b)
  <1>1. \A j \in 1 .. QueuedLen(v) : e[b + j] = d[b + j]
    <2>1. QueuedLen(v) \in Nat
      BY WrittenFacts
    <2> QED
      BY <2>1
  <1>2. CASE v.type \in Scalars
    <2>1. QueuedLen(v) = Len(v.object)
      BY <1>2, ScalarShape
    <2> QED
      BY <1>1, <1>2, <2>1, TypesApart DEF Denotes
  <1>3. CASE v.type \in Arrays
    <2> DEFINE m == Members(v)
    <2>1. QueuedLen(v) = 4 + Len(m) /\ Len(m) \in Nat
      <3>1. m \in Seq(Byte) /\ Len(m) = MemberWidth[v.type] * v.array_len
        BY <1>3, ArrayShape
      <3>2. QueuedLen(v) = 4 + MemberWidth[v.type] * v.array_len
        BY <1>3, ArrayShape
      <3> QED
        BY <3>1, <3>2
    <2>2. r = b + 5 /\ \A j \in 1 .. Len(m) : d[b + 4 + j] = m[j]
      BY <1>3 DEF Denotes
    <2> HIDE DEF m
    <2>3. \A j \in 1 .. Len(m) : e[b + 4 + j] = d[b + 4 + j]
      <3> SUFFICES ASSUME NEW j \in 1 .. Len(m) PROVE e[b + 4 + j] = d[b + 4 + j]
        OBVIOUS
      <3>1. 4 + j \in 1 .. QueuedLen(v) /\ b + (4 + j) = b + 4 + j
        BY <2>1
      <3>2. e[b + (4 + j)] = d[b + (4 + j)]
        BY <1>1, <3>1, Zenon
      <3> QED
        BY <3>1, <3>2, Zenon
    <2>4. r = b + 5 /\ \A j \in 1 .. Len(m) : e[b + 4 + j] = m[j]
      BY <2>2, <2>3
    <2> QED
      BY <1>3, <2>4, TypesApart DEF Denotes, m
  <1>4. CASE v.type = "SCL_STRING"
    <2> DEFINE t == Text(v.object)
    <2>1. QueuedLen(v) = 5 + Len(t) /\ StrLen(v.object) = Len(t) /\ Len(t) \in Nat
      BY <1>4, StringShape, TextFacts
    <2>2. IF StrLen(v.object) = 0 THEN r = NULL ELSE r = b + 5 /\ HoldsText(d, b + 4, t)
      BY <1>4 DEF Denotes
    <2> HIDE DEF t
    <2>3. \A j \in 1 .. Len(t) + 1 : e[(b + 4) + j] = d[(b + 4) + j]
      <3> SUFFICES ASSUME NEW j \in 1 .. Len(t) + 1 PROVE e[(b + 4) + j] = d[(b + 4) + j]
        OBVIOUS
      <3>1. 4 + j \in 1 .. QueuedLen(v) /\ b + (4 + j) = (b + 4) + j
        BY <2>1
      <3>2. e[b + (4 + j)] = d[b + (4 + j)]
        BY <1>1, <3>1, Zenon
      <3> QED
        BY <3>1, <3>2, Zenon
    <2>4. HoldsText(d, b + 4, t) => HoldsText(e, b + 4, t)
      <3>1. \A j \in 1 .. Len(t) : j \in 1 .. Len(t) + 1
        BY <2>1
      <3>2. Len(t) + 1 \in 1 .. Len(t) + 1 /\ (b + 4) + (Len(t) + 1) = (b + 4) + Len(t) + 1
        BY <2>1
      <3> QED
        BY <2>3, <3>1, <3>2 DEF HoldsText
    <2> QED
      BY <1>4, <2>2, <2>4, TypesApart DEF Denotes, t
  <1>5. CASE v.type = "SCL_STRING_A"
    <2> DEFINE n == v.array_len
    <2>1. ASSUME NEW i \in 1 .. n, HoldsText(d, StringBase(v, b, i), Text(v.object[i]))
          PROVE  HoldsText(e, StringBase(v, b, i), Text(v.object[i]))
      <3> DEFINE t == Text(v.object[i])
                 x == EndOf(Coded(v), i - 1)
                 m == EndOf(Coded(v), n)
                 l == Len(t)
                 q == StringBase(v, b, i)
      <3>1. QueuedLen(v) = 5 + m /\ v.object[i] \in CString /\ x \in Nat /\ (x + 4) + l <= m /\ m \in Nat
        BY <1>5, CodedFacts
      <3>2. l \in Nat
        BY <3>1, TextFacts
      <3>3. q = b + 8 + x
        BY DEF StringBase
      <3> HIDE DEF x, m, l, q, t
      <3>4. \A j \in 1 .. l + 1 : e[q + j] = d[q + j]
        <4> SUFFICES ASSUME NEW j \in 1 .. l + 1 PROVE e[q + j] = d[q + j]
          OBVIOUS
        <4>1. 8 + x + j \in 1 .. QueuedLen(v) /\ b + (8 + x + j) = q + j
          BY <3>1, <3>2, <3>3
        <4>2. e[b + (8 + x + j)] = d[b + (8 + x + j)]
          BY <1>1, <4>1, Zenon
        <4> QED
          BY <4>1, <4>2, Zenon
      <3>5. HoldsText(d, q, t)
        BY <2>1 DEF q, t
      <3>6. \A j \in 1 .. l : j \in 1 .. l + 1
        BY <3>2
      <3>7. l + 1 \in 1 .. l + 1 /\ q + (l + 1) = q + l + 1
        BY <3>1, <3>2, <3>3
      <3>8. HoldsText(e, q, t)
        BY <3>4, <3>5, <3>6, <3>7 DEF HoldsText, l
      <3> QED
        BY <3>8 DEF q, t
    <2> QED
      BY <1>5, <2>1, TypesApart DEF Denotes
  <1>6. v.type \in Scalars \cup {"SCL_STRING"} \cup Arrays \cup {"SCL_STRING_A"}
    BY CodecAssumption, TypeFacts DEF CodecAssumption
  <1> QED
    BY <1>2, <1>3, <1>4, <1>5, <1>6

-----------------------------------------------------------------------------
(* A packet while it is read.                                              *)

\* Where the values of a packet lie.
LEMMA PlaceFacts ==
  ASSUME NEW values \in Seq(Values)
  PROVE  LET n == Len(values)
             E(k) == EndOf(Parts(values), k)
         IN  /\ n \in Nat /\ E(0) = 0 /\ (\A k \in 0 .. n : E(k) \in Nat)
             /\ \A k \in 1 .. n : /\ values[k] \in Values /\ QueuedLen(values[k]) \in Nat
                                  /\ E(k - 1) \in Nat /\ E(k) = E(k - 1) + QueuedLen(values[k])
             /\ (\A i, j \in 0 .. n : i <= j => E(i) <= E(j))
             /\ Body(values) \in Seq(Byte) /\ Len(Body(values)) = E(n)
  <1> DEFINE n == Len(values)
             p == Parts(values)
             E(k) == EndOf(p, k)
  <1>1. /\ p \in Seq(Seq(Byte)) /\ Len(p) = n /\ n \in Nat
        /\ \A k \in 1 .. n : p[k] = Written(values[k]) /\ values[k] \in Values
        /\ Body(values) = FlattenSeq(p) /\ Body(values) \in Seq(Byte)
    BY BodyFacts
  <1> HIDE DEF n, p
  <1>2. /\ E(0) = 0 /\ (\A k \in 0 .. n : E(k) \in Nat)
        /\ (\A k \in 1 .. n : E(k) = E(k - 1) + Len(p[k]))
        /\ (\A i, j \in 0 .. n : i <= j => E(i) <= E(j)) /\ Len(FlattenSeq(p)) = E(n)
    BY <1>1, EndFacts
  <1> HIDE DEF E
  <1>3. \A k \in 1 .. n : k - 1 \in 0 .. n
    BY <1>1
  <1>4. \A k \in 1 .. n : Len(p[k]) = QueuedLen(values[k]) /\ QueuedLen(values[k]) \in Nat
    BY <1>1, WrittenFacts
  <1> QED
    BY <1>1, <1>2, <1>3, <1>4 DEF n, p, E

Pointers == Nat \cup {NULL} \cup Seq(Nat \cup {NULL})

LEMMA PointerFacts ==
  ASSUME NEW v \in Values, NEW d, NEW b \in Nat, NEW r, Denotes(v, r, d, b)
  PROVE  r \in Pointers
  <1>1. CASE v.type \in Scalars \cup Arrays
    BY <1>1 DEF Denotes, Pointers
  <1>2. CASE v.type = "SCL_STRING"
    BY <1>2 DEF Denotes, Pointers
  <1>3. CASE v.type = "SCL_STRING_A"
    <2> DEFINE n == v.array_len
               P(i) == IF StrLen(v.object[i]) = 0 THEN NULL ELSE StringBase(v, b, i) + 1
    <2>1. n \in Nat /\ \A i \in 1 .. n : EndOf(Coded(v), i - 1) \in Nat
      BY <1>3, CodedFacts
    <2>2. \A i \in 1 .. n : P(i) \in Nat \cup {NULL}
      BY <2>1 DEF StringBase
    <2>3. r = [i \in 1 .. n |-> P(i)]
      BY <1>3 DEF Denotes
    <2> HIDE DEF n, P
    <2>4. [i \in 1 .. n |-> P(i)] \in Seq(Nat \cup {NULL})
      BY <2>1, <2>2
    <2> QED
      BY <2>3, <2>4 DEF Pointers
  <1>4. v.type \in Scalars \cup {"SCL_STRING"} \cup Arrays \cup {"SCL_STRING_A"}
    BY CodecAssumption, TypeFacts DEF CodecAssumption
  <1> QED
    BY <1>1, <1>2, <1>3, <1>4

\* The values returned are still there, those to come stand as they were written,
\* and the cursor stands between them.
Reads(d, cursor, rs, values) ==
    /\ Len(Body(values)) <= INT_MAX /\ Len(d) = Len(Body(values))
    /\ rs \in Seq(Pointers) /\ Len(rs) <= Len(values)
    /\ cursor = EndOf(Parts(values), Len(rs)) + 1
    /\ \A k \in 1 .. Len(rs) : Denotes(values[k], rs[k], d, EndOf(Parts(values), k - 1))
    /\ \A k \in Len(rs) + 1 .. Len(values) :
          Holds(d, EndOf(Parts(values), k - 1), Written(values[k]))

LEMMA ReadsFirst ==
  ASSUME NEW values \in Seq(Values), Len(Body(values)) <= INT_MAX
  PROVE  Reads(Body(values), 1, <<>>, values)
  <1> DEFINE d == Body(values)
             p == Parts(values)
             n == Len(values)
  <1>1. /\ p \in Seq(Seq(Byte)) /\ Len(p) = n /\ d = FlattenSeq(p) /\ d \in Seq(Byte) /\ n \in Nat
        /\ \A k \in 1 .. n : p[k] = Written(values[k])
    BY BodyFacts
  <1>2. EndOf(p, 0) = 0 /\ \A k \in 1 .. n : EndOf(p, k - 1) \in Nat
    BY PlaceFacts
  <1>3. Holds(d, 0, d)
    <2> HIDE DEF d
    <2>1. \A j \in 1 .. Len(d) : 0 + j = j
      BY <1>1
    <2>2. 0 + Len(d) <= Len(d)
      BY <1>1
    <2> QED
      BY <2>1, <2>2 DEF Holds
  <1>4. \A k \in 1 .. n : Holds(d, EndOf(p, k - 1), Written(values[k]))
    <2> SUFFICES ASSUME NEW k \in 1 .. n PROVE Holds(d, EndOf(p, k - 1), Written(values[k]))
      OBVIOUS
    <2> DEFINE e == EndOf(p, k - 1)
    <2>1. e \in Nat /\ p[k] = Written(values[k])
      BY <1>1, <1>2
    <2>2. Holds(d, 0 + e, p[k])
      <3>1. k \in 1 .. Len(p) /\ 0 \in Nat
        <4>1. Len(p) = Len(values) /\ k \in 1 .. Len(values)
          BY <1>1
        <4> HIDE DEF p
        <4> QED
          BY <4>1
      <3>2. p \in Seq(Seq(Byte)) /\ d \in Seq(Byte) /\ Holds(d, 0, FlattenSeq(p))
        BY <1>1, <1>3, Zenon
      <3> HIDE DEF p, d
      <3> QED
        BY <3>1, <3>2, HoldsPart DEF e
    <2>3. 0 + e = e
      <3> HIDE DEF e
      <3> QED
        BY <2>1
    <2> QED
      BY <2>1, <2>2, <2>3
  <1>5. <<>> \in Seq(Pointers) /\ Len(<<>>) = 0 /\ 1 .. 0 = {} /\ 0 <= n /\ 0 + 1 = 1
    BY <1>1
  <1> HIDE DEF p, n
  <1>6. EndOf(p, 0) + 1 = 1
    BY <1>2
  <1> QED
    BY <1>4, <1>5, <1>6 DEF Reads, p, n

\* scl_get_value takes the value at the cursor and spares the others.
LEMMA ReadsNext ==
  ASSUME NEW values \in Seq(Values), NEW d \in Seq(Byte), NEW cursor, NEW rs,
         Reads(d, cursor, rs, values), Len(rs) < Len(values)
  PROVE  LET got == Got(values[Len(rs) + 1].type, d, cursor)
         IN  /\ got.pdata \in Seq(Byte)
             /\ Reads(got.pdata, got.pcursor, Append(rs, got.retval), values)
  <1> DEFINE n == Len(values)
             m == Len(rs)
             k == m + 1
             v == values[k]
             E(i) == EndOf(Parts(values), i)
             b == E(k - 1)
             got == Got(v.type, d, cursor)
             body == Body(values)
             e == got.pdata
             new == Append(rs, got.retval)
  <1>1. /\ n \in Nat /\ E(0) = 0 /\ (\A i \in 0 .. n : E(i) \in Nat)
        /\ (\A i \in 1 .. n : /\ values[i] \in Values /\ QueuedLen(values[i]) \in Nat
                              /\ E(i - 1) \in Nat /\ E(i) = E(i - 1) + QueuedLen(values[i]))
        /\ (\A i, j \in 0 .. n : i <= j => E(i) <= E(j)) /\ Len(body) = E(n)
    BY PlaceFacts
  <1>2. /\ Len(body) <= INT_MAX /\ Len(d) = Len(body) /\ rs \in Seq(Pointers) /\ m <= n
        /\ cursor = E(m) + 1
        /\ (\A i \in 1 .. m : Denotes(values[i], rs[i], d, E(i - 1)))
        /\ (\A i \in m + 1 .. n : Holds(d, E(i - 1), Written(values[i])))
    BY DEF Reads
  <1>3. m \in Nat /\ m < n
    BY <1>2
  <1> HIDE DEF n, m, E, body
  <1>4. k \in 1 .. n /\ k \in m + 1 .. n /\ k \in 0 .. n /\ k - 1 = m /\ n \in 0 .. n /\ k <= n
    BY <1>1, <1>3
  <1>5. /\ v \in Values /\ b \in Nat /\ Holds(d, b, Written(v)) /\ QueuedLen(v) \in Nat
        /\ E(k) = b + QueuedLen(v) /\ E(k) <= E(n) /\ cursor = b + 1 /\ E(n) \in Nat
    BY <1>1, <1>2, <1>4
  <1>6. QueuedLen(v) <= INT_MAX
    <2> HIDE DEF b, v, k
    <2> QED
      BY <1>1, <1>2, <1>5, IntMax
  <1>7. Takes(v, d, b, got)
    <2> HIDE DEF b, v
    <2>1. Takes(v, d, b, Got(v.type, d, b + 1))
      BY <1>5, <1>6, TakesValue
    <2> QED
      BY <1>5, <2>1
  <1> HIDE DEF v, b, got, k
  <1>8. /\ e \in Seq(Byte) /\ Len(e) = Len(d) /\ got.pcursor = (b + 1) + QueuedLen(v)
        /\ (\A i \in 1 .. Len(d) : i <= b \/ i > b + QueuedLen(v) => e[i] = d[i])
        /\ Denotes(v, got.retval, e, b)
    BY <1>7 DEF Takes
  <1>9. got.retval \in Pointers
    BY <1>5, <1>8, PointerFacts
  <1>10. /\ new \in Seq(Pointers) /\ Len(new) = k /\ new[k] = got.retval
         /\ \A i \in 1 .. m : new[i] = rs[i]
    BY <1>2, <1>9 DEF m, k
  <1>11. got.pcursor = E(k) + 1
    BY <1>5, <1>8
  <1> HIDE DEF e, new
  <1>12. ASSUME NEW i \in 1 .. m PROVE Denotes(values[i], new[i], e, E(i - 1))
    <2> DEFINE a == E(i - 1)
               q == QueuedLen(values[i])
    <2>1. i \in 1 .. n /\ i \in 0 .. n /\ m \in 0 .. n /\ i <= m
      BY <1>1, <1>3
    <2>2. values[i] \in Values /\ a \in Nat /\ q \in Nat /\ a + q <= b
      <3>1. values[i] \in Values /\ a \in Nat /\ q \in Nat /\ E(i) = a + q /\ E(i) <= E(m)
        BY <1>1, <2>1
      <3>2. E(m) = b
        BY <1>4 DEF b
      <3> QED
        BY <3>1, <3>2
    <2>3. Denotes(values[i], rs[i], d, a)
      BY <1>2
    <2>4. \A j \in a + 1 .. a + q : e[j] = d[j]
      <3> HIDE DEF a, q
      <3>1. \A j \in a + 1 .. a + q : j \in 1 .. Len(d) /\ j <= b
        BY <1>1, <1>2, <1>5, <2>2
      <3> QED
        BY <1>8, <3>1
    <2> HIDE DEF a
    <2>5. Denotes(values[i], rs[i], e, a)
      BY <2>2, <2>3, <2>4, DenotesStays
    <2>6. new[i] = rs[i]
      BY <1>10
    <2> QED
      BY <2>5, <2>6 DEF a
  <1>13. Denotes(values[k], new[k], e, E(k - 1))
    BY <1>8, <1>10 DEF v, b
  <1>14. \A i \in 1 .. k : Denotes(values[i], new[i], e, E(i - 1))
    <2>1. \A i \in 1 .. k : i \in 1 .. m \/ i = k
      BY <1>3 DEF k
    <2> QED
      BY <1>12, <1>13, <2>1
  <1>15. ASSUME NEW i \in k + 1 .. n PROVE Holds(e, E(i - 1), Written(values[i]))
    <2> DEFINE a == E(i - 1)
               w == Written(values[i])
    <2>1. i \in m + 1 .. n /\ i \in 1 .. n /\ i - 1 \in 0 .. n /\ k <= i - 1
      BY <1>1, <1>3, <1>4
    <2>2. Holds(d, a, w) /\ a \in Nat /\ E(k) <= a /\ values[i] \in Values
      BY <1>1, <1>2, <1>4, <2>1
    <2>3. Len(w) \in Nat
      BY <2>2, WrittenFacts
    <2> HIDE DEF a, w
    <2>4. a + Len(w) <= Len(d) /\ \A j \in 1 .. Len(w) : d[a + j] = w[j]
      BY <2>2 DEF Holds
    <2>5. \A j \in 1 .. Len(w) : a + j \in 1 .. Len(d) /\ a + j > b + QueuedLen(v)
      <3> DEFINE x == E(k)
                 q == QueuedLen(v)
                 l == Len(w)
                 D == Len(d)
      <3>1. /\ x = b + q /\ x <= a /\ a \in Nat /\ b \in Nat /\ q \in Nat /\ l \in Nat
            /\ a + l <= D /\ D \in Nat
        BY <1>5, <2>2, <2>3, <2>4
      <3> HIDE DEF x, q, l, D
      <3>2. \A j \in 1 .. l : a + j \in 1 .. D /\ a + j > b + q
        BY <3>1
      <3> QED
        BY <3>2 DEF l, D, q
    <2>6. \A j \in 1 .. Len(w) : e[a + j] = w[j]
      BY <1>8, <2>4, <2>5
    <2>7. Holds(e, a, w)
      BY <1>8, <2>4, <2>6 DEF Holds
    <2> QED
      BY <2>7 DEF a, w
  <1>16. Len(e) = Len(body) /\ k <= n
    BY <1>2, <1>4, <1>8
  <1>17. Reads(e, got.pcursor, new, values)
    BY <1>2, <1>10, <1>11, <1>14, <1>15, <1>16 DEF Reads, n, E, body
  <1> QED
    BY <1>8, <1>17 DEF e, new, got, v, k, m

-----------------------------------------------------------------------------
(* The stream.                                                             *)

Frame(values) == Word(Len(Body(values))) \o Body(values)
Frames(them) == [k \in DOMAIN them |-> Frame(them[k])]

LEMMA FrameFacts ==
  ASSUME NEW values \in Seq(Values)
  PROVE  /\ Frame(values) \in Seq(Byte) /\ Body(values) \in Seq(Byte)
         /\ Word(Len(Body(values))) \in Seq(Byte) /\ Len(Word(Len(Body(values)))) = 4
  <1>1. Body(values) \in Seq(Byte) /\ Len(Body(values)) \in Nat
    BY BodyFacts
  <1>2. Word(Len(Body(values))) \in Seq(Byte) /\ Len(Word(Len(Body(values)))) = 4
    BY <1>1, WordBytes
  <1>3. Frame(values) \in Seq(Byte)
    BY <1>1, <1>2, ConcatPlaces DEF Frame
  <1> QED
    BY <1>1, <1>2, <1>3

LEMMA FramesFacts ==
  ASSUME NEW them \in Seq(Seq(Values))
  PROVE  /\ Frames(them) \in Seq(Seq(Byte)) /\ FlattenSeq(Frames(them)) \in Seq(Byte)
         /\ \A values \in Seq(Values) :
               FlattenSeq(Frames(Append(them, values))) = FlattenSeq(Frames(them)) \o Frame(values)
         /\ them # <<>> =>
               FlattenSeq(Frames(them)) = Frame(Head(them)) \o FlattenSeq(Frames(Tail(them)))
  <1>1. DOMAIN them = 1 .. Len(them) /\ Len(them) \in Nat /\ \A k \in 1 .. Len(them) : them[k] \in Seq(Values)
    OBVIOUS
  <1>2. Frames(them) \in Seq(Seq(Byte)) /\ Len(Frames(them)) = Len(them)
    BY <1>1, FrameFacts DEF Frames
  <1>3. ASSUME NEW values \in Seq(Values)
        PROVE  FlattenSeq(Frames(Append(them, values))) = FlattenSeq(Frames(them)) \o Frame(values)
    <2>1. Frames(Append(them, values)) = Append(Frames(them), Frame(values))
      BY DEF Frames
    <2>2. Frame(values) \in Seq(Byte)
      BY FrameFacts
    <2> QED
      BY <1>2, <2>1, <2>2, FlattenAppend
  <1>4. ASSUME them # <<>>
        PROVE  FlattenSeq(Frames(them)) = Frame(Head(them)) \o FlattenSeq(Frames(Tail(them)))
    <2>1. Frames(them) # <<>> /\ Head(Frames(them)) = Frame(Head(them))
      BY <1>4 DEF Frames
    <2>2. Tail(Frames(them)) = Frames(Tail(them))
      BY <1>4 DEF Frames
    <2> QED
      BY <1>2, <2>1, <2>2, FlattenCons
  <1>5. FlattenSeq(Frames(them)) \in Seq(Byte)
    BY <1>2, EndFacts
  <1> QED
    BY <1>2, <1>3, <1>4, <1>5

\* The header and the body are cut off where they were joined.
Cut(s, w, t, rest) ==
    /\ s \in Seq(Byte) /\ Holds(s, 0, w)
    /\ SubSeq(s, 5, 4 + Len(t)) = t
    /\ SubSeq(s, (4 + Len(t)) + 1, Len(s)) = rest

LEMMA CutApart ==
  ASSUME NEW w \in Seq(Byte), Len(w) = 4, NEW t \in Seq(Byte), NEW rest \in Seq(Byte)
  PROVE  Cut((w \o t) \o rest, w, t, rest)
  <1> DEFINE s == (w \o t) \o rest
             u == w \o t
             l == Len(t)
             m == Len(rest)
  <1>1. u \in Seq(Byte) /\ Len(u) = 4 + l /\ l \in Nat /\ m \in Nat
    <2>1. u \in Seq(Byte) /\ Len(u) = Len(w) + Len(t)
      BY ConcatPlaces
    <2> QED
      BY <2>1
  <1>2. s \in Seq(Byte) /\ Len(s) = Len(u) + m /\ Holds(s, 0, u \o rest)
    <2> HIDE DEF u, s
    <2>1. s \in Seq(Byte) /\ Len(s) = Len(u) + Len(rest)
      BY <1>1, ConcatPlaces DEF u, s
    <2>2. u \o rest = s
      BY DEF u, s
    <2>3. 0 + Len(s) <= Len(s) /\ \A j \in 1 .. Len(s) : 0 + j = j
      BY <2>1
    <2>4. Holds(s, 0, s)
      BY <2>3 DEF Holds
    <2> QED
      BY <2>1, <2>2, <2>4
  <1> HIDE DEF s
  <1>3. Holds(s, 0, u) /\ Holds(s, 0 + Len(u), rest)
    <2> HIDE DEF u
    <2> QED
      BY <1>1, <1>2, HoldsConcat
  <1>4. Holds(s, 0, w) /\ Holds(s, 0 + Len(w), t)
    <2>1. 0 \in Nat
      OBVIOUS
    <2> QED
      BY <1>2, <1>3, <2>1, HoldsConcat DEF u
  <1>5. Holds(s, 4, t) /\ Holds(s, 4 + l, rest)
    <2> HIDE DEF l, u
    <2>1. 0 + Len(w) = 4 /\ 0 + Len(u) = 4 + l
      BY <1>1
    <2> QED
      BY <1>3, <1>4, <2>1, Zenon
  <1> HIDE DEF u, l, m
  <1>6. SubSeq(s, 5, 4 + l) = t
    <2>1. SubSeq(s, 4 + 1, (4 + 1) + Len(t) - 1) = t
      BY <1>2, <1>5, SubSeqIs DEF Holds
    <2>2. (4 + 1) + Len(t) - 1 = 4 + l /\ 4 + 1 = 5
      BY <1>1 DEF l
    <2> QED
      BY <2>1, <2>2, Zenon
  <1>7. SubSeq(s, (4 + l) + 1, Len(s)) = rest
    <2>1. 4 + l \in Nat
      BY <1>1
    <2>2. SubSeq(s, (4 + l) + 1, ((4 + l) + 1) + Len(rest) - 1) = rest
      BY <1>2, <1>5, <2>1, SubSeqIs DEF Holds
    <2>3. ((4 + l) + 1) + Len(rest) - 1 = Len(s)
      BY <1>1, <1>2 DEF m
    <2> QED
      BY <2>2, <2>3, Zenon
  <1> QED
    BY <1>2, <1>4, <1>6, <1>7 DEF l, s, Cut

-----------------------------------------------------------------------------
(* The invariant.                                                          *)

CodecInv ==
    /\ TypeOK
    /\ Framed /\ out_packet_len <= INT_MAX
    /\ InStep /\ \A k \in 1 .. Len(unread) : Len(Body(unread[k])) <= INT_MAX
    /\ Reads(in_pdata, in_pcursor, results, due)

LEMMA InStepIs == InStep <=> stream = FlattenSeq(Frames(unread))
  BY DEF InStep, Frames, Frame

LEMMA BodyOfNone == <<>> \in Seq(Values) /\ Body(<<>>) = <<>> /\ Len(Body(<<>>)) = 0
  <1>1. Parts(<<>>) = <<>> /\ <<>> \in Seq(Values) /\ Len(<<>>) = 0
    BY DEF Parts
  <1>2. Body(<<>>) = FlattenSeq(Parts(<<>>)) /\ Len(Parts(<<>>)) = 0
    BY <1>1, BodyFacts
  <1>3. <<>> \in Seq(Seq(Byte))
    OBVIOUS
  <1>4. FlattenSeq(<<>>) = Upto(<<>>, Len(<<>>)) /\ Upto(<<>>, 0) = <<>>
    BY <1>3, FlattenIsUpto
  <1> QED
    BY <1>1, <1>2, <1>4

LEMMA CodecInit == Init => CodecInv
  <1> SUFFICES ASSUME Init PROVE CodecInv
    OBVIOUS
  <1> USE DEF Init
  <1>1. MaxValues \in Nat /\ MaxPackets \in Nat
    BY CodecAssumption DEF CodecAssumption
  <1>2. TypeOK
    BY <1>1 DEF TypeOK
  <1>3. Framed /\ out_packet_len <= INT_MAX
    BY BodyOfNone, IntMax DEF Framed
  <1>4. InStep
    <2>1. unread = <<>> /\ stream = <<>>
      OBVIOUS
    <2>2. Frames(<<>>) = <<>>
      BY DEF Frames
    <2>3. <<>> \in Seq(Seq(Byte))
      OBVIOUS
    <2>4. FlattenSeq(<<>>) = Upto(<<>>, Len(<<>>)) /\ Upto(<<>>, 0) = <<>> /\ Len(<<>>) = 0
      BY <2>3, FlattenIsUpto
    <2> QED
      BY <2>1, <2>2, <2>4, InStepIs
  <1>5. \A k \in 1 .. Len(unread) : Len(Body(unread[k])) <= INT_MAX
    OBVIOUS
  <1>6. Reads(in_pdata, in_pcursor, results, due)
    <2>1. Reads(Body(<<>>), 1, <<>>, <<>>)
      <3>1. Len(Body(<<>>)) <= INT_MAX
        BY BodyOfNone, IntMax
      <3> QED
        BY <3>1, BodyOfNone, ReadsFirst, Zenon
    <2> QED
      BY <2>1, BodyOfNone
  <1> QED
    BY <1>2, <1>3, <1>4, <1>5, <1>6 DEF CodecInv

LEMMA QueueKeeps == CodecInv /\ (\E v \in Values : scl_queue_value(v)) => CodecInv'
  <1> SUFFICES ASSUME CodecInv, NEW v \in Values, scl_queue_value(v) PROVE CodecInv'
    OBVIOUS
  <1>1. /\ Len(out_ele_queue) < MaxValues /\ out_packet_len + QueuedLen(v) <= INT_MAX
        /\ out_ele_queue' = Append(out_ele_queue, v)
        /\ out_packet_len' = out_packet_len + QueuedLen(v)
    BY DEF scl_queue_value
  <1>2. UNCHANGED <<in_pdata, in_pcursor, results, due, stream, unread, packets>>
    BY DEF scl_queue_value, reader
  <1>3. TypeOK /\ Framed /\ out_packet_len \in Nat /\ out_ele_queue \in Seq(Values)
    BY DEF CodecInv, TypeOK
  <1>4. QueuedLen(v) \in Nat
    BY WrittenFacts
  <1>5. out_packet_len' = Len(Body(out_ele_queue'))
    BY <1>1, <1>3, BodyAppend DEF Framed
  <1>6. /\ out_ele_queue' \in Seq(Values) /\ Len(out_ele_queue') <= MaxValues
        /\ out_packet_len' \in Nat /\ out_packet_len' <= INT_MAX
    <2>1. MaxValues \in Nat
      BY CodecAssumption DEF CodecAssumption
    <2>2. \A q \in Seq(Values) : Append(q, v) \in Seq(Values) /\ Len(Append(q, v)) = Len(q) + 1 /\ Len(q) \in Nat
      OBVIOUS
    <2>3. Append(out_ele_queue, v) \in Seq(Values) /\ Len(Append(out_ele_queue, v)) = Len(out_ele_queue) + 1
          /\ Len(out_ele_queue) \in Nat
      BY <1>3, <2>2
    <2>4. Len(out_ele_queue') <= MaxValues
      BY <1>1, <2>1, <2>3
    <2> QED
      BY <1>1, <1>3, <1>4, <2>3, <2>4
  <1>7. TypeOK'
    BY <1>2, <1>3, <1>6 DEF TypeOK
  <1>8. InStep' /\ \A k \in 1 .. Len(unread') : Len(Body(unread'[k])) <= INT_MAX
    BY <1>2 DEF InStep, CodecInv
  <1>9. Reads(in_pdata', in_pcursor', results', due')
    BY <1>2 DEF CodecInv
  <1> QED
    BY <1>5, <1>6, <1>7, <1>8, <1>9 DEF CodecInv, Framed

LEMMA WriteKeeps == CodecInv /\ scl_write_out => CodecInv'
  <1> SUFFICES ASSUME CodecInv, scl_write_out PROVE CodecInv'
    OBVIOUS
  <1>1. /\ packets < MaxPackets
        /\ stream' = (stream \o Word(out_packet_len)) \o Body(out_ele_queue)
        /\ unread' = Append(unread, out_ele_queue)
        /\ packets' = packets + 1 /\ out_ele_queue' = <<>> /\ out_packet_len' = 0
    BY DEF scl_write_out
  <1>2. UNCHANGED <<in_pdata, in_pcursor, results, due>>
    BY DEF scl_write_out, reader
  <1>3. /\ TypeOK /\ out_ele_queue \in Seq(Values) /\ unread \in Seq(Seq(Values)) /\ stream \in Seq(Byte)
        /\ out_packet_len = Len(Body(out_ele_queue)) /\ out_packet_len <= INT_MAX
        /\ packets \in 0 .. MaxPackets /\ stream = FlattenSeq(Frames(unread))
        /\ \A k \in 1 .. Len(unread) : Len(Body(unread[k])) <= INT_MAX
    BY InStepIs DEF CodecInv, TypeOK, Framed
  <1>4. Word(out_packet_len) \in Seq(Byte) /\ Body(out_ele_queue) \in Seq(Byte)
    BY <1>3, FrameFacts
  <1>5. \A s, t, u \in Seq(Byte) : (s \o t) \o u \in Seq(Byte) /\ (s \o t) \o u = s \o (t \o u)
    <2>1. \A s, t \in Seq(Byte) : s \o t \in Seq(Byte)
      BY ConcatPlaces
    <2> QED
      BY <2>1, ConcatAssociative
  <1>6. stream' \in Seq(Byte) /\ stream' = stream \o Frame(out_ele_queue)
    <2>1. stream' \in Seq(Byte) /\ stream' = stream \o (Word(out_packet_len) \o Body(out_ele_queue))
      BY <1>1, <1>3, <1>4, <1>5, Zenon
    <2> QED
      BY <1>3, <2>1 DEF Frame
  <1>7. stream' = FlattenSeq(Frames(unread'))
    BY <1>1, <1>3, <1>6, FramesFacts
  <1>8. unread' \in Seq(Seq(Values))
        /\ \A k \in 1 .. Len(unread') : Len(Body(unread'[k])) <= INT_MAX
    <2>1. \A s \in Seq(Seq(Values)), x \in Seq(Values) :
            /\ Append(s, x) \in Seq(Seq(Values))
            /\ \A k \in 1 .. Len(Append(s, x)) : Append(s, x)[k] = x \/ (k \in 1 .. Len(s) /\ Append(s, x)[k] = s[k])
      OBVIOUS
    <2>2. /\ Append(unread, out_ele_queue) \in Seq(Seq(Values))
          /\ \A k \in 1 .. Len(Append(unread, out_ele_queue)) :
                \/ Append(unread, out_ele_queue)[k] = out_ele_queue
                \/ k \in 1 .. Len(unread) /\ Append(unread, out_ele_queue)[k] = unread[k]
      BY <1>3, <2>1, Zenon
    <2> QED
      BY <1>1, <1>3, <2>2
  <1>9. packets' \in 0 .. MaxPackets
    BY <1>1, <1>3, CodecAssumption DEF CodecAssumption
  <1>10. TypeOK'
    <2>1. out_ele_queue' \in Seq(Values) /\ Len(out_ele_queue') <= MaxValues /\ out_packet_len' \in Nat
      BY <1>1, CodecAssumption DEF CodecAssumption
    <2> QED
      BY <1>2, <1>3, <1>6, <1>8, <1>9, <2>1 DEF TypeOK
  <1>11. Framed' /\ out_packet_len' <= INT_MAX
    BY <1>1, BodyOfNone, IntMax DEF Framed
  <1>12. InStep'
    <2>1. InStep' <=> stream' = FlattenSeq(Frames(unread'))
      BY DEF InStep, Frames, Frame
    <2> QED
      BY <1>7, <2>1
  <1>13. Reads(in_pdata', in_pcursor', results', due')
    BY <1>2 DEF CodecInv
  <1> QED
    BY <1>8, <1>10, <1>11, <1>12, <1>13 DEF CodecInv

LEMMA ReadKeeps == CodecInv /\ scl_read_packet => CodecInv'
  <1> SUFFICES ASSUME CodecInv, scl_read_packet PROVE CodecInv'
    OBVIOUS
  <1> DEFINE first == Head(unread)
             body == Body(first)
             w == Word(Len(body))
             rest == FlattenSeq(Frames(Tail(unread)))
  <1>1. /\ TypeOK /\ unread \in Seq(Seq(Values)) /\ stream \in Seq(Byte)
        /\ stream = FlattenSeq(Frames(unread)) /\ out_packet_len <= INT_MAX /\ Framed
        /\ \A k \in 1 .. Len(unread) : Len(Body(unread[k])) <= INT_MAX
    BY InStepIs DEF CodecInv, TypeOK
  <1>2. /\ unread # <<>>
        /\ in_pdata' = SubSeq(stream, 5, 4 + Unword(stream, 1))
        /\ stream' = SubSeq(stream, (4 + Unword(stream, 1)) + 1, Len(stream))
        /\ in_pcursor' = 1 /\ results' = <<>> /\ due' = Head(unread) /\ unread' = Tail(unread)
    <2>1. SCL_LEN_LEN + 1 = 5 /\ SCL_LEN_LEN = 4
      BY DEF SCL_LEN_LEN
    <2> QED
      BY <2>1, Zenon DEF scl_read_packet
  <1>3. UNCHANGED <<out_ele_queue, out_packet_len, packets>>
    BY DEF scl_read_packet, writer
  <1>4. /\ first \in Seq(Values) /\ Tail(unread) \in Seq(Seq(Values))
        /\ first = unread[1] /\ 1 \in 1 .. Len(unread)
        /\ Len(Tail(unread)) = Len(unread) - 1
        /\ \A k \in 1 .. Len(Tail(unread)) : k + 1 \in 1 .. Len(unread) /\ Tail(unread)[k] = unread[k + 1]
    BY <1>1, <1>2
  <1>5. Len(body) <= INT_MAX
    BY <1>1, <1>4
  <1>6. w \in Seq(Byte) /\ Len(w) = 4 /\ body \in Seq(Byte) /\ Len(body) \in Nat
    BY <1>4, FrameFacts
  <1>7. rest \in Seq(Byte) /\ stream = (w \o body) \o rest
    <2>1. rest \in Seq(Byte)
      BY <1>4, FramesFacts
    <2>2. stream = Frame(first) \o rest
      BY <1>1, <1>2, FramesFacts
    <2> QED
      BY <2>1, <2>2 DEF Frame
  <1> HIDE DEF w, rest, body
  <1>8. /\ Holds(stream, 0, w) /\ SubSeq(stream, 5, 4 + Len(body)) = body
        /\ SubSeq(stream, (4 + Len(body)) + 1, Len(stream)) = rest
    <2>1. Cut((w \o body) \o rest, w, body, rest)
      BY <1>6, <1>7, CutApart
    <2>2. Cut(stream, w, body, rest)
      BY <1>7, <2>1, Zenon
    <2> QED
      BY <2>2, Zenon DEF Cut
  <1>9. Unword(stream, 1) = Len(body)
    <2>1. Len(body) \in 0 .. INT_MAX
      BY <1>5, <1>6, IntMax
    <2>2. Unword(stream, 0 + 1) = Len(body)
      <3>1. 0 \in Nat
        OBVIOUS
      <3> QED
        BY <1>1, <1>8, <2>1, <3>1, UnwordReads DEF w
    <2>3. 0 + 1 = 1
      OBVIOUS
    <2> QED
      BY <2>2, <2>3, Zenon
  <1>10. in_pdata' = body /\ stream' = rest
    BY <1>2, <1>8, <1>9, Zenon
  <1>11. Reads(in_pdata', in_pcursor', results', due')
    <2>1. Reads(Body(first), 1, <<>>, first)
      BY <1>4, <1>5, ReadsFirst DEF body
    <2> QED
      BY <1>2, <1>10, <2>1, Zenon DEF body
  <1>12. InStep'
    <2>1. InStep' <=> stream' = FlattenSeq(Frames(unread'))
      BY DEF InStep, Frames, Frame
    <2> QED
      BY <1>2, <1>10, <2>1 DEF rest
  <1>13. \A k \in 1 .. Len(unread') : Len(Body(unread'[k])) <= INT_MAX
    BY <1>1, <1>2, <1>4
  <1>14. TypeOK'
    <2>1. due' \in Seq(Values) /\ Len(results') <= Len(due') /\ unread' \in Seq(Seq(Values))
      BY <1>2, <1>4
    <2>2. stream' \in Seq(Byte) /\ in_pdata' \in Seq(Byte) /\ in_pcursor' \in Nat \ {0}
      <3>1. stream' \in Seq(Byte) /\ in_pdata' \in Seq(Byte)
        BY <1>6, <1>7, <1>10, Zenon
      <3>2. in_pcursor' = 1
        BY <1>2, Zenon
      <3> QED
        BY <3>1, <3>2
    <2> QED
      BY <1>1, <1>3, <2>1, <2>2 DEF TypeOK
  <1>15. Framed' /\ out_packet_len' <= INT_MAX
    BY <1>1, <1>3 DEF Framed
  <1> QED
    BY <1>11, <1>12, <1>13, <1>14, <1>15 DEF CodecInv

LEMMA GetKeeps == CodecInv /\ scl_get_value => CodecInv'
  <1> SUFFICES ASSUME CodecInv, scl_get_value PROVE CodecInv'
    OBVIOUS
  <1> DEFINE got == Got(due[Len(results) + 1].type, in_pdata, in_pcursor)
  <1>1. /\ Len(results) < Len(due) /\ results' = Append(results, got.retval)
        /\ in_pdata' = got.pdata /\ in_pcursor' = got.pcursor
    BY DEF scl_get_value
  <1>2. UNCHANGED <<out_ele_queue, out_packet_len, packets, stream, unread, due>>
    BY DEF scl_get_value, writer
  <1>3. TypeOK /\ due \in Seq(Values) /\ in_pdata \in Seq(Byte) /\ Reads(in_pdata, in_pcursor, results, due)
    BY DEF CodecInv, TypeOK
  <1>4. got.pdata \in Seq(Byte) /\ Reads(got.pdata, got.pcursor, Append(results, got.retval), due)
    BY <1>1, <1>3, ReadsNext
  <1> HIDE DEF got
  <1>5. in_pdata' \in Seq(Byte) /\ Reads(in_pdata', in_pcursor', results', due')
    BY <1>1, <1>2, <1>4
  <1>6. in_pcursor' \in Nat \ {0} /\ Len(results') <= Len(due')
    <2>1. /\ in_pcursor' = EndOf(Parts(due), Len(results')) + 1 /\ Len(results') <= Len(due)
          /\ Len(results') \in Nat
      BY <1>2, <1>5 DEF Reads
    <2>2. Len(due) \in Nat /\ \A k \in 0 .. Len(due) : EndOf(Parts(due), k) \in Nat
      BY <1>3, PlaceFacts
    <2>3. EndOf(Parts(due), Len(results')) \in Nat
      BY <2>1, <2>2
    <2> QED
      BY <1>2, <2>1, <2>3
  <1>7. TypeOK'
    BY <1>2, <1>3, <1>5, <1>6 DEF TypeOK
  <1>8. /\ Framed' /\ out_packet_len' <= INT_MAX
        /\ InStep' /\ \A k \in 1 .. Len(unread') : Len(Body(unread'[k])) <= INT_MAX
    BY <1>2 DEF CodecInv, Framed, InStep
  <1> QED
    BY <1>5, <1>7, <1>8 DEF CodecInv

\* What the writer has queued, what is in the stream and what the reader has
\* taken from the packet fit together after every step of either.
THEOREM CodecInvariant == Spec => []CodecInv
  <1>1. CodecInv /\ [Next]_vars => CodecInv'
    <2> SUFFICES ASSUME CodecInv, [Next]_vars PROVE CodecInv'
      OBVIOUS
    <2>1. CASE \E v \in Values : scl_queue_value(v)
      BY <2>1, QueueKeeps
    <2>2. CASE scl_write_out
      BY <2>2, WriteKeeps
    <2>3. CASE scl_read_packet
      BY <2>3, ReadKeeps
    <2>4. CASE scl_get_value
      BY <2>4, GetKeeps
    <2>5. CASE Done \/ UNCHANGED vars
      <3>1. /\ UNCHANGED <<out_ele_queue, out_packet_len, packets>>
            /\ UNCHANGED <<in_pdata, in_pcursor, results, due, stream, unread>>
        BY <2>5 DEF Done, vars, writer, reader
      <3> QED
        BY <3>1 DEF CodecInv, TypeOK, Framed, InStep
    <2> QED
      BY <2>1, <2>2, <2>3, <2>4, <2>5 DEF Next
  <1> QED
    BY CodecInit, <1>1, PTL DEF Spec

\* The queue, the stream, the packet and the cursor of scl_get_value stay what
\* they are taken for, however many values the program queues and leaves unread.
THEOREM CodecTypeCorrect == Spec => []TypeOK
  <1>1. CodecInv => TypeOK
    BY DEF CodecInv
  <1> QED
    BY CodecInvariant, <1>1, PTL

\* The length scl_queue_value adds up is that of the bytes scl_write_value
\* writes, for every value; so scl_read_packet finds its headers, and the cursor
\* of scl_get_value ends at the end of the packet.
THEOREM CodecIsAligned == Spec => []Aligned
  <1>1. CodecInv => Aligned
    <2> SUFFICES ASSUME CodecInv PROVE Aligned
      OBVIOUS
    <2>1. /\ due \in Seq(Values) /\ Len(results) <= Len(due) /\ Len(results) \in Nat
          /\ in_pcursor = EndOf(Parts(due), Len(results)) + 1 /\ Len(in_pdata) = Len(Body(due))
      BY DEF CodecInv, TypeOK, Reads
    <2> DEFINE n == Len(due)
               m == Len(results)
               E(k) == EndOf(Parts(due), k)
    <2>2. /\ n \in Nat /\ (\A k \in 0 .. n : E(k) \in Nat)
          /\ (\A i, j \in 0 .. n : i <= j => E(i) <= E(j)) /\ Len(Body(due)) = E(n)
      BY <2>1, PlaceFacts
    <2> HIDE DEF n, m, E
    <2>3. m \in 0 .. n /\ n \in 0 .. n /\ m <= n
      BY <2>1, <2>2 DEF n, m
    <2>4. E(m) <= E(n) /\ E(m) \in Nat /\ E(n) \in Nat
      BY <2>2, <2>3
    <2>5. in_pcursor = E(m) + 1 /\ Len(in_pdata) = E(n)
      BY <2>1, <2>2 DEF E, m
    <2>6. CursorInside
      <3>1. in_pcursor <= Len(in_pdata) + 1
        BY <2>4, <2>5
      <3>2. m = n => in_pcursor = Len(in_pdata) + 1
        BY <2>5
      <3> QED
        BY <3>1, <3>2 DEF CursorInside, m, n
    <2> QED
      BY <2>6 DEF Aligned, CodecInv
  <1> QED
    BY CodecInvariant, <1>1, PTL

\* Whatever zeros scl_get_value writes into the packet, every pointer it has
\* returned denotes the value that was queued.
THEOREM ValuesArrive == Spec => []Decoded
  <1>1. CodecInv => Decoded
    <2> SUFFICES ASSUME CodecInv, NEW k \in DOMAIN results
                 PROVE  Denoted(due[k], results[k], in_pdata) = Sent(due[k])
      BY DEF Decoded
    <2>1. /\ due \in Seq(Values) /\ in_pdata \in Seq(Byte) /\ results \in Seq(Pointers)
          /\ Len(results) <= Len(due) /\ Len(in_pdata) = Len(Body(due))
          /\ \A i \in 1 .. Len(results) : Denotes(due[i], results[i], in_pdata, EndOf(Parts(due), i - 1))
      BY DEF CodecInv, TypeOK, Reads
    <2> DEFINE n == Len(due)
               E(i) == EndOf(Parts(due), i)
               b == E(k - 1)
               q == QueuedLen(due[k])
    <2>2. k \in 1 .. Len(results) /\ k \in 1 .. n
      BY <2>1
    <2>3. /\ due[k] \in Values /\ q \in Nat /\ b \in Nat /\ E(k) = b + q
          /\ E(k) <= E(n) /\ Len(Body(due)) = E(n)
      <3>1. n \in Nat /\ k \in 0 .. n /\ n \in 0 .. n /\ k <= n
        BY <2>1, <2>2
      <3> QED
        BY <2>1, <2>2, <3>1, PlaceFacts
    <2>4. Denotes(due[k], results[k], in_pdata, b)
      BY <2>1, <2>2
    <2> HIDE DEF E, b
    <2>5. b + QueuedLen(due[k]) <= Len(in_pdata)
      BY <2>1, <2>3
    <2> QED
      BY <2>1, <2>3, <2>4, <2>5, DenotesSent
  <1> QED
    BY CodecInvariant, <1>1, PTL
=============================================================================
