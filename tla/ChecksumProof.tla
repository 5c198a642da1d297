---------------------------- MODULE ChecksumProof ----------------------------
(* Theorems about Checksum, for every buffer, segment and address.          *)
EXTENDS Checksum, SequenceTheorems, WellFoundedInduction, TLAPS

\* While the folding loop runs, and after it, the sum has the one's complement
\* sum of what was added: a carry that is brought back does not change it.
Folded == pc \in {"fold", "done"} => OnesSum(cksum) = OnesSum(total)

Complemented == pc = "done" => cksum < 65536 /\ ret = 65535 - cksum

\* What the loop over the pairs, and the byte left over, have summed.
Summed ==
    /\ pc = "words" => /\ i <= Len(buffer) \div 2
                       /\ cksum = SumOfFirst(buffer)[i]
    /\ pc = "odd" => cksum = SumOfFirst(buffer)[Len(buffer) \div 2]
    /\ SumsWords

\* What a segment is sent and received with: two buffers that differ, if at
\* all, in their sixth word.
Headers(b, c, n) ==
  /\ b \in Seq(Byte) /\ c \in Seq(Byte) /\ n \in Nat /\ n < 65536
  /\ Len(b) = 12 + n /\ Len(c) = 12 + n
  /\ \A j \in Nat : j # 5 => Word(b, j) = Word(c, j)
  /\ Word(b, 5) = HeaderLength /\ Word(c, 5) = n

\* A buffer is summed by its receiver as it is, or with its length in the header.
Given == sent = buffer \/ \E n \in Nat : Headers(buffer, sent, n)

IInv == TypeOK /\ Summed /\ Folded /\ Complemented /\ Given

-----------------------------------------------------------------------------
\* Division with remainder, for the divisor 65535.
LEMMA Remainder ==
    ASSUME NEW a \in Nat, NEW q \in Nat, NEW r \in Nat,
           a = 65535 * q + r, r < 65535
    PROVE  a % 65535 = r
<1> DEFINE d == a \div 65535
<1> DEFINE e == a % 65535
<1>1. a = 65535 * d + e /\ d \in Nat /\ e \in Nat /\ e < 65535
  OBVIOUS
<1> HIDE DEF d, e
<1>2. e = r
  BY <1>1
<1> QED
  BY <1>2 DEF e

\* Bringing a carry back loses 65535 for each unit of it, and leaves a sum
\* that is not zero.
LEMMA FoldLosesCarries ==
    ASSUME NEW n \in Nat, n >= 65536
    PROVE  LET c == n \div 65536
               m == (n \div 65536) + (n % 65536)
           IN  c \in Nat /\ m \in Nat /\ m > 0 /\ n = m + 65535 * c
<1> DEFINE c == n \div 65536
<1> DEFINE r == n % 65536
<1>1. n = 65536 * c + r /\ c \in Nat /\ r \in Nat /\ c > 0
  OBVIOUS
<1> HIDE DEF c, r
<1>2. c + r \in Nat /\ c + r > 0 /\ n = (c + r) + 65535 * c
  BY <1>1
<1> QED
  BY <1>1, <1>2 DEF c, r

\* Two sums, neither of them zero, that differ by a multiple of 65535 have the
\* same one's complement sum.
LEMMA OnesSumModulo ==
    ASSUME NEW n \in Nat, NEW m \in Nat, NEW c \in Nat, m > 0,
           n = m + 65535 * c
    PROVE  OnesSum(m) = OnesSum(n)
<1> DEFINE q == (m - 1) \div 65535
<1> DEFINE r == (m - 1) % 65535
<1>1. m - 1 \in Nat /\ n > 0
  OBVIOUS
<1>2. m - 1 = 65535 * q + r /\ q \in Nat /\ r \in Nat /\ r < 65535
  BY <1>1
<1> HIDE DEF q, r
<1>3. n - 1 = 65535 * (q + c) + r /\ q + c \in Nat /\ n - 1 \in Nat
  BY <1>1, <1>2
<1>4. (n - 1) % 65535 = r
  BY <1>2, <1>3, Remainder
<1> QED
  BY <1>1, <1>4 DEF OnesSum, r

\* A sum of sixteen bits is its own one's complement sum.
LEMMA OnesSumOfWord ==
    ASSUME NEW m \in Nat, m < 65536
    PROVE  OnesSum(m) = m
<1>1. CASE m = 0
  BY <1>1 DEF OnesSum
<1>2. CASE m > 0
  <2>1. m - 1 \in Nat /\ m - 1 < 65535 /\ m - 1 = 65535 * 0 + (m - 1)
    BY <1>2
  <2>2. (m - 1) % 65535 = m - 1
    BY <2>1, Remainder
  <2> QED
    BY <1>2, <2>2 DEF OnesSum
<1> QED
  BY <1>1, <1>2

\* Bytes are numbers.
LEMMA ByteSequence ==
    ASSUME NEW b \in Seq(Byte)
    PROVE  /\ b \in Seq(Nat)
           /\ \A n \in 1 .. Len(b) : b[n] \in Nat /\ b[n] < 256
<1>1. \A n \in 1 .. Len(b) : b[n] \in Byte
  OBVIOUS
<1>2. \A n \in 1 .. Len(b) : b[n] \in Nat /\ b[n] < 256
  BY <1>1 DEF Byte
<1>3. b \in [1 .. Len(b) -> Nat] /\ Len(b) \in Nat
  BY <1>2
<1> QED
  BY <1>2, <1>3

-----------------------------------------------------------------------------
(* Induction over the numbers, and a function defined by recursion.         *)

\* The library's induction theorems take an operator as a parameter. The same is
\* said of a set here, from the theorem that a set in a well-founded order has
\* a least member.
LEMMA NatOrder == {p \in Nat \X Nat : p[1] < p[2]} = OpToRel(<, Nat)
BY Zenon DEF OpToRel

\* A set of numbers that is not empty has a least one.
LEMMA LeastNumber ==
  ASSUME NEW T \in SUBSET Nat, T # {}
  PROVE  \E m \in T : \A n \in T : m <= n
<1> DEFINE R == {p \in Nat \X Nat : p[1] < p[2]}
<1>1. IsWellFoundedOn(R, Nat)
  BY NatLessThanWellFounded, NatOrder, Zenon
<1>2. PICK m \in T : \A n \in T : ~(<<n, m>> \in R)
  <2> HIDE DEF R
  <2> QED BY <1>1, WFMin
<1>3. ASSUME NEW n \in T PROVE m <= n
  <2>1. <<n, m>> \in Nat \X Nat /\ ~(<<n, m>> \in R)
    BY <1>2
  <2>2. ~(n < m)
    BY <2>1
  <2>3. QED BY <2>2
<1>4. QED BY <1>3

\* A set with 0 and the successor of each of its numbers has them all.
LEMMA Induction ==
  ASSUME NEW T, 0 \in T, \A n \in Nat : n \in T => n + 1 \in T
  PROVE  Nat \subseteq T
<1> SUFFICES ASSUME Nat \ T # {} PROVE FALSE
  OBVIOUS
<1>1. PICK m \in Nat \ T : \A n \in Nat \ T : m <= n
  BY LeastNumber
<1>2. m # 0 /\ m - 1 \in Nat /\ m - 1 \in T
  BY <1>1
<1>3. m = (m - 1) + 1
  BY <1>1
<1>4. QED BY <1>1, <1>2, <1>3

\* s holds the sums of the first k numbers of w, for k up to n.
Sums(w, n, s) ==
  /\ s \in [0 .. n -> Nat]
  /\ s[0] = 0
  /\ \A k \in 0 .. n - 1 : s[k + 1] = s[k] + w[k]

\* There are such sums for every n,
LEMMA SumsExist ==
  ASSUME NEW w \in [Nat -> Nat]
  PROVE  \A n \in Nat : \E s : Sums(w, n, s)
<1> DEFINE T == {n \in Nat : \E s : Sums(w, n, s)}
<1>1. 0 \in T
  <2>1. Sums(w, 0, [k \in 0 .. 0 |-> 0])
    BY DEF Sums
  <2>2. QED BY <2>1
<1>2. ASSUME NEW n \in Nat, n \in T PROVE n + 1 \in T
  <2>1. PICK s : Sums(w, n, s)
    BY <1>2
  <2> DEFINE t == [k \in 0 .. n + 1 |-> IF k <= n THEN s[k] ELSE s[n] + w[n]]
  <2>2. /\ s \in [0 .. n -> Nat] /\ s[0] = 0
        /\ \A k \in 0 .. n - 1 : s[k + 1] = s[k] + w[k]
    BY <2>1 DEF Sums
  <2>3. s[n] \in Nat /\ w[n] \in Nat
    BY <2>2
  <2>4. \A k \in 0 .. n + 1 : t[k] \in Nat
    BY <2>2, <2>3
  <2>5. t \in [0 .. n + 1 -> Nat]
    BY <2>4
  <2>50. t[0] = 0
    <3>1. 0 \in 0 .. n + 1 /\ 0 <= n
      OBVIOUS
    <3>2. t[0] = s[0]
      BY <3>1
    <3>3. QED BY <2>2, <3>2
  <2>6. ASSUME NEW k \in 0 .. n PROVE t[k + 1] = t[k] + w[k]
    <3>1. k + 1 \in 0 .. n + 1 /\ k \in 0 .. n + 1
      OBVIOUS
    <3>2. CASE k = n
      BY <2>2, <2>3, <3>1, <3>2
    <3>3. CASE k # n
      <4>1. k \in 0 .. n - 1 /\ k + 1 <= n
        BY <3>3
      <4>2. QED BY <2>2, <3>1, <4>1
    <3>4. QED BY <3>2, <3>3
  <2> HIDE DEF t
  <2>7. Sums(w, n + 1, t)
    BY <2>5, <2>50, <2>6 DEF Sums
  <2>8. QED BY <2>7
<1> HIDE DEF T
<1>3. Nat \subseteq T
  BY <1>1, <1>2, Induction
<1>4. QED BY <1>3 DEF T

\* longer ones continue shorter ones,
LEMMA SumsAgree ==
  ASSUME NEW w \in [Nat -> Nat], NEW n \in Nat, NEW m \in Nat, NEW s, NEW t,
         Sums(w, n, s), Sums(w, m, t), n <= m
  PROVE  s[n] = t[n]
<1> DEFINE T == {k \in Nat : k <= n => s[k] = t[k]}
<1>1. 0 \in T
  BY DEF Sums
<1>2. ASSUME NEW k \in Nat, k \in T PROVE k + 1 \in T
  BY <1>2 DEF Sums
<1> HIDE DEF T
<1>3. n \in T
  BY <1>1, <1>2, Induction
<1>4. QED BY <1>3 DEF T

\* and so the recursive definition has a solution.
LEMMA SumsOfAll ==
  ASSUME NEW w \in [Nat -> Nat]
  PROVE  \E g : g = [n \in Nat |-> IF n = 0 THEN 0 ELSE g[n - 1] + w[n - 1]]
<1> DEFINE s(n) == CHOOSE x : Sums(w, n, x)
           g == [n \in Nat |-> s(n)[n]]
<1>1. \A n \in Nat : Sums(w, n, s(n))
  BY SumsExist
<1> HIDE DEF s
<1>2. g[0] = 0
  BY <1>1 DEF Sums
<1>3. ASSUME NEW n \in Nat, n # 0 PROVE g[n] = g[n - 1] + w[n - 1]
  <2>1. n - 1 \in Nat /\ n - 1 <= n
    BY <1>3
  <2>2. Sums(w, n, s(n)) /\ Sums(w, n - 1, s(n - 1))
    BY <1>1, <2>1
  <2>3. s(n)[n] = s(n)[n - 1] + w[n - 1]
    BY <1>3, <2>1, <2>2 DEF Sums
  <2>4. s(n - 1)[n - 1] = s(n)[n - 1]
    BY <2>1, <2>2, SumsAgree
  <2>5. QED BY <2>1, <2>3, <2>4
<1>4. g = [n \in Nat |-> IF n = 0 THEN 0 ELSE g[n - 1] + w[n - 1]]
  BY <1>2, <1>3
<1>5. QED BY <1>4

-----------------------------------------------------------------------------
(* Bytes and words.                                                        *)

\* What is behind the end of a buffer counts as zeros.
LEMMA ByteAtIsNat ==
  ASSUME NEW b \in Seq(Byte), NEW j \in Nat \ {0}
  PROVE  ByteAt(b, j) \in Nat
<1>1. CASE j <= Len(b)
  <2>1. j \in 1 .. Len(b)
    BY <1>1
  <2>2. QED BY <1>1, <2>1, ByteSequence DEF ByteAt
<1>2. CASE ~(j <= Len(b))
  BY <1>2 DEF ByteAt
<1>3. QED BY <1>1, <1>2

LEMMA WordIsNat ==
  ASSUME NEW b \in Seq(Byte), NEW k \in Nat
  PROVE  Word(b, k) \in Nat
<1>1. 2 * k + 1 \in Nat \ {0} /\ 2 * k + 2 \in Nat \ {0}
  OBVIOUS
<1>2. ByteAt(b, 2 * k + 1) \in Nat /\ ByteAt(b, 2 * k + 2) \in Nat
  BY <1>1, ByteAtIsNat
<1>3. QED BY <1>2 DEF Word

\* What SumOfFirst, a recursive function, is.
LEMMA SumOfFirstRec ==
  ASSUME NEW b \in Seq(Byte)
  PROVE  /\ SumOfFirst(b)[0] = 0
         /\ \A n \in Nat : SumOfFirst(b)[n + 1] = SumOfFirst(b)[n] + Word(b, n)
<1> DEFINE w == [k \in Nat |-> Word(b, k)]
           Solves(g) == g = [n \in Nat |-> IF n = 0 THEN 0 ELSE g[n - 1] + Word(b, n - 1)]
<1>1. w \in [Nat -> Nat]
  BY WordIsNat
<1>2. PICK g : g = [n \in Nat |-> IF n = 0 THEN 0 ELSE g[n - 1] + w[n - 1]]
  <2> HIDE DEF w
  <2> QED BY <1>1, SumsOfAll
<1>3. Solves(g)
  BY <1>2
<1>4. SumOfFirst(b) = CHOOSE h : Solves(h)
  BY DEF SumOfFirst
<1> HIDE DEF Solves
<1>5. Solves(SumOfFirst(b))
  BY <1>3, <1>4
<1> USE DEF Solves
<1>6. QED BY <1>5

LEMMA SumIsNat ==
  ASSUME NEW b \in Seq(Byte)
  PROVE  \A n \in Nat : SumOfFirst(b)[n] \in Nat
<1> DEFINE T == {n \in Nat : SumOfFirst(b)[n] \in Nat}
<1>1. 0 \in T
  BY SumOfFirstRec
<1>2. ASSUME NEW n \in Nat, n \in T PROVE n + 1 \in T
  <2>1. Word(b, n) \in Nat
    BY WordIsNat
  <2>2. SumOfFirst(b)[n + 1] = SumOfFirst(b)[n] + Word(b, n)
    BY SumOfFirstRec
  <2>3. SumOfFirst(b)[n] \in Nat
    BY <1>2
  <2>4. SumOfFirst(b)[n + 1] \in Nat
    BY <2>1, <2>2, <2>3
  <2>5. QED BY <2>4
<1> HIDE DEF T
<1>3. Nat \subseteq T
  BY <1>1, <1>2, Induction
<1>4. QED BY <1>3 DEF T

\* A sum is not less than what is summed.
LEMMA SumAtLeast ==
  ASSUME NEW b \in Seq(Byte), NEW k \in Nat
  PROVE  \A n \in Nat : n > k => SumOfFirst(b)[n] >= Word(b, k)
<1> DEFINE T == {n \in Nat : n > k => SumOfFirst(b)[n] >= Word(b, k)}
<1>1. 0 \in T
  OBVIOUS
<1>2. ASSUME NEW n \in Nat, n \in T PROVE n + 1 \in T
  <2>1. /\ Word(b, n) \in Nat /\ Word(b, k) \in Nat
        /\ SumOfFirst(b)[n] \in Nat
        /\ SumOfFirst(b)[n + 1] = SumOfFirst(b)[n] + Word(b, n)
    BY WordIsNat, SumIsNat, SumOfFirstRec
  <2>2. n > k \/ n = k \/ n + 1 <= k
    OBVIOUS
  <2>3. QED BY <1>2, <2>1, <2>2
<1> HIDE DEF T
<1>3. Nat \subseteq T
  BY <1>1, <1>2, Induction
<1>4. QED BY <1>3 DEF T

\* Two buffers of the same length that differ in one word only.
LEMMA SumsDiffer ==
  ASSUME NEW b \in Seq(Byte), NEW c \in Seq(Byte), Len(b) = Len(c),
         NEW k \in Nat, 2 * k + 2 <= Len(b),
         \A j \in Nat : j # k => Word(b, j) = Word(c, j)
  PROVE  SumOfWords(b) + Word(c, k) = SumOfWords(c) + Word(b, k)
<1> DEFINE sb(n) == SumOfFirst(b)[n]
           sc(n) == SumOfFirst(c)[n]
           T == {n \in Nat : IF n <= k THEN sb(n) = sc(n)
                             ELSE sb(n) + Word(c, k) = sc(n) + Word(b, k)}
<1>1. /\ sb(0) = 0 /\ sc(0) = 0
      /\ \A n \in Nat : sb(n + 1) = sb(n) + Word(b, n)
      /\ \A n \in Nat : sc(n + 1) = sc(n) + Word(c, n)
  BY SumOfFirstRec
<1>2. \A n \in Nat : /\ sb(n) \in Nat /\ sc(n) \in Nat
                     /\ Word(b, n) \in Nat /\ Word(c, n) \in Nat
  BY SumIsNat, WordIsNat
<1>3. SumOfWords(b) = sb((Len(b) + 1) \div 2) /\ SumOfWords(c) = sc((Len(b) + 1) \div 2)
  BY DEF SumOfWords
<1> HIDE DEF sb, sc
<1>4. 0 \in T
  BY <1>1
<1>5. ASSUME NEW n \in Nat, n \in T PROVE n + 1 \in T
  <2>1. /\ sb(n + 1) = sb(n) + Word(b, n) /\ sc(n + 1) = sc(n) + Word(c, n)
        /\ sb(n) \in Nat /\ sc(n) \in Nat
        /\ Word(b, n) \in Nat /\ Word(c, n) \in Nat
        /\ Word(b, k) \in Nat /\ Word(c, k) \in Nat
    BY <1>1, <1>2
  <2>2. CASE n + 1 <= k
    <3>1. n <= k /\ n # k
      BY <2>2
    <3>2. sb(n) = sc(n) /\ Word(b, n) = Word(c, n)
      BY <1>5, <3>1
    <3>3. QED BY <2>1, <2>2, <3>2
  <2>3. CASE n = k
    <3>1. sb(n) = sc(n)
      BY <1>5, <2>3
    <3>2. QED BY <2>1, <2>3, <3>1
  <2>4. CASE n > k
    <3>1. Word(b, n) = Word(c, n) /\ ~(n <= k) /\ ~(n + 1 <= k)
      BY <2>4
    <3>2. sb(n) + Word(c, k) = sc(n) + Word(b, k)
      BY <1>5, <3>1
    <3>3. sb(n + 1) + Word(c, k) = sc(n + 1) + Word(b, k)
      BY <2>1, <3>1, <3>2
    <3>4. QED BY <3>1, <3>3
  <2>5. QED BY <2>2, <2>3, <2>4
<1>6. (Len(b) + 1) \div 2 \in Nat /\ (Len(b) + 1) \div 2 > k
  <2>1. Len(b) \in Nat
    OBVIOUS
  <2>2. QED BY <2>1
<1>7. (Len(b) + 1) \div 2 \in T
  <2> HIDE DEF T
  <2>1. QED BY <1>4, <1>5, <1>6, Induction
<1>8. QED BY <1>3, <1>6, <1>7

-----------------------------------------------------------------------------
(* The buffers.                                                            *)

\* What \o gives, in one place.
LEMMA Joined ==
  ASSUME NEW S, NEW x \in Seq(S), NEW y \in Seq(S)
  PROVE  /\ x \o y \in Seq(S)
         /\ Len(x \o y) = Len(x) + Len(y)
         /\ \A j \in 1 .. Len(x) + Len(y) :
              (x \o y)[j] = IF j <= Len(x) THEN x[j] ELSE y[j - Len(x)]
         /\ Len(x) \in Nat /\ Len(y) \in Nat
BY ConcatProperties

\* The same of bytes.
LEMMA JoinedBytes ==
  ASSUME NEW x \in Seq(Byte), NEW y \in Seq(Byte)
  PROVE  /\ x \o y \in Seq(Byte)
         /\ Len(x \o y) = Len(x) + Len(y)
         /\ \A j \in 1 .. Len(x) + Len(y) :
              (x \o y)[j] = IF j <= Len(x) THEN x[j] ELSE y[j - Len(x)]
BY Joined, Zenon

\* The buffers that have a header before the segment.
LEMMA WithHeader ==
  ASSUME NEW x \in Seq(Byte), Len(x) = 10, NEW y \in Seq(Byte), Len(y) = 2,
         NEW s \in Seq(Byte)
  PROVE  /\ (x \o y) \o s \in Seq(Byte)
         /\ Len((x \o y) \o s) = 12 + Len(s)
         /\ \A j \in 1 .. 12 + Len(s) :
              ((x \o y) \o s)[j] = IF j <= 10 THEN x[j]
                                   ELSE IF j <= 12 THEN y[j - 10] ELSE s[j - 12]
<1> DEFINE h == x \o y
           w == h \o s
<1>1. /\ h \in Seq(Byte) /\ Len(h) = Len(x) + Len(y)
      /\ \A j \in 1 .. Len(x) + Len(y) :
           h[j] = IF j <= Len(x) THEN x[j] ELSE y[j - Len(x)]
  BY JoinedBytes, Zenon
<1> HIDE DEF h
<1>2. /\ w \in Seq(Byte) /\ Len(w) = Len(h) + Len(s)
      /\ \A j \in 1 .. Len(h) + Len(s) :
           w[j] = IF j <= Len(h) THEN h[j] ELSE s[j - Len(h)]
  <2>1. h \in Seq(Byte)
    BY <1>1
  <2>2. QED BY <2>1, JoinedBytes, Zenon
<1>3. Len(s) \in Nat
  OBVIOUS
<1> HIDE DEF w
<1>4. Len(h) = 12
  BY <1>1
<1>5. \A j \in 1 .. 12 : h[j] = IF j <= 10 THEN x[j] ELSE y[j - 10]
  BY <1>1
<1>6. \A j \in 1 .. 12 + Len(s) : w[j] = IF j <= 12 THEN h[j] ELSE s[j - 12]
  BY <1>2, <1>4
<1>7. \A j \in 1 .. 12 + Len(s) : w[j] = IF j <= 10 THEN x[j]
                                   ELSE IF j <= 12 THEN y[j - 10] ELSE s[j - 12]
  BY <1>3, <1>5, <1>6
<1>8. w \in Seq(Byte) /\ Len(w) = 12 + Len(s)
  BY <1>2, <1>4
<1>9. QED BY <1>7, <1>8 DEF w, h

\* A number of sixteen bits as two bytes.
LEMMA LengthBytes ==
  ASSUME NEW n \in Nat, n < 65536
  PROVE  /\ n \div 256 \in Nat /\ n \div 256 < 256
         /\ n % 256 \in Nat /\ n % 256 < 256
         /\ 256 * (n \div 256) + (n % 256) = n
<1> DEFINE q == n \div 256
           r == n % 256
<1>1. q \in Nat /\ r \in Nat /\ r < 256 /\ n = 256 * q + r
  OBVIOUS
<1> HIDE DEF q, r
<1>2. q < 256
  BY <1>1
<1>3. QED BY <1>1, <1>2 DEF q, r

\* The two buffers of a segment, its sender's and its receiver's.
LEMMA SegmentHeaders ==
  ASSUME NEW src \in Address, NEW dst \in Address, NEW s \in Segment
  PROVE  Headers(PseudoHeader(src, dst, s) \o s,
                 TruePseudoHeader(src, dst, s) \o s, Len(s))
<1> DEFINE x == (src \o dst) \o <<0, 6>>
           y == <<0, HeaderLength>>
           z == <<Len(s) \div 256, Len(s) % 256>>
           b == (x \o y) \o s
           c == (x \o z) \o s
<1>1. /\ src \in Seq(Byte) /\ Len(src) = 4
      /\ dst \in Seq(Byte) /\ Len(dst) = 4
      /\ s \in Seq(Byte) /\ Len(s) < 65536 /\ Len(s) \in Nat
  BY AddressAssumption, SegmentAssumption
<1>2. x \in Seq(Byte) /\ Len(x) = 10
  <2>1. src \o dst \in Seq(Byte) /\ Len(src \o dst) = 8
    <3>1. src \in Seq(Byte) /\ dst \in Seq(Byte)
      BY <1>1
    <3>2. src \o dst \in Seq(Byte) /\ Len(src \o dst) = Len(src) + Len(dst)
      BY <3>1, JoinedBytes, Zenon
    <3>3. QED BY <1>1, <3>2
  <2>2. <<0, 6>> \in Seq(Byte)
    BY DEF Byte
  <2>3. QED BY <2>1, <2>2, JoinedBytes
<1>3. y \in Seq(Byte) /\ Len(y) = 2 /\ y[1] = 0 /\ y[2] = HeaderLength
  BY DEF Byte, HeaderLength
<1>4. /\ Len(s) \div 256 \in Nat /\ Len(s) \div 256 < 256
      /\ Len(s) % 256 \in Nat /\ Len(s) % 256 < 256
      /\ 256 * (Len(s) \div 256) + (Len(s) % 256) = Len(s)
  BY <1>1, LengthBytes
<1>5. /\ z \in Seq(Byte) /\ Len(z) = 2
      /\ z[1] = Len(s) \div 256 /\ z[2] = Len(s) % 256
  BY <1>4 DEF Byte
<1> HIDE DEF x, y, z
<1>6. /\ b \in Seq(Byte) /\ Len(b) = 12 + Len(s)
      /\ \A j \in 1 .. 12 + Len(s) :
           b[j] = IF j <= 10 THEN x[j] ELSE IF j <= 12 THEN y[j - 10] ELSE s[j - 12]
  <2>1. x \in Seq(Byte) /\ Len(x) = 10 /\ y \in Seq(Byte) /\ Len(y) = 2 /\ s \in Seq(Byte)
    BY <1>1, <1>2, <1>3
  <2>2. QED BY <2>1, WithHeader, Zenon
<1>7. /\ c \in Seq(Byte) /\ Len(c) = 12 + Len(s)
      /\ \A j \in 1 .. 12 + Len(s) :
           c[j] = IF j <= 10 THEN x[j] ELSE IF j <= 12 THEN z[j - 10] ELSE s[j - 12]
  <2>1. x \in Seq(Byte) /\ Len(x) = 10 /\ z \in Seq(Byte) /\ Len(z) = 2 /\ s \in Seq(Byte)
    BY <1>1, <1>2, <1>5
  <2>2. QED BY <2>1, WithHeader, Zenon
<1> HIDE DEF b, c
<1>8. ASSUME NEW j \in Nat \ {0, 11, 12} PROVE ByteAt(b, j) = ByteAt(c, j)
  <2>1. Len(b) = 12 + Len(s) /\ Len(c) = 12 + Len(s) /\ Len(s) \in Nat
    BY <1>1, <1>6, <1>7
  <2>2. CASE j <= 12 + Len(s)
    <3>1. j \in 1 .. 12 + Len(s) /\ (j <= 10 \/ ~(j <= 12))
      BY <2>1, <2>2
    <3>2. b[j] = c[j]
      BY <1>6, <1>7, <3>1
    <3>3. QED BY <2>1, <2>2, <3>2 DEF ByteAt
  <2>3. CASE ~(j <= 12 + Len(s))
    BY <2>1, <2>3 DEF ByteAt
  <2>4. QED BY <2>2, <2>3
<1>9. ASSUME NEW j \in Nat, j # 5 PROVE Word(b, j) = Word(c, j)
  <2>1. 2 * j + 1 \in Nat \ {0, 11, 12} /\ 2 * j + 2 \in Nat \ {0, 11, 12}
    BY <1>9
  <2>2. QED BY <1>8, <2>1 DEF Word
<1>10. /\ b[11] = 0 /\ b[12] = HeaderLength
       /\ c[11] = Len(s) \div 256 /\ c[12] = Len(s) % 256
  <2>1. \A j \in 11 .. 12 : j \in 1 .. 12 + Len(s)
    BY <1>1
  <2>2. b[11] = y[1] /\ b[12] = y[2]
    BY <1>6, <2>1
  <2>3. c[11] = z[1] /\ c[12] = z[2]
    BY <1>7, <2>1
  <2>4. QED BY <1>2, <1>3, <1>5, <2>2, <2>3
<1>11. /\ Word(b, 5) = 256 * ByteAt(b, 11) + ByteAt(b, 12)
       /\ Word(c, 5) = 256 * ByteAt(c, 11) + ByteAt(c, 12)
  BY DEF Word
<1>12. /\ ByteAt(b, 11) = 0 /\ ByteAt(b, 12) = HeaderLength
       /\ ByteAt(c, 11) = Len(s) \div 256 /\ ByteAt(c, 12) = Len(s) % 256
  BY <1>1, <1>6, <1>7, <1>10 DEF ByteAt
<1>13. Word(b, 5) = HeaderLength /\ Word(c, 5) = Len(s)
  BY <1>4, <1>11, <1>12 DEF HeaderLength
<1>14. Headers(b, c, Len(s))
  <2>1. Len(s) \in Nat /\ Len(s) < 65536
    BY <1>1
  <2>2. /\ b \in Seq(Byte) /\ Len(b) = 12 + Len(s)
        /\ c \in Seq(Byte) /\ Len(c) = 12 + Len(s)
    BY <1>6, <1>7
  <2>3. QED BY <1>9, <1>13, <2>1, <2>2 DEF Headers
<1>15. QED BY <1>14 DEF b, c, x, y, z, PseudoHeader, TruePseudoHeader

-----------------------------------------------------------------------------
LEMMA InitIInv == Init => IInv
<1> SUFFICES ASSUME Init PROVE IInv
  OBVIOUS
<1>1. buffer \in Seq(Byte) /\ sent \in Seq(Byte) /\ Given
  <2>1. CASE \E b \in Buffer : buffer = b /\ sent = b
    BY <2>1, BufferAssumption DEF Given
  <2>2. CASE \E src, dst \in Address, s \in Segment :
               /\ buffer = PseudoHeader(src, dst, s) \o s
               /\ sent = TruePseudoHeader(src, dst, s) \o s
    <3>1. PICK s \in Segment : Headers(buffer, sent, Len(s))
      BY <2>2, SegmentHeaders
    <3> DEFINE n == Len(s)
    <3> HIDE DEF n
    <3>2. Headers(buffer, sent, n)
      BY <3>1 DEF n
    <3>3. n \in Nat /\ buffer \in Seq(Byte) /\ sent \in Seq(Byte)
      BY <3>2 DEF Headers
    <3>4. QED BY <3>2, <3>3 DEF Given
  <2>3. QED BY <2>1, <2>2 DEF Init
<1>2. /\ i = 0 /\ cksum = 0 /\ total = 0 /\ pc = "words" /\ ret = 0
  BY DEF Init
<1>3. Summed
  <2>1. Len(buffer) \in Nat
    BY <1>1
  <2>2. 0 <= Len(buffer) \div 2
    BY <2>1
  <2>3. SumOfFirst(buffer)[0] = 0
    BY <1>1, SumOfFirstRec
  <2>4. QED BY <1>2, <2>2, <2>3 DEF Summed, SumsWords
<1>4. QED
  BY <1>1, <1>2, <1>3 DEF IInv, TypeOK, Folded, Complemented

\* A word that is within the buffer.
LEMMA WholeWord ==
  ASSUME NEW b \in Seq(Byte), NEW k \in Nat, k < Len(b) \div 2
  PROVE  /\ b[2 * k + 1] \in Nat /\ b[2 * k + 2] \in Nat
         /\ Word(b, k) = 256 * b[2 * k + 1] + b[2 * k + 2]
<1>1. Len(b) \in Nat
  OBVIOUS
<1>2. 2 * k + 1 \in 1 .. Len(b) /\ 2 * k + 2 \in 1 .. Len(b)
  BY <1>1
<1>3. b[2 * k + 1] \in Nat /\ b[2 * k + 2] \in Nat
  BY <1>2, ByteSequence
<1>4. ByteAt(b, 2 * k + 1) = b[2 * k + 1] /\ ByteAt(b, 2 * k + 2) = b[2 * k + 2]
  BY <1>2 DEF ByteAt
<1>5. QED BY <1>3, <1>4 DEF Word

\* The words within the buffer, and the one that begins with its last byte if
\* their number is odd, are all its words.
LEMMA LastWord ==
  ASSUME NEW b \in Seq(Byte)
  PROVE  /\ Len(b) % 2 = 1 =>
              /\ b[Len(b)] \in Nat
              /\ SumOfWords(b) = SumOfFirst(b)[Len(b) \div 2] + 256 * b[Len(b)]
         /\ Len(b) % 2 # 1 => SumOfWords(b) = SumOfFirst(b)[Len(b) \div 2]
<1> DEFINE l == Len(b)
           h == l \div 2
<1>1. l \in Nat /\ h \in Nat
  OBVIOUS
<1>2. SumOfWords(b) = SumOfFirst(b)[(l + 1) \div 2]
  BY DEF SumOfWords
<1> HIDE DEF l
<1>3. CASE l % 2 = 1
  <2>1. l = 2 * h + 1 /\ (l + 1) \div 2 = h + 1 /\ l \in 1 .. l
    BY <1>1, <1>3
  <2> HIDE DEF h
  <2>2. b[l] \in Nat
    BY <2>1, ByteSequence DEF l
  <2>3. ByteAt(b, 2 * h + 1) = b[l] /\ ByteAt(b, 2 * h + 2) = 0
    BY <1>1, <2>1 DEF ByteAt, l
  <2>4. Word(b, h) = 256 * b[l]
    BY <2>2, <2>3 DEF Word
  <2>5. SumOfFirst(b)[h + 1] = SumOfFirst(b)[h] + Word(b, h)
    BY <1>1, SumOfFirstRec
  <2>6. QED BY <1>2, <1>3, <2>1, <2>2, <2>4, <2>5 DEF l, h
<1>4. CASE l % 2 # 1
  <2>1. (l + 1) \div 2 = h
    BY <1>1, <1>4
  <2>2. QED BY <1>2, <1>4, <2>1 DEF l, h
<1>5. QED BY <1>3, <1>4

\* Each action leaves the buffers as they are.
LEMMA Constant == [Next]_vars => buffer' = buffer /\ sent' = sent
BY DEF Next, vars, Add, AddEnd, Odd, Fold, Return

LEMMA GivenStep == Given /\ [Next]_vars => Given'
BY Constant DEF Given

\* The loops stay within the buffer, so what they add is a byte, and have summed
\* its words once each when they end.
LEMMA IInvStep == IInv /\ [Next]_vars => IInv'
<1> SUFFICES ASSUME IInv, [Next]_vars PROVE IInv'
  OBVIOUS
<1>0. /\ buffer \in Seq(Byte) /\ Len(buffer) \in Nat
      /\ i \in Nat /\ cksum \in Nat /\ total \in Nat
      /\ Given'
  BY GivenStep DEF IInv, TypeOK
<1>a. CASE Add
  <2>1. i < Len(buffer) \div 2 /\ i \in Nat
    BY <1>0, <1>a DEF Add
  <2>2. /\ buffer[2 * i + 1] \in Nat /\ buffer[2 * i + 2] \in Nat
        /\ Word(buffer, i) = 256 * buffer[2 * i + 1] + buffer[2 * i + 2]
    BY <1>0, <2>1, WholeWord
  <2>3. cksum' \in Nat /\ i' \in Nat /\ i' <= Len(buffer) \div 2
    <3> DEFINE hi == buffer[2 * i + 1]
               lo == buffer[2 * i + 2]
               half == Len(buffer) \div 2
    <3>1. hi \in Nat /\ lo \in Nat /\ half \in Nat /\ i < half
      BY <1>0, <2>1, <2>2
    <3>2. cksum' = cksum + 256 * hi + lo /\ i' = i + 1
      BY <1>a DEF Add
    <3> HIDE DEF hi, lo, half
    <3>3. cksum' \in Nat /\ i' \in Nat /\ i' <= half
      BY <1>0, <2>1, <3>1, <3>2
    <3>4. QED BY <3>3 DEF half
  <2>4. cksum' = SumOfFirst(buffer)[i']
    <3>1. cksum = SumOfFirst(buffer)[i]
      BY <1>a DEF Add, IInv, Summed
    <3>2. SumOfFirst(buffer)[i + 1] = SumOfFirst(buffer)[i] + Word(buffer, i)
      BY <1>0, SumOfFirstRec
    <3>3. cksum' = cksum + Word(buffer, i) /\ i' = i + 1
      BY <1>0, <1>a, <2>2 DEF Add
    <3>4. QED BY <3>1, <3>2, <3>3
  <2>5. Summed'
    BY <1>a, <2>3, <2>4 DEF Add, Summed, SumsWords
  <2> QED
    BY <1>0, <1>a, <2>3, <2>5 DEF Add, IInv, TypeOK, Folded, Complemented
<1>b. CASE AddEnd
  <2>1. Len(buffer) \div 2 \in Nat
    BY <1>0
  <2>2. i = Len(buffer) \div 2
    BY <1>0, <1>b, <2>1 DEF AddEnd, IInv, Summed
  <2>3. Summed'
    BY <1>b, <2>2 DEF AddEnd, IInv, Summed, SumsWords
  <2> QED
    BY <1>0, <1>b, <2>3 DEF AddEnd, IInv, TypeOK, Folded, Complemented
<1>c. CASE Odd
  <2>1. cksum = SumOfFirst(buffer)[Len(buffer) \div 2]
    BY <1>c DEF Odd, IInv, Summed
  <2>2. cksum' \in Nat /\ cksum' = SumOfWords(buffer)
    <3>1. CASE Len(buffer) % 2 = 1
      <4>1. cksum' = cksum + 256 * buffer[Len(buffer)]
        BY <1>c, <3>1 DEF Odd
      <4>2. /\ buffer[Len(buffer)] \in Nat
            /\ SumOfWords(buffer) = cksum + 256 * buffer[Len(buffer)]
        BY <1>0, <2>1, <3>1, LastWord
      <4>3. QED BY <1>0, <4>1, <4>2
    <3>2. CASE Len(buffer) % 2 # 1
      <4>1. cksum' = cksum
        BY <1>c, <3>2 DEF Odd
      <4>2. SumOfWords(buffer) = cksum
        BY <1>0, <2>1, <3>2, LastWord
      <4>3. QED BY <1>0, <4>1, <4>2
    <3>3. QED BY <3>1, <3>2
  <2>3. Folded' /\ Summed'
    BY <1>c, <2>2 DEF Odd, Folded, Summed, SumsWords
  <2> QED
    BY <1>0, <1>c, <2>2, <2>3 DEF Odd, IInv, TypeOK, Complemented
<1>d. CASE Fold
  <2> DEFINE c == cksum \div 65536
  <2>1. cksum \in Nat /\ cksum >= 65536 /\ total \in Nat
    BY <1>0, <1>d DEF Fold, Carry
  <2>2. /\ c \in Nat /\ cksum' \in Nat /\ cksum' > 0
        /\ cksum = cksum' + 65535 * c
    BY <1>d, <2>1, FoldLosesCarries DEF Fold
  <2> HIDE DEF c
  <2>3. OnesSum(cksum') = OnesSum(cksum)
    BY <2>1, <2>2, OnesSumModulo
  <2>4. Folded'
    BY <1>d, <2>3 DEF Fold, IInv, Folded
  <2>5. Summed'
    BY <1>d DEF Fold, IInv, Summed, SumsWords
  <2> QED
    BY <1>0, <1>d, <2>2, <2>4, <2>5 DEF Fold, IInv, TypeOK, Complemented
<1>e. CASE Return
  <2>1. cksum \in Nat /\ cksum < 65536
    BY <1>0, <1>e DEF Return, Carry
  <2>2. cksum % 65536 = cksum
    BY <2>1
  <2>3. ret' = 65535 - cksum /\ ret' \in Nat /\ ret' < 65536
    BY <1>e, <2>1, <2>2 DEF Return
  <2>4. Summed'
    BY <1>e DEF Return, IInv, Summed, SumsWords
  <2> QED
    BY <1>0, <1>e, <2>1, <2>3, <2>4 DEF Return, IInv, TypeOK, Folded, Complemented
<1>f. CASE UNCHANGED vars
  <2>1. Summed'
    BY <1>f DEF vars, IInv, Summed, SumsWords
  <2> QED
    BY <1>0, <1>f, <2>1 DEF vars, IInv, TypeOK, Folded, Complemented
<1> QED
  BY <1>a, <1>b, <1>c, <1>d, <1>e, <1>f DEF Next

-----------------------------------------------------------------------------
\* checkSum() keeps to its types and returns an unsigned short, whatever the
\* buffer.
THEOREM TypeCorrect == Spec => []TypeOK
<1>1. IInv => TypeOK
  BY DEF IInv
<1> QED
  BY <1>1, InitIInv, IInvStep, PTL DEF Spec

\* The two loops of checkSum() sum every word of the buffer exactly once, an odd
\* last byte as the high half of a word, for buffers of every length.
THEOREM SumsEveryWord == Spec => []SumsWords
<1>1. IInv => SumsWords
  BY DEF IInv, Summed
<1> QED
  BY <1>1, InitIInv, IInvStep, PTL DEF Spec

\* The result is the complement of the one's complement sum of the words.
LEMMA ReturnsComplement == IInv /\ pc = "done" => ret = 65535 - OnesSum(total)
<1> SUFFICES ASSUME IInv, pc = "done" PROVE ret = 65535 - OnesSum(total)
  OBVIOUS
<1>1. cksum \in Nat /\ cksum < 65536 /\ ret = 65535 - cksum
  BY DEF IInv, TypeOK, Complemented
<1>2. OnesSum(cksum) = OnesSum(total)
  BY DEF IInv, Folded
<1>3. OnesSum(cksum) = cksum
  BY <1>1, OnesSumOfWord
<1> QED
  BY <1>1, <1>2, <1>3

\* The folding loop of checkSum() loses no carry: what is returned is the
\* complement of the one's complement sum of what the loops have added, for
\* buffers of every length.
THEOREM FoldingIsOnesComplement == Spec => []OnesComplement
<1>1. IInv => OnesComplement
  BY ReturnsComplement DEF OnesComplement
<1> QED
  BY <1>1, InitIInv, IInvStep, PTL DEF Spec

\* The one's complement sum is the remainder, between 1 and 65535.
LEMMA OnesSumOf ==
  ASSUME NEW v \in Nat, NEW q \in Nat, NEW r \in Nat, r >= 1, r <= 65535,
         v = 65535 * q + r
  PROVE  OnesSum(v) = r
<1>1. v = r + 65535 * q /\ r > 0 /\ r < 65536
  OBVIOUS
<1>2. OnesSum(r) = OnesSum(v)
  BY <1>1, OnesSumModulo
<1>3. OnesSum(r) = r
  BY <1>1, OnesSumOfWord
<1>4. QED BY <1>2, <1>3

\* A sum that is not zero, as a quotient and a remainder that is not zero.
LEMMA OnesSumIs ==
  ASSUME NEW t \in Nat, t > 0
  PROVE  /\ OnesSum(t) \in Nat /\ OnesSum(t) >= 1 /\ OnesSum(t) <= 65535
         /\ (t - 1) \div 65535 \in Nat
         /\ t = 65535 * ((t - 1) \div 65535) + OnesSum(t)
<1> DEFINE q == (t - 1) \div 65535
           r == (t - 1) % 65535
<1>1. t - 1 \in Nat
  OBVIOUS
<1>2. q \in Nat /\ r \in Nat /\ r < 65535 /\ t - 1 = 65535 * q + r
  BY <1>1
<1>3. OnesSum(t) = r + 1
  BY DEF OnesSum
<1> HIDE DEF q, r
<1>4. t = 65535 * q + OnesSum(t)
  BY <1>2, <1>3
<1>5. QED BY <1>2, <1>3, <1>4 DEF q

\* The receiver's sum is all ones exactly if what it sums is what was summed, or
\* differs by nothing: a difference in the length word, which is less than
\* 65535 either way, cannot be a multiple of it.
LEMMA AllOnes ==
  ASSUME NEW t \in Nat, NEW u \in Nat, NEW n \in Nat, n < 65536, t > 0,
         u + 20 = t + n
  PROVE  OnesSum(u + (65535 - OnesSum(t))) = 65535 <=> n = 20
<1> DEFINE s == OnesSum(t)
           v == u + (65535 - s)
           q == (t - 1) \div 65535
<1>1. q \in Nat /\ t = 65535 * q + s
  BY OnesSumIs
<1>2. s \in Nat /\ s >= 1 /\ s <= 65535
  BY OnesSumIs
<1> HIDE DEF s, q
<1>3. v + 20 = 65535 * (q + 1) + n /\ v \in Nat /\ v > 0
  BY <1>1, <1>2
<1> HIDE DEF v
<1>4. CASE n = 20
  <2>1. v = 65535 * q + 65535
    BY <1>1, <1>3, <1>4
  <2>2. OnesSum(v) = 65535
    BY <1>1, <1>3, <2>1, OnesSumOf
  <2>3. QED BY <1>4, <2>2 DEF v, s
<1>5. CASE n > 20
  <2>1. v = 65535 * (q + 1) + (n - 20) /\ n - 20 \in Nat /\ n - 20 >= 1 /\ n - 20 < 65535
    BY <1>1, <1>3, <1>5
  <2>2. q + 1 \in Nat
    BY <1>1
  <2>3. OnesSum(v) = n - 20
    BY <1>3, <2>1, <2>2, OnesSumOf
  <2>4. QED BY <1>5, <2>1, <2>3 DEF v, s
<1>6. CASE n < 20
  <2>1. v = 65535 * q + (65515 + n) /\ 65515 + n \in Nat /\ 65515 + n >= 1 /\ 65515 + n < 65535
    BY <1>1, <1>3, <1>6
  <2>2. OnesSum(v) = 65515 + n
    BY <1>1, <1>3, <2>1, OnesSumOf
  <2>3. QED BY <1>6, <2>1, <2>2 DEF v, s
<1>7. QED BY <1>4, <1>5, <1>6

\* A receiver that sums what it is sent, the checksum included, accepts every IP
\* header, and those TCP segments, of every length and content, that are as
\* long as tcpCheckSum() says: twenty bytes.
THEOREM AcceptedIffWhole == Spec => []Accepted
<1>1. IInv => Accepted
  <2> SUFFICES ASSUME IInv, pc = "done"
               PROVE  OnesSum(SumOfWords(sent) + ret) = 65535
                        <=> (sent = buffer \/ Len(sent) = 12 + HeaderLength)
    BY DEF Accepted
  <2>1. /\ ret = 65535 - OnesSum(total) /\ total = SumOfWords(buffer)
        /\ buffer \in Seq(Byte) /\ sent \in Seq(Byte) /\ total \in Nat
    BY ReturnsComplement DEF IInv, TypeOK, Summed, SumsWords
  <2>2. CASE sent = buffer
    <3>1. OnesSum(total + (65535 - OnesSum(total))) = 65535
      <4>1. CASE total = 0
        <5>1. OnesSum(total) = 0
          BY <4>1 DEF OnesSum
        <5>2. OnesSum(65535) = 65535
          BY OnesSumOfWord
        <5>3. QED BY <4>1, <5>1, <5>2
      <4>2. CASE total > 0
        <5>1. total + 20 = total + 20 /\ 20 \in Nat /\ 20 < 65536
          BY <2>1
        <5>2. QED BY <2>1, <4>2, <5>1, AllOnes
      <4>3. QED BY <2>1, <4>1, <4>2
    <3>2. QED BY <2>1, <2>2, <3>1
  <2>3. CASE \E n \in Nat : Headers(buffer, sent, n)
    <3>1. PICK n \in Nat : Headers(buffer, sent, n)
      BY <2>3
    <3>2. /\ n < 65536 /\ Len(buffer) = 12 + n /\ Len(sent) = 12 + n
          /\ \A j \in Nat : j # 5 => Word(buffer, j) = Word(sent, j)
          /\ Word(buffer, 5) = 20 /\ Word(sent, 5) = n
      BY <3>1 DEF Headers, HeaderLength
    <3>3. total + n = SumOfWords(sent) + 20
      <4>1. 2 * 5 + 2 <= Len(buffer) /\ Len(buffer) = Len(sent)
        BY <3>2
      <4>2. SumOfWords(buffer) + Word(sent, 5) = SumOfWords(sent) + Word(buffer, 5)
        BY <2>1, <3>2, <4>1, SumsDiffer
      <4>3. QED BY <2>1, <3>2, <4>2
    <3>4. SumOfWords(sent) \in Nat /\ total > 0
      <4>1. Len(buffer) \in Nat /\ Len(sent) \in Nat /\ n \in Nat
        BY <2>1
      <4>2. (Len(buffer) + 1) \div 2 \in Nat /\ (Len(buffer) + 1) \div 2 > 5
        BY <3>2, <4>1
      <4>3. (Len(sent) + 1) \div 2 \in Nat
        BY <4>1
      <4>4. SumOfWords(sent) \in Nat
        BY <2>1, <4>3, SumIsNat DEF SumOfWords
      <4>5. SumOfWords(buffer) >= Word(buffer, 5)
        BY <2>1, <4>2, SumAtLeast DEF SumOfWords
      <4>6. QED BY <2>1, <3>2, <4>4, <4>5
    <3>5. OnesSum(SumOfWords(sent) + ret) = 65535 <=> n = 20
      BY <2>1, <3>2, <3>3, <3>4, AllOnes
    <3>6. sent = buffer => n = 20
      BY <3>2
    <3>7. QED BY <3>2, <3>5, <3>6 DEF HeaderLength
  <2>4. QED BY <2>2, <2>3 DEF IInv, Given
<1> QED
  BY <1>1, InitIInv, IInvStep, PTL DEF Spec
=============================================================================
