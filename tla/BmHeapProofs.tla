---------------------------- MODULE BmHeapProofs ----------------------------
(***************************************************************************)
(* Theorems about the heap of BmHeap, for every region size, word width    *)
(* and set of sizes and alignments callers ask for.                        *)
(***************************************************************************)
EXTENDS BmHeap, FiniteSetTheorems, WellFoundedInduction, TLAPS

-----------------------------------------------------------------------------
(* Powers of two and the position of the highest bit.                       *)

(* A power of two counts the subsets of an interval, which is how the       *)
(* provers get at it.                                                       *)
LEMMA PowerCounts ==
    ASSUME NEW i \in Nat
    PROVE  IsFiniteSet(SUBSET (1..i)) /\ Cardinality(SUBSET (1..i)) = 2^i
<1>1. IsFiniteSet(1..i) /\ Cardinality(1..i) = i
  BY FS_Interval
<1> QED
  BY <1>1, FS_SUBSET

(* Powers of two are positive and grow with their exponent. *)
LEMMA PowerGrows ==
    ASSUME NEW i \in Nat, NEW j \in Nat, i <= j
    PROVE  2^i \in Nat /\ 2^j \in Nat /\ 1 <= 2^i /\ 2^i <= 2^j
<1>1. /\ IsFiniteSet(SUBSET (1..i)) /\ Cardinality(SUBSET (1..i)) = 2^i
      /\ IsFiniteSet(SUBSET (1..j)) /\ Cardinality(SUBSET (1..j)) = 2^j
  BY PowerCounts
<1>2. SUBSET (1..i) \subseteq SUBSET (1..j)
  OBVIOUS
<1>3. 2^i <= 2^j
  BY <1>1, <1>2, FS_Subset
<1>4. 2^i \in Nat /\ 2^j \in Nat
  BY <1>1, FS_CardinalityType
<1>5. SUBSET (1..i) # {}
  OBVIOUS
<1>6. 2^i # 0
  BY <1>1, <1>5, FS_EmptySet
<1> QED
  BY <1>3, <1>4, <1>6

(* A non-empty set of naturals has a least member, so Min is in it. *)
LEMMA LeastMember ==
    ASSUME NEW S \in SUBSET Nat, S # {}
    PROVE  Min(S) \in S /\ \A k \in S : Min(S) <= k
<1>1. PICK m \in S : \A k \in S : ~(<<k, m>> \in OpToRel(<, Nat))
  BY NatLessThanWellFounded, WFMin
<1>2. \A k \in S : ~(k < m)
  BY <1>1 DEF OpToRel
<1>3. \A k \in S : m <= k
  BY <1>2
<1> QED
  BY <1>3 DEF Min

(* What the assumption on the constants says of the sizes that occur. *)
LEMMA Bounds ==
    /\ LastIdx \in Nat /\ LastIdx + 1 = WordBits
    /\ 2^LastIdx \in Nat
    /\ MaxVal = 2^LastIdx - 8
    /\ Top \in Nat /\ Top > 0 /\ Top % 4 = 0 /\ Top < 2^LastIdx
<1>1. LastIdx \in Nat /\ LastIdx + 1 = WordBits
  BY SizeAssumption DEF LastIdx
<1>2. 2^LastIdx \in Nat
  BY <1>1, PowerGrows
<1> DEFINE P == 2^LastIdx
<1>3. P \in Nat /\ MaxVal = P - 8
  BY <1>2 DEF MaxVal, SizeAlign
<1> HIDE DEF P
<1>4. RegionSize \in 40..(P - 8) /\ RegionSize % 4 = 0
  BY <1>3, SizeAssumption DEF MinSize, HeadSize, SizeAlign
<1>5. Top \in Nat /\ Top > 0 /\ Top % 4 = 0 /\ Top < P
  BY <1>3, <1>4 DEF Top, HeadSize
<1> QED
  BY <1>1, <1>3, <1>5 DEF P

(* FSC_MEM_SZ2IDX of a size a region can hold is a class, the one whose     *)
(* powers of two enclose the size.                                          *)
LEMMA SizeIdxBounds ==
    ASSUME NEW n \in Nat, 0 < n, n < 2^LastIdx
    PROVE  /\ SizeIdx(n) \in Idx
           /\ 2^SizeIdx(n) <= n /\ n < 2^(SizeIdx(n) + 1)
<1> DEFINE S == {j \in Nat : n < 2^j}
<1>1. LastIdx \in S
  BY Bounds
<1>2. PICK j \in S : \A k \in S : j <= k
  BY <1>1, LeastMember
<1>3. j \in Nat /\ n < 2^j
  BY <1>2
<1>4. j # 0
  <2>1. 2^0 = 1
    OBVIOUS
  <2>2. ~(n < 1)
    OBVIOUS
  <2> QED
    BY <1>3, <2>1, <2>2, Zenon
<1>5. j <= LastIdx
  BY <1>1, <1>2
<1>6. j - 1 \in 0..LastIdx /\ j - 1 \in Nat
  BY <1>3, <1>4, <1>5, Bounds
<1>7. 2^(j - 1) <= n
  <2>1. j - 1 \notin S
    BY <1>2, <1>3
  <2>2. 2^(j - 1) \in Nat
    BY <1>6, PowerGrows
  <2> QED
    BY <2>1, <2>2, <1>6
<1>8. (j - 1) + 1 = j
  BY <1>3
<1>9. \E i \in 0..LastIdx : 2^i <= n /\ n < 2^(i + 1)
  BY <1>3, <1>6, <1>7, <1>8
<1>10. SizeIdx(n) \in 0..LastIdx /\ 2^SizeIdx(n) <= n /\ n < 2^(SizeIdx(n) + 1)
  BY <1>9 DEF SizeIdx
<1> DEFINE c == SizeIdx(n)
<1>11. c \in 0..LastIdx /\ 2^c <= n
  BY <1>10
<1> HIDE DEF c
<1>12. c # LastIdx
  BY <1>11, Bounds
<1>13. c \in Idx
  BY <1>11, <1>12, Bounds DEF Idx
<1> QED
  BY <1>10, <1>13 DEF c

(* A size of a higher class is larger. *)
LEMMA HigherClass ==
    ASSUME NEW n \in Nat, 0 < n, n < 2^LastIdx,
           NEW m \in Nat, 0 < m, m < 2^LastIdx
    PROVE  /\ SizeIdx(n) < SizeIdx(m) => n < m
           /\ n <= m => SizeIdx(n) <= SizeIdx(m)
<1> DEFINE c == SizeIdx(n)
           d == SizeIdx(m)
<1>1. /\ c \in Nat /\ 2^c <= n /\ n < 2^(c + 1)
      /\ d \in Nat /\ 2^d <= m /\ m < 2^(d + 1)
  BY SizeIdxBounds, Bounds DEF Idx
<1> HIDE DEF c, d
<1>2. ASSUME c < d PROVE n < m
  <2>1. c + 1 \in Nat /\ c + 1 <= d
    BY <1>1, <1>2
  <2>2. 2^(c + 1) \in Nat /\ 2^d \in Nat /\ 2^(c + 1) <= 2^d
    BY <1>1, <2>1, PowerGrows
  <2> DEFINE x == 2^(c + 1)
             y == 2^d
  <2>3. x \in Nat /\ y \in Nat /\ x <= y /\ n < x /\ y <= m
    BY <1>1, <2>2
  <2> HIDE DEF x, y
  <2> QED
    BY <2>3
<1>3. ASSUME n <= m, ~(c <= d) PROVE FALSE
  <2>1. d + 1 \in Nat /\ d + 1 <= c
    BY <1>1, <1>3
  <2>2. 2^(d + 1) \in Nat /\ 2^c \in Nat /\ 2^(d + 1) <= 2^c
    BY <1>1, <2>1, PowerGrows
  <2> DEFINE x == 2^(d + 1)
             y == 2^c
  <2>3. x \in Nat /\ y \in Nat /\ x <= y /\ m < x /\ y <= n
    BY <1>1, <2>2
  <2> HIDE DEF x, y
  <2> QED
    BY <2>3, <1>3
<1> QED
  BY <1>2, <1>3 DEF c, d

-----------------------------------------------------------------------------
(* The size computed for a request, and the address returned.               *)

(* Rounding up to a multiple. *)
LEMMA AlignUpBounds ==
    ASSUME NEW n \in Nat, NEW a \in Nat, a > 0
    PROVE  /\ AlignUp(n, a) \in Nat
           /\ n <= AlignUp(n, a) /\ AlignUp(n, a) <= n + a - 1
<1> DEFINE q == (n + a - 1) \div a
           r == (n + a - 1) % a
<1>1. q \in Nat /\ r \in 0..(a - 1) /\ n + a - 1 = q * a + r
  OBVIOUS
<1>2. AlignUp(n, a) = q * a
  BY DEF AlignUp
<1> HIDE DEF q, r
<1> DEFINE x == q * a
<1>3. x \in Nat
  BY <1>1
<1> HIDE DEF x
<1>4. n + a - 1 = x + r
  BY <1>1 DEF x
<1>5. n <= x /\ x <= n + a - 1
  BY <1>1, <1>3, <1>4
<1> QED
  BY <1>2, <1>3, <1>5 DEF x

(* Alignments are powers of two from 4 up. *)
LEMMA AlignFacts ==
    ASSUME NEW align \in Aligns
    PROVE  align \in Nat /\ align >= 4 /\ \E k \in Nat : align = 4 * k
<1>1. PICK p \in 2..14 : align = 2^p
  BY SizeAssumption
<1>2. CASE p = 2 BY <1>1, <1>2
<1>3. CASE p = 3 BY <1>1, <1>3
<1>4. CASE p = 4 BY <1>1, <1>4
<1>5. CASE p = 5 BY <1>1, <1>5
<1>6. CASE p = 6 BY <1>1, <1>6
<1>7. CASE p = 7 BY <1>1, <1>7
<1>8. CASE p = 8 BY <1>1, <1>8
<1>9. CASE p = 9 BY <1>1, <1>9
<1>10. CASE p = 10 BY <1>1, <1>10
<1>11. CASE p = 11 BY <1>1, <1>11
<1>12. CASE p = 12 BY <1>1, <1>12
<1>13. CASE p = 13 BY <1>1, <1>13
<1>14. CASE p = 14 BY <1>1, <1>14
<1>15. \/ p = 2 \/ p = 3 \/ p = 4 \/ p = 5 \/ p = 6 \/ p = 7 \/ p = 8
       \/ p = 9 \/ p = 10 \/ p = 11 \/ p = 12 \/ p = 13 \/ p = 14
  OBVIOUS
<1> QED
  BY <1>2, <1>3, <1>4, <1>5, <1>6, <1>7, <1>8, <1>9, <1>10, <1>11, <1>12, <1>13, <1>14, <1>15

(* The alloc_size of an accepted request has not wrapped: it is a multiple  *)
(* of the word and leaves room for the header, the alignment and the bytes. *)
LEMMA AllocSizeFacts ==
    ASSUME NEW size \in Sizes, NEW align \in Aligns,
           Acceptable(size, AllocSize(size, align))
    PROVE  LET n == AllocSize(size, align) IN
           /\ n \in Nat /\ 0 < n /\ n < 2^LastIdx /\ n % 4 = 0
           /\ size \in Nat /\ size + align + 28 <= n
<1> DEFINE M == 2^WordBits
           A == AlignUp(size, 8)
           S == A + (align - 8) + 32 + 4
           n == AllocSize(size, align)
<1>1. /\ M \in Nat /\ 1 <= M /\ size \in Nat
      /\ align \in Nat /\ align >= 4 /\ align + 40 <= M
  <2>1. M \in Nat /\ 1 <= M
    BY SizeAssumption, PowerGrows
  <2> QED
    BY <2>1, SizeAssumption, AlignFacts DEF MinSize, HeadSize, SizeAlign
<1>2. A \in Nat /\ size <= A /\ A <= size + 7
  <2>1. size \in Nat
    BY <1>1
  <2>2. A \in Nat /\ size <= A /\ A <= size + 8 - 1
    BY <2>1, AlignUpBounds
  <2> HIDE DEF A
  <2> QED
    BY <2>1, <2>2
<1>3. PICK q \in Nat : A = q * 8
  <2>1. (size + 8 - 1) \div 8 \in Nat
    BY <1>1
  <2> QED
    BY <2>1 DEF AlignUp
<1>4. PICK k \in Nat : align = 4 * k
  BY AlignFacts
<1>5. n = S % M
  BY DEF AllocSize, SizeAlign, HeadSize, TailSize
<1>6. size # 0 /\ n >= size /\ n < 2^LastIdx - 8 - 36
  BY Bounds DEF Acceptable, HeadSize, TailSize
<1> HIDE DEF n, M, A
<1>7. S \in Nat /\ S = A + align + 28
  BY <1>1, <1>2
<1>8. PICK w \in Nat : S = w * M + n /\ n \in 0..(M - 1)
  <2>1. S \div M \in Nat /\ S % M \in 0..(M - 1) /\ S = (S \div M) * M + (S % M)
    BY <1>1, <1>7
  <2> QED
    BY <2>1, <1>5
<1>9. w = 0
  <2>1. ASSUME w >= 1 PROVE FALSE
    <3> DEFINE x == w * M
    <3>1. x \in Nat /\ x >= M
      BY <1>1, <2>1
    <3>2. S = x + n
      BY <1>8
    <3> HIDE DEF x
    <3> QED
      BY <1>1, <1>2, <1>6, <1>7, <1>8, <3>1, <3>2
  <2> QED
    BY <2>1
<1>10. n = S
  BY <1>1, <1>8, <1>9
<1>11. n % 4 = 0
  BY <1>3, <1>4, <1>7, <1>10
<1>12. 2^LastIdx \in Nat
  BY Bounds
<1>13. n < 2^LastIdx
  BY <1>6, <1>8, <1>12
<1>14. /\ n \in Nat /\ 0 < n
       /\ size + align + 28 <= n
  BY <1>1, <1>2, <1>7, <1>10
<1> QED
  BY <1>1, <1>11, <1>13, <1>14 DEF n

(* The address returned for a block that starts on a word lies behind its   *)
(* header and less than an alignment further on.                            *)
LEMMA UseAddrFacts ==
    ASSUME NEW b \in Nat, b % 4 = 0, NEW align \in Aligns
    PROVE  /\ UseAddr(b, align) \in Nat
           /\ b + 32 <= UseAddr(b, align) /\ UseAddr(b, align) <= b + 28 + align
<1>1. align \in Nat /\ align >= 4
  BY AlignFacts
<1>2. PICK k \in Nat : align = 4 * k
  BY AlignFacts
<1>3. PICK c \in Nat : b = 4 * c
  <2>1. b \div 4 \in Nat /\ b = 4 * (b \div 4)
    OBVIOUS
  <2> QED
    BY <2>1
<1> DEFINE x == UseAddr(b, align)
           q == (b + 32 + align - 1) \div align
<1>4. x \in Nat /\ b + 32 <= x /\ x <= b + 32 + align - 1
  <2> DEFINE m == b + 32
  <2>1. m \in Nat /\ align > 0
    BY <1>1
  <2>2. x = AlignUp(m, align)
    BY DEF UseAddr, HeadSize
  <2> HIDE DEF m, x
  <2>3. x \in Nat /\ m <= x /\ x <= m + align - 1
    BY <1>1, <2>1, <2>2, AlignUpBounds
  <2> QED
    BY <2>3 DEF m
<1>5. x = q * align /\ q \in Nat
  BY <1>1 DEF UseAddr, AlignUp, HeadSize
<1> HIDE DEF x, q
<1> DEFINE y == q * k
<1>6. y \in Nat /\ x = 4 * y
  BY <1>2, <1>5
<1> HIDE DEF y
<1>7. x <= b + 28 + align
  BY <1>2, <1>3, <1>4, <1>6
<1> QED
  BY <1>4, <1>7 DEF x

-----------------------------------------------------------------------------
(* The free lists.                                                          *)

(* Unlinking a block leaves the others linked once each. *)
LEMMA RemovedOne ==
    ASSUME NEW S, NEW s \in Seq(S), IsInjective(s), NEW b
    PROVE  /\ RemoveFirst(s, b) \in Seq(S)
           /\ IsInjective(RemoveFirst(s, b))
           /\ Range(RemoveFirst(s, b)) = Range(s) \ {b}
<1>1. CASE ~\E i \in 1..Len(s) : s[i] = b
  <2>1. RemoveFirst(s, b) = s
    BY <1>1 DEF RemoveFirst
  <2>2. b \notin Range(s)
    BY <1>1 DEF Range
  <2> QED
    BY <2>1, <2>2
<1>2. CASE \E i \in 1..Len(s) : s[i] = b
  <2> DEFINE I == {i \in 1..Len(s) : s[i] = b}
             k == Min(I)
             t == RemoveAt(s, k)
  <2>1. I \in SUBSET Nat /\ I # {}
    BY <1>2
  <2>2. k \in 1..Len(s) /\ s[k] = b
    BY <2>1, LeastMember
  <2>3. RemoveFirst(s, b) = t
    BY <1>2, <2>1 DEF RemoveFirst, SelectInSeq
  <2> HIDE DEF I, k
  <2> DEFINE u == SubSeq(s, 1, k - 1)
             v == SubSeq(s, k + 1, Len(s))
  <2>4. /\ u \in Seq(S) /\ Len(u) = k - 1 /\ \A j \in 1..(k - 1) : u[j] = s[j]
        /\ v \in Seq(S) /\ Len(v) = Len(s) - k /\ \A j \in 1..(Len(s) - k) : v[j] = s[k + j]
    BY <2>2
  <2>5. t = u \o v
    BY DEF RemoveAt
  <2> HIDE DEF u, v, t
  <2>6. /\ t \in Seq(S) /\ Len(t) = Len(s) - 1
        /\ \A j \in 1..Len(t) : t[j] = IF j < k THEN s[j] ELSE s[j + 1]
    <3>0. u \in Seq(S) /\ v \in Seq(S)
      BY <2>4
    <3>1. t \in Seq(S) /\ Len(t) = Len(u) + Len(v)
      BY <2>5, <3>0
    <3>2. \A j \in 1..Len(t) : t[j] = IF j <= Len(u) THEN u[j] ELSE v[j - Len(u)]
      BY <2>5, <3>0, <3>1
    <3>3. Len(t) = Len(s) - 1
      BY <2>2, <2>4, <3>1
    <3>4. ASSUME NEW j \in 1..Len(t) PROVE t[j] = IF j < k THEN s[j] ELSE s[j + 1]
      <4>1. CASE j < k
        BY <2>2, <2>4, <3>2, <3>3, <4>1
      <4>2. CASE ~(j < k)
        <5>1. j - (k - 1) \in 1..(Len(s) - k) /\ k + (j - (k - 1)) = j + 1
          BY <2>2, <3>3, <4>2
        <5>2. t[j] = v[j - (k - 1)]
          BY <2>2, <2>4, <3>2, <3>3, <4>2
        <5> QED
          BY <2>4, <4>2, <5>1, <5>2
      <4> QED
        BY <4>1, <4>2
    <3> QED
      BY <3>1, <3>3, <3>4
  <2>d. DOMAIN s = 1..Len(s) /\ DOMAIN t = 1..Len(t)
    BY <2>6
  <2>i. \A i, j \in 1..Len(s) : s[i] = s[j] => i = j
    BY <2>d DEF IsInjective
  <2>j. IsInjective(t)
    <3> DEFINE at(j) == IF j < k THEN j ELSE j + 1
    <3>a. \A j \in 1..Len(t) : at(j) \in 1..Len(s) /\ t[j] = s[at(j)]
      BY <2>2, <2>6
    <3>b. \A i, j \in 1..Len(t) : at(i) = at(j) => i = j
      BY <2>2, <2>6
    <3> HIDE DEF at
    <3>1. \A i, j \in 1..Len(t) : t[i] = t[j] => i = j
      BY <2>i, <3>a, <3>b
    <3> QED
      BY <2>d, <3>1 DEF IsInjective
  <2>7. \A j \in 1..Len(t) : t[j] \in Range(s) \ {b}
    <3>1. \A j \in 1..Len(t) : \E i \in 1..Len(s) : t[j] = s[i] /\ i # k
      BY <2>2, <2>6
    <3> QED
      BY <2>2, <2>d, <2>i, <3>1 DEF Range
  <2>8. ASSUME NEW j \in 1..Len(s), s[j] # b PROVE \E i \in 1..Len(t) : t[i] = s[j]
    <3>1. CASE j < k
      <4>1. j \in 1..Len(t) /\ t[j] = s[j]
        BY <2>2, <2>6, <3>1
      <4> QED
        BY <4>1
    <3>2. CASE j > k
      <4>1. j - 1 \in 1..Len(t) /\ t[j - 1] = s[j]
        BY <2>2, <2>6, <3>2
      <4> QED
        BY <4>1
    <3> QED
      BY <2>2, <2>8, <3>1, <3>2
  <2>9. Range(t) = Range(s) \ {b}
    BY <2>d, <2>7, <2>8 DEF Range
  <2> QED
    BY <2>3, <2>6, <2>j, <2>9
<1> QED
  BY <1>1, <1>2

(* Linking a block in front. *)
LEMMA LinkedFront ==
    ASSUME NEW S, NEW s \in Seq(S), IsInjective(s), NEW b \in S, b \notin Range(s)
    PROVE  /\ <<b>> \o s \in Seq(S)
           /\ IsInjective(<<b>> \o s)
           /\ Range(<<b>> \o s) = Range(s) \cup {b}
<1> DEFINE t == <<b>> \o s
<1>1. t \in Seq(S) /\ Len(t) = Len(s) + 1
  OBVIOUS
<1>2. \A j \in 1..Len(t) : t[j] = IF j = 1 THEN b ELSE s[j - 1]
  BY <1>1
<1> HIDE DEF t
<1>3. \A j \in 1..Len(s) : s[j] # b
  BY DEF Range
<1>d. DOMAIN s = 1..Len(s) /\ DOMAIN t = 1..Len(t)
  BY <1>1
<1>4. IsInjective(t)
  <2>1. \A i, j \in 1..Len(s) : s[i] = s[j] => i = j
    BY <1>d DEF IsInjective
  <2>2. ASSUME NEW i \in 1..Len(t), NEW j \in 1..Len(t), t[i] = t[j] PROVE i = j
    <3>1. Len(s) \in Nat /\ Len(t) = Len(s) + 1
      BY <1>1
    <3>2. /\ i # 1 => i - 1 \in 1..Len(s) /\ t[i] = s[i - 1]
          /\ j # 1 => j - 1 \in 1..Len(s) /\ t[j] = s[j - 1]
          /\ i = 1 => t[i] = b
          /\ j = 1 => t[j] = b
      BY <1>2, <3>1
    <3>3. CASE i = 1 \/ j = 1
      BY <1>3, <2>2, <3>2, <3>3
    <3>4. CASE i # 1 /\ j # 1
      <4>1. i - 1 = j - 1
        BY <2>1, <2>2, <3>2, <3>4
      <4> QED
        BY <3>1, <4>1
    <3> QED
      BY <3>3, <3>4
  <2> QED
    BY <1>d, <2>2 DEF IsInjective
<1>5. \A j \in 1..Len(t) : t[j] \in Range(s) \cup {b}
  BY <1>1, <1>2 DEF Range
<1>6. \A j \in 1..Len(s) : j + 1 \in 1..Len(t) /\ t[j + 1] = s[j]
  BY <1>1, <1>2
<1>7. 1 \in 1..Len(t) /\ t[1] = b
  BY <1>1, <1>2
<1>8. Range(t) = Range(s) \cup {b}
  <2>1. Range(t) \subseteq Range(s) \cup {b}
    BY <1>d, <1>5 DEF Range
  <2>2. \A j \in 1..Len(s) : s[j] \in Range(t)
    BY <1>d, <1>6 DEF Range
  <2>3. Range(s) \subseteq Range(t)
    BY <1>d, <2>2 DEF Range
  <2>4. b \in Range(t)
    BY <1>d, <1>7 DEF Range
  <2> QED
    BY <2>1, <2>3, <2>4
<1> QED
  BY <1>1, <1>4, <1>8 DEF t

-----------------------------------------------------------------------------
(* The shape of the region.                                                 *)

HdrType == /\ Blocks \subseteq 0..Top
           /\ \A b \in Blocks : hdr[b] \in [size : 0..Top, prev_size : 0..Top, used : BOOLEAN]

(* The region starts with a block nothing is in front of and ends with the  *)
(* end mark.                                                                *)
Ends == 0 \in Blocks /\ Top \in Blocks /\ hdr[0].prev_size = 0

(* Blocks start on a word and are not empty. *)
Chunks == \A b \in Blocks : b % 4 = 0 /\ (b # Top => hdr[b].size > 0)

(* Each block but the first has a block in front, which ends where it       *)
(* starts: what makes prev_size lead to a header.                           *)
Preceded == \A b \in Blocks \ {0} : \E p \in Blocks \ {Top} : p + hdr[p].size = b

(* The first half of Coalesced. *)
Merged == \A b \in FreeBlocks : hdr[b + hdr[b].size].used

Shape == HdrType /\ Ends /\ Chunks /\ Tiling /\ Preceded /\ BoundaryTags /\ Merged

(* What a step does to the headers, in terms of addresses. *)

(* Free block f is given out whole. *)
TookWhole(f) ==
    /\ DOMAIN hdr' = Blocks
    /\ \A c \in Blocks :
         /\ hdr'[c] \in [size : 0..Top, prev_size : 0..Top, used : BOOLEAN]
         /\ hdr'[c].size = hdr[c].size
         /\ hdr'[c].used <=> (hdr[c].used \/ c = f)
         /\ hdr'[c].prev_size = IF c = f + hdr[f].size THEN 0 ELSE hdr[c].prev_size

(* The last n bytes of free block f are given out, as block g. *)
TookEnd(f, g, n) ==
    /\ DOMAIN hdr' = Blocks \cup {g}
    /\ hdr'[g].size = n /\ hdr'[g].used /\ hdr'[g].prev_size = hdr[f].size - n
    /\ \A c \in Blocks \cup {g} : hdr'[c] \in [size : 0..Top, prev_size : 0..Top, used : BOOLEAN]
    /\ \A c \in Blocks :
         /\ hdr'[c].size = IF c = f THEN hdr[f].size - n ELSE hdr[c].size
         /\ hdr'[c].used <=> hdr[c].used
         /\ hdr'[c].prev_size = IF c = f + hdr[f].size THEN 0 ELSE hdr[c].prev_size

(* The blocks from lo up to hi become one free block. *)
Released(lo, hi) ==
    /\ DOMAIN hdr' = {c \in Blocks : c <= lo \/ hi <= c}
    /\ \A c \in DOMAIN hdr' :
         /\ hdr'[c] \in [size : 0..Top, prev_size : 0..Top, used : BOOLEAN]
         /\ hdr'[c].size = IF c = lo THEN hi - lo ELSE hdr[c].size
         /\ hdr'[c].used <=> (hdr[c].used /\ c # lo)
         /\ hdr'[c].prev_size = IF c = hi THEN hi - lo ELSE hdr[c].prev_size

(* Blocks and the gaps between them. *)
LEMMA BlockFacts ==
    ASSUME Shape, NEW b \in Blocks
    PROVE  /\ b \in 0..Top /\ b % 4 = 0 /\ Top \in Nat
           /\ hdr[b].size \in 0..Top /\ hdr[b].prev_size \in 0..Top /\ hdr[b].used \in BOOLEAN
           /\ b # Top => /\ b + hdr[b].size \in Blocks /\ hdr[b].size > 0
                         /\ \A c \in Blocks : c <= b \/ b + hdr[b].size <= c
           /\ b = Top => hdr[b].size = 0 /\ hdr[b].used
<1>1. b \in 0..Top /\ Top \in Nat /\ b % 4 = 0
  BY Bounds DEF Shape, HdrType, Chunks
<1>2. /\ hdr[b].size \in 0..Top /\ hdr[b].prev_size \in 0..Top /\ hdr[b].used \in BOOLEAN
      /\ b # Top => hdr[b].size > 0
  BY DEF Shape, HdrType, Chunks
<1>3. b # Top => /\ b + hdr[b].size \in Blocks
                 /\ \A c \in Blocks : b < c => b + hdr[b].size <= c
  BY DEF Shape, Tiling
<1>4. \A c \in Blocks : c \in Int
  BY <1>1 DEF Shape, HdrType
<1>5. b = Top => hdr[b].size = 0 /\ hdr[b].used
  BY DEF Shape, Tiling
<1> QED
  BY <1>1, <1>2, <1>3, <1>4, <1>5

(* A free block lies between used ones. *)
LEMMA FreeFacts ==
    ASSUME Shape, NEW b \in FreeBlocks
    PROVE  /\ b \in Blocks /\ b # Top /\ ~hdr[b].used /\ hdr[b].size > 0
           /\ b + hdr[b].size \in Blocks /\ hdr[b + hdr[b].size].used
<1>1. b \in Blocks /\ ~hdr[b].used
  BY DEF FreeBlocks
<1>2. hdr[b + hdr[b].size].used
  BY DEF Shape, Merged
<1>3. b # Top /\ hdr[b].size > 0 /\ b + hdr[b].size \in Blocks
  BY <1>1, BlockFacts
<1> QED
  BY <1>1, <1>2, <1>3

(* Giving out a free block whole keeps the shape. *)
LEMMA WholeShape ==
    ASSUME Shape, NEW f \in FreeBlocks, TookWhole(f)
    PROVE  Shape'
<1> DEFINE e == f + hdr[f].size
<1>1. Blocks' = Blocks
  BY DEF TookWhole, Blocks
<1>2. /\ f \in Blocks /\ f # Top /\ ~hdr[f].used /\ e \in Blocks /\ e > f /\ hdr[e].used
  BY FreeFacts, BlockFacts
<1>3. \A c \in Blocks :
         /\ hdr'[c] \in [size : 0..Top, prev_size : 0..Top, used : BOOLEAN]
         /\ hdr'[c].size = hdr[c].size
         /\ hdr'[c].used <=> (hdr[c].used \/ c = f)
         /\ hdr'[c].prev_size = IF c = e THEN 0 ELSE hdr[c].prev_size
  BY DEF TookWhole
<1>4. Top' = Top
  BY DEF Top
<1> HIDE DEF e
<1>5. HdrType'
  BY <1>1, <1>3, <1>4 DEF Shape, HdrType
<1>6. Ends'
  BY <1>1, <1>2, <1>3, <1>4, BlockFacts DEF Shape, Ends
<1>7. Chunks'
  BY <1>1, <1>3, <1>4 DEF Shape, Chunks
<1>8. Tiling'
  BY <1>1, <1>2, <1>3, <1>4 DEF Shape, Tiling
<1>9. Preceded'
  BY <1>1, <1>3, <1>4 DEF Shape, Preceded
<1>10. BoundaryTags'
  <2>1. ASSUME NEW b \in Blocks, b # Top, b + hdr[b].size # Top
        PROVE  hdr'[b + hdr[b].size].prev_size = IF hdr'[b].used THEN 0 ELSE hdr[b].size
    <3>1. b + hdr[b].size \in Blocks
      BY <2>1, BlockFacts
    <3>2. hdr[b + hdr[b].size].prev_size = IF hdr[b].used THEN 0 ELSE hdr[b].size
      BY <2>1 DEF Shape, BoundaryTags
    <3>3. CASE b = f
      BY <1>2, <1>3, <3>1, <3>3 DEF e
    <3>4. CASE b # f
      <4>1. b + hdr[b].size # e
        BY <1>2, <2>1, <3>4, BlockFacts DEF e
      <4> QED
        BY <1>3, <3>1, <3>2, <3>4, <4>1
    <3> QED
      BY <3>3, <3>4
  <2> QED
    BY <1>1, <1>3, <1>4, <2>1 DEF BoundaryTags
<1>11. Merged'
  <2>1. \A b \in FreeBlocks' : b \in FreeBlocks
    BY <1>1, <1>3 DEF FreeBlocks
  <2>2. ASSUME NEW b \in FreeBlocks' PROVE hdr'[b + hdr'[b].size].used
    <3>1. b \in Blocks /\ b # Top /\ hdr[b + hdr[b].size].used /\ b + hdr[b].size \in Blocks
      BY <2>1, FreeFacts
    <3> QED
      BY <1>3, <3>1
  <2> QED
    BY <2>2 DEF Merged
<1> QED
  BY <1>5, <1>6, <1>7, <1>8, <1>9, <1>10, <1>11 DEF Shape

(* Cutting the end off a free block keeps the shape, and makes a new header. *)
LEMMA EndShape ==
    ASSUME Shape, NEW f \in FreeBlocks, NEW n \in Nat, n > 0, n % 4 = 0, n < hdr[f].size,
           NEW g, g = f + (hdr[f].size - n), TookEnd(f, g, n)
    PROVE  Shape' /\ g \notin Blocks /\ g % 4 = 0
<1> DEFINE e == f + hdr[f].size
           r == hdr[f].size - n
<1>1. Blocks' = Blocks \cup {g}
  BY DEF TookEnd, Blocks
<1>2. f \in Blocks /\ f # Top /\ ~hdr[f].used /\ e \in Blocks /\ hdr[e].used
  BY FreeFacts
<1>3. /\ f \in 0..Top /\ f % 4 = 0 /\ e \in 0..Top /\ e % 4 = 0 /\ Top \in Nat
      /\ hdr[f].size \in 0..Top
  BY <1>2, BlockFacts
<1>4. /\ r \in Nat /\ r > 0 /\ g \in 0..Top /\ f < g /\ g < e /\ g % 4 = 0 /\ e = g + n /\ g = f + r
  BY <1>3
<1>5. \A c \in Blocks : c <= f \/ e <= c
  BY <1>2, BlockFacts
<1>6. g \notin Blocks
  <2>1. ~(g <= f) /\ ~(e <= g)
    BY <1>3, <1>4
  <2> QED
    BY <1>5, <2>1
<1>7. \A c \in Blocks :
         /\ hdr'[c].size = IF c = f THEN r ELSE hdr[c].size
         /\ hdr'[c].used <=> hdr[c].used
         /\ hdr'[c].prev_size = IF c = e THEN 0 ELSE hdr[c].prev_size
  BY DEF TookEnd
<1>8. hdr'[g].size = n /\ hdr'[g].used /\ hdr'[g].prev_size = r
  BY DEF TookEnd
<1>9. \A c \in Blocks \cup {g} : hdr'[c] \in [size : 0..Top, prev_size : 0..Top, used : BOOLEAN]
  BY DEF TookEnd
<1>10. Top' = Top
  BY DEF Top
<1> HIDE DEF e, r
<1>11. HdrType'
  BY <1>1, <1>4, <1>9, <1>10 DEF Shape, HdrType
<1>12. Ends'
  BY <1>1, <1>3, <1>4, <1>7, <1>10 DEF Shape, Ends
<1>13. Chunks'
  BY <1>1, <1>4, <1>7, <1>8, <1>10 DEF Shape, Chunks
<1>14. Tiling'
  <2>1. ASSUME NEW b \in Blocks, b # f, b # Top
        PROVE  b + hdr[b].size \in Blocks /\ \A c \in Blocks \cup {g} : b < c => b + hdr[b].size <= c
    <3>1. b + hdr[b].size \in Blocks /\ \A c \in Blocks : b < c => b + hdr[b].size <= c
      BY <2>1 DEF Shape, Tiling
    <3>2. b < g => b + hdr[b].size <= g
      BY <1>2, <1>3, <1>4, <1>5, <2>1, <3>1, BlockFacts
    <3> QED
      BY <3>1, <3>2
  <2>2. f + r \in Blocks' /\ \A c \in Blocks \cup {g} : f < c => f + r <= c
    <3>1. f + r = g /\ g \in Blocks'
      BY <1>1, <1>4
    <3>2. \A c \in Blocks : c \in Int
      BY BlockFacts
    <3>3. \A c \in Blocks \cup {g} : f < c => g <= c
      BY <1>3, <1>4, <1>5, <3>2
    <3> QED
      BY <3>1, <3>3
  <2>3. g + n \in Blocks' /\ \A c \in Blocks \cup {g} : g < c => g + n <= c
    BY <1>1, <1>2, <1>3, <1>4, <1>5, BlockFacts
  <2>4. hdr[Top].size = 0 /\ hdr[Top].used /\ Top \in Blocks
    BY DEF Shape, Tiling, Ends
  <2>5. g # Top
    BY <1>6, <2>4
  <2> QED
    BY <1>1, <1>2, <1>7, <1>8, <1>10, <2>1, <2>2, <2>3, <2>4, <2>5 DEF Tiling
<1>15. Preceded'
  <2>1. ASSUME NEW b \in Blocks, b # 0
        PROVE  \E p \in (Blocks \cup {g}) \ {Top} : p + hdr'[p].size = b
    <3>1. PICK p \in Blocks \ {Top} : p + hdr[p].size = b
      BY <2>1 DEF Shape, Preceded
    <3>2. CASE p = f
      <4>1. g # Top
        BY <1>6 DEF Shape, Ends
      <4>2. g + hdr'[g].size = b
        BY <1>4, <1>8, <3>1, <3>2 DEF e
      <4> QED
        BY <4>1, <4>2
    <3>3. CASE p # f
      BY <1>7, <3>1, <3>3
    <3> QED
      BY <3>2, <3>3
  <2>2. f + hdr'[f].size = g
    BY <1>2, <1>4, <1>7
  <2> QED
    BY <1>1, <1>2, <1>10, <2>1, <2>2 DEF Preceded
<1>16. BoundaryTags'
  <2>1. ASSUME NEW b \in Blocks, b # Top, b # f, b + hdr[b].size # Top
        PROVE  hdr'[b + hdr[b].size].prev_size = IF hdr'[b].used THEN 0 ELSE hdr[b].size
    <3>1. b + hdr[b].size \in Blocks
      BY <2>1, BlockFacts
    <3>2. hdr[b + hdr[b].size].prev_size = IF hdr[b].used THEN 0 ELSE hdr[b].size
      BY <2>1 DEF Shape, BoundaryTags
    <3>3. b + hdr[b].size # e
      BY <1>2, <2>1, BlockFacts DEF e
    <3> QED
      BY <1>7, <2>1, <3>1, <3>2, <3>3
  <2>2. hdr'[f + r].prev_size = r /\ ~hdr'[f].used /\ hdr'[f].size = r
    BY <1>2, <1>4, <1>7, <1>8
  <2>3. hdr'[g + n].prev_size = 0
    BY <1>2, <1>4, <1>7
  <2> QED
    BY <1>1, <1>7, <1>8, <1>10, <2>1, <2>2, <2>3 DEF BoundaryTags
<1>17. Merged'
  <2>1. ASSUME NEW b \in FreeBlocks' PROVE hdr'[b + hdr'[b].size].used
    <3>1. b \in FreeBlocks
      BY <1>1, <1>7, <1>8, <2>1 DEF FreeBlocks
    <3>2. b \in Blocks /\ b # Top /\ hdr[b + hdr[b].size].used /\ b + hdr[b].size \in Blocks
      BY <3>1, FreeFacts
    <3>3. CASE b = f
      BY <1>2, <1>4, <1>7, <1>8, <3>3
    <3>4. CASE b # f
      BY <1>7, <3>2, <3>4
    <3> QED
      BY <3>3, <3>4
  <2> QED
    BY <2>1 DEF Merged
<1> QED
  BY <1>4, <1>6, <1>11, <1>12, <1>13, <1>14, <1>15, <1>16, <1>17 DEF Shape

(* Merging the blocks between two used ones keeps the shape. *)
LEMMA ReleasedShape ==
    ASSUME Shape, NEW lo \in Blocks, NEW hi \in Blocks, lo < hi, hdr[hi].used,
           \A p \in Blocks \ {Top} : p + hdr[p].size = lo => hdr[p].used,
           Released(lo, hi)
    PROVE  Shape'
<1>1. Blocks' = {c \in Blocks : c <= lo \/ hi <= c}
  BY DEF Released, Blocks
<1>2. \A c \in Blocks : c \in 0..Top
  BY BlockFacts
<1>3. Top' = Top /\ Top \in Nat /\ Top \in Blocks /\ lo # Top
  BY <1>2, Bounds DEF Top, Shape, Ends
<1>4. lo \in Blocks' /\ hi \in Blocks' /\ Top \in Blocks' /\ 0 \in Blocks' /\ 0 \in Blocks
  BY <1>1, <1>2, <1>3 DEF Shape, Ends
<1>5. \A c \in Blocks' :
         /\ c \in Blocks
         /\ hdr'[c] \in [size : 0..Top, prev_size : 0..Top, used : BOOLEAN]
         /\ hdr'[c].size = IF c = lo THEN hi - lo ELSE hdr[c].size
         /\ hdr'[c].used <=> (hdr[c].used /\ c # lo)
         /\ hdr'[c].prev_size = IF c = hi THEN hi - lo ELSE hdr[c].prev_size
  BY <1>1 DEF Released, Blocks
<1>6. lo + (hi - lo) = hi
  BY <1>2
(* The block behind one that is kept is kept. *)
<1>7. ASSUME NEW b \in Blocks', b # lo, b # Top
      PROVE  /\ b + hdr[b].size \in Blocks'
             /\ b + hdr[b].size # hi
             /\ \A c \in Blocks' : b < c => b + hdr[b].size <= c
  <2>1. /\ b \in Blocks /\ b + hdr[b].size \in Blocks /\ hdr[b].size > 0 /\ hdr[b].size \in Nat
        /\ \A c \in Blocks : c <= b \/ b + hdr[b].size <= c
    BY <1>5, <1>7, BlockFacts
  <2>2. b < lo \/ hi <= b
    BY <1>1, <1>2, <1>7
  <2>3. b < lo => b + hdr[b].size <= lo
    BY <1>2, <2>1
  <2>4. b + hdr[b].size \in Int /\ b \in Int /\ lo \in Int /\ hi \in Int
    BY <1>2, <2>1
  <2>5. b + hdr[b].size \in Blocks' /\ b + hdr[b].size # hi
    BY <1>1, <2>1, <2>2, <2>3, <2>4
  <2>6. \A c \in Blocks' : c \in Blocks /\ c \in Int
    BY <1>2, <1>5
  <2> QED
    BY <2>1, <2>4, <2>5, <2>6
<1>8. HdrType'
  BY <1>2, <1>3, <1>5 DEF HdrType
<1>9. Ends'
  <2>1. hi # 0
    BY <1>2
  <2> QED
    BY <1>3, <1>4, <1>5, <2>1 DEF Shape, Ends
<1>10. Chunks'
  <2>1. hi - lo > 0
    BY <1>2
  <2> QED
    BY <1>3, <1>5, <2>1 DEF Shape, Chunks
<1>11. Tiling'
  <2>1. \A c \in Blocks' : lo < c => hi <= c
    BY <1>1, <1>2
  <2>2. hdr[Top].size = 0 /\ hdr[Top].used
    BY <1>3 DEF Shape, Tiling
  <2>3. hdr'[Top].size = 0 /\ hdr'[Top].used
    BY <1>3, <1>4, <1>5, <2>2
  <2>4. hdr'[lo].size = hi - lo
    BY <1>4, <1>5
  <2>5. \A b \in Blocks' : b # lo => hdr'[b].size = hdr[b].size
    BY <1>5
  <2> QED
    BY <1>3, <1>4, <1>6, <1>7, <2>1, <2>3, <2>4, <2>5 DEF Tiling
<1>12. Preceded'
  <2>1. ASSUME NEW b \in Blocks', b # 0
        PROVE  \E p \in Blocks' \ {Top} : p + hdr'[p].size = b
    <3>1. CASE b = hi
      BY <1>3, <1>4, <1>5, <1>6, <3>1
    <3>2. CASE b # hi
      <4>1. PICK p \in Blocks \ {Top} : p + hdr[p].size = b
        BY <1>5, <2>1 DEF Shape, Preceded
      <4>2. /\ p \in Int /\ hdr[p].size \in Nat /\ hdr[p].size > 0 /\ p < b
            /\ \A c \in Blocks : c <= p \/ b <= c
        BY <1>2, <4>1, BlockFacts
      <4>3. b \in Int /\ (b <= lo \/ hi < b) /\ lo \in Int /\ hi \in Int
        BY <1>1, <1>2, <2>1, <3>2
      <4>4. p < lo \/ hi <= p
        <5>1. hi <= p \/ b <= hi
          BY <4>2
        <5> QED
          BY <4>2, <4>3, <5>1
      <4>5. p \in Blocks' /\ p # lo
        BY <1>1, <4>1, <4>2, <4>3, <4>4
      <4> QED
        BY <1>5, <4>1, <4>5
    <3> QED
      BY <3>1, <3>2
  <2> QED
    BY <1>3, <2>1 DEF Preceded
<1>13. BoundaryTags'
  <2>1. ASSUME NEW b \in Blocks', b # Top, b # lo, b + hdr[b].size # Top
        PROVE  hdr'[b + hdr[b].size].prev_size = IF hdr'[b].used THEN 0 ELSE hdr[b].size
    <3>1. hdr[b + hdr[b].size].prev_size = IF hdr[b].used THEN 0 ELSE hdr[b].size
      BY <1>5, <2>1 DEF Shape, BoundaryTags
    <3>2. b + hdr[b].size \in Blocks' /\ b + hdr[b].size # hi
      BY <1>7, <2>1
    <3> QED
      BY <1>5, <2>1, <3>1, <3>2
  <2>2. hdr'[lo + (hi - lo)].prev_size = hi - lo /\ ~hdr'[lo].used /\ hdr'[lo].size = hi - lo
    BY <1>4, <1>5, <1>6
  <2> QED
    BY <1>3, <1>5, <2>1, <2>2 DEF BoundaryTags
<1>14. Merged'
  <2>1. ASSUME NEW b \in FreeBlocks' PROVE hdr'[b + hdr'[b].size].used
    <3>1. b \in Blocks' /\ b \in Blocks /\ ~hdr'[b].used
      BY <1>5 DEF FreeBlocks
    <3>2. CASE b = lo
      <4>1. hi # lo
        BY <1>2
      <4> QED
        BY <1>4, <1>5, <1>6, <3>2, <4>1
    <3>3. CASE b # lo
      <4>1. b \in FreeBlocks
        BY <1>5, <3>1, <3>3 DEF FreeBlocks
      <4>2. b # Top /\ hdr[b + hdr[b].size].used
        BY <4>1, FreeFacts
      <4>3. b + hdr[b].size # lo
        BY <3>1, <4>1, <4>2 DEF FreeBlocks
      <4>4. b + hdr[b].size \in Blocks'
        BY <1>7, <3>1, <3>3, <4>2
      <4> QED
        BY <1>5, <3>1, <3>3, <4>2, <4>3, <4>4
    <3> QED
      BY <3>2, <3>3
  <2> QED
    BY <2>1 DEF Merged
<1> QED
  BY <1>8, <1>9, <1>10, <1>11, <1>12, <1>13, <1>14 DEF Shape

-----------------------------------------------------------------------------
(* The lists and the bitmap against the headers.                            *)

(* The lists ls link each of their blocks once, and do not link b. *)
LinkedOnce(ls) == ls \in [Idx -> Seq(Nat)] /\ \A i \in Idx : IsInjective(ls[i])
Unlinked(ls, b) == \A i \in Idx : b \notin Range(ls[i])

(* List i holds the free blocks of class i. *)
Listed == \A i \in Idx : Range(lists[i]) = {b \in FreeBlocks : SizeIdx(hdr[b].size) = i}

(* The bit of a list that is not empty is set. *)
BitsSet == bitmap \subseteq Idx /\ \A i \in Idx : lists[i] # <<>> => i \in bitmap

FreeLists == LinkedOnce(lists) /\ Listed /\ BitsSet

(* The sizes of free blocks have a class. *)
LEMMA FreeSize ==
    ASSUME Shape, NEW b \in FreeBlocks
    PROVE  /\ hdr[b].size \in Nat /\ 0 < hdr[b].size /\ hdr[b].size < 2^LastIdx
           /\ SizeIdx(hdr[b].size) \in Idx
<1> DEFINE s == hdr[b].size
           P == 2^LastIdx
<1>1. b \in Blocks /\ s > 0
  BY FreeFacts
<1>2. s \in 0..Top
  BY <1>1, BlockFacts
<1>3. P \in Nat /\ Top \in Nat /\ Top < P
  BY Bounds
<1> HIDE DEF s, P
<1>4. s \in Nat /\ 0 < s /\ s < P
  BY <1>1, <1>2, <1>3
<1>5. SizeIdx(s) \in Idx
  BY <1>4, SizeIdxBounds DEF P
<1> QED
  BY <1>4, <1>5 DEF s, P

(* What bm_memory_search_fsc returns: a free block that is large enough,    *)
(* linked in the list it reports, whenever there is one.                    *)
LEMMA SearchFacts ==
    ASSUME Shape, FreeLists, NEW n \in Nat, 0 < n, n < 2^LastIdx
    PROVE  /\ FoundIdx(n) \in Idx
           /\ Fits(n) # {} => /\ Found(n) \in FreeBlocks /\ hdr[Found(n)].size >= n
                              /\ SizeIdx(hdr[Found(n)].size) = FoundIdx(n)
           /\ (\E b \in FreeBlocks : hdr[b].size >= n) => Fits(n) # {}
           /\ Searched(n) \subseteq bitmap
           /\ \A i \in Idx : lists[i] # <<>> => i \in Searched(n)
<1> DEFINE c == SizeIdx(n)
           d == FoundIdx(n)
<1>1. c \in Idx /\ Idx \subseteq Nat
  BY SizeIdxBounds, Bounds DEF Idx
<1>2. bitmap \subseteq Idx /\ \A i \in Idx : lists[i] # <<>> => i \in bitmap
  BY DEF FreeLists, BitsSet
<1>3. Hits(n) \in SUBSET Nat /\ Hits(n) \subseteq Idx /\ \A i \in Hits(n) : i > c /\ lists[i] # <<>>
  BY <1>1, <1>2 DEF Hits
<1>4. Hits(n) = {} => d = c
  BY DEF FoundIdx
<1>5. Hits(n) # {} => d \in Hits(n)
  <2>1. Hits(n) # {} => d = Min(Hits(n))
    BY DEF FoundIdx
  <2> QED
    BY <1>3, <2>1, LeastMember
<1> HIDE DEF c, d
<1>6. d \in Idx
  BY <1>1, <1>3, <1>4, <1>5
<1>7. /\ lists[d] \in Seq(Nat) /\ DOMAIN lists[d] = 1..Len(lists[d])
      /\ Range(lists[d]) = {b \in FreeBlocks : SizeIdx(hdr[b].size) = d}
  BY <1>6 DEF FreeLists, LinkedOnce, Listed
<1>8. ASSUME Fits(n) # {}
      PROVE  Found(n) \in FreeBlocks /\ hdr[Found(n)].size >= n /\ SizeIdx(hdr[Found(n)].size) = d
  <2> DEFINE k == Min(Fits(n))
             b == lists[d][k]
  <2>1. Fits(n) \in SUBSET Nat
    BY <1>7 DEF Fits, d
  <2>2. k \in Fits(n)
    BY <1>8, <2>1, LeastMember
  <2>3. k \in DOMAIN lists[d] /\ (Hits(n) = {} => hdr[b].size >= n)
    BY <2>2 DEF Fits, d
  <2>4. Found(n) = b
    BY DEF Found, d
  <2>5. b \in FreeBlocks /\ SizeIdx(hdr[b].size) = d
    BY <1>7, <2>3 DEF Range
  <2> HIDE DEF b
  <2>6. hdr[b].size >= n
    <3>1. CASE Hits(n) = {}
      BY <2>3, <3>1
    <3>2. CASE Hits(n) # {}
      <4>1. SizeIdx(n) < SizeIdx(hdr[b].size)
        BY <1>1, <1>3, <1>5, <1>6, <2>5, <3>2 DEF c
      <4> DEFINE s == hdr[b].size
      <4>2. s \in Nat /\ 0 < s /\ s < 2^LastIdx
        BY <2>5, FreeSize
      <4> HIDE DEF s
      <4>3. SizeIdx(n) < SizeIdx(s)
        BY <4>1 DEF s
      <4>4. n < s
        BY <4>2, <4>3, HigherClass
      <4> QED
        BY <4>2, <4>4 DEF s
    <3> QED
      BY <3>1, <3>2
  <2> QED
    BY <2>4, <2>5, <2>6
<1>9. ASSUME NEW b \in FreeBlocks, hdr[b].size >= n PROVE Fits(n) # {}
  <2>1. CASE Hits(n) # {}
    <3>1. Len(lists[d]) # 0
      BY <1>3, <1>5, <1>7, <2>1
    <3>2. 1 \in DOMAIN lists[d]
      BY <1>7, <3>1
    <3>3. 1 \in Fits(n)
      BY <2>1, <3>2 DEF Fits, d
    <3> QED
      BY <3>3
  <2>2. CASE Hits(n) = {}
    <3> DEFINE s == hdr[b].size
               i == SizeIdx(s)
    <3>1. s \in Nat /\ 0 < s /\ s < 2^LastIdx /\ i \in Idx
      BY FreeSize
    <3>2. b \in Range(lists[i])
      BY <3>1 DEF FreeLists, Listed
    <3>3. PICK k \in DOMAIN lists[i] : lists[i][k] = b
      BY <3>2 DEF Range
    <3>4. lists[i] # <<>>
      <4>1. DOMAIN lists[i] # {}
        BY <3>3
      <4> QED
        BY <4>1
    <3> HIDE DEF s
    <3>5. c <= i
      BY <1>9, <3>1, HigherClass DEF c, s
    <3>6. ~(i > c)
      BY <1>2, <2>2, <3>1, <3>4 DEF Hits, c
    <3> HIDE DEF i
    <3>7. i = d
      BY <1>1, <1>4, <2>2, <3>1, <3>5, <3>6
    <3>8. k \in Fits(n)
      BY <1>9, <3>3, <3>7 DEF Fits, d
    <3> QED
      BY <3>8
  <2> QED
    BY <2>1, <2>2
<1>10. Searched(n) \subseteq bitmap /\ \A i \in Idx : lists[i] # <<>> => i \in Searched(n)
  BY <1>2 DEF Searched
<1> QED
  BY <1>6, <1>8, <1>9, <1>10 DEF d

(* A list is empty when nothing is in it. *)
LEMMA EmptyList ==
    ASSUME NEW S, NEW s \in Seq(S)
    PROVE  s = <<>> <=> Range(s) = {}
<1>1. DOMAIN s = 1..Len(s)
  OBVIOUS
<1>2. s = <<>> => Range(s) = {}
  BY DEF Range
<1>3. s # <<>> => 1 \in DOMAIN s
  BY <1>1
<1>4. s # <<>> => Range(s) # {}
  BY <1>3 DEF Range
<1> QED
  BY <1>2, <1>4

(* Unlinking works on all lists at once. *)
LEMMA DeleteLists ==
    ASSUME NEW ls, LinkedOnce(ls), NEW b
    PROVE  /\ LinkedOnce(Delete(ls, b)) /\ Unlinked(Delete(ls, b), b)
           /\ \A i \in Idx : Range(Delete(ls, b)[i]) = Range(ls[i]) \ {b}
<1>0. ls \in [Idx -> Seq(Nat)] /\ \A i \in Idx : IsInjective(ls[i])
  BY DEF LinkedOnce
<1>1. \A i \in Idx : Delete(ls, b)[i] = RemoveFirst(ls[i], b)
  BY DEF Delete
<1>2. \A i \in Idx : /\ RemoveFirst(ls[i], b) \in Seq(Nat)
                     /\ IsInjective(RemoveFirst(ls[i], b))
                     /\ Range(RemoveFirst(ls[i], b)) = Range(ls[i]) \ {b}
  BY <1>0, RemovedOne
<1>3. Delete(ls, b) \in [Idx -> Seq(Nat)]
  BY <1>2 DEF Delete
<1> QED
  BY <1>1, <1>2, <1>3 DEF LinkedOnce, Unlinked

(* The new head is linked in its list, and no other list changes. *)
LEMMA InsertLists ==
    ASSUME NEW ls, LinkedOnce(ls), NEW b \in Nat, Unlinked(ls, b),
           NEW size, NEW c \in Idx, c = SizeIdx(size)
    PROVE  /\ LinkedOnce(Insert(ls, b, size))
           /\ Range(Insert(ls, b, size)[c]) = Range(ls[c]) \cup {b}
           /\ \A i \in Idx \ {c} : Insert(ls, b, size)[i] = ls[i]
<1>1. Insert(ls, b, size) = [ls EXCEPT ![c] = <<b>> \o @]
  BY DEF Insert
<1>2. ls \in [Idx -> Seq(Nat)] /\ \A i \in Idx : IsInjective(ls[i])
  BY DEF LinkedOnce
<1>3. /\ <<b>> \o ls[c] \in Seq(Nat)
      /\ IsInjective(<<b>> \o ls[c])
      /\ Range(<<b>> \o ls[c]) = Range(ls[c]) \cup {b}
  <2>1. b \notin Range(ls[c])
    BY DEF Unlinked
  <2> QED
    BY <1>2, <2>1, LinkedFront
<1>4. /\ Insert(ls, b, size) \in [Idx -> Seq(Nat)]
      /\ \A i \in Idx : Insert(ls, b, size)[i] = IF i = c THEN <<b>> \o ls[c] ELSE ls[i]
  BY <1>1, <1>2, <1>3
<1>5. \A i \in Idx : IsInjective(Insert(ls, b, size)[i])
  BY <1>2, <1>3, <1>4
<1> QED
  BY <1>3, <1>4, <1>5 DEF LinkedOnce

(* The bits after lists have lost blocks, and those with a bit may have     *)
(* gained some.                                                             *)
LEMMA BitsKept ==
    ASSUME LinkedOnce(lists), LinkedOnce(lists'), bitmap' \subseteq Idx,
           \A i \in Idx : lists[i] # <<>> => i \in bitmap',
           \A i \in Idx : i \in bitmap' \/ Range(lists'[i]) \subseteq Range(lists[i])
    PROVE  BitsSet'
<1>1. Idx' = Idx
  BY DEF Idx, LastIdx
<1>2. ASSUME NEW i \in Idx, lists'[i] # <<>>, i \notin bitmap' PROVE FALSE
  <2>1. lists[i] \in Seq(Nat) /\ lists'[i] \in Seq(Nat)
    BY <1>2 DEF LinkedOnce
  <2>2. Range(lists'[i]) # {}
    BY <1>2, <2>1, EmptyList
  <2>3. Range(lists[i]) # {}
    BY <1>2, <2>2
  <2>4. lists[i] # <<>>
    BY <2>1, <2>3, EmptyList
  <2> QED
    BY <1>2, <2>4
<1> QED
  BY <1>1, <1>2 DEF BitsSet

(* The lists after a block has been unlinked and given out. *)
LEMMA WholeLists ==
    ASSUME Shape, FreeLists, NEW f \in FreeBlocks, TookWhole(f),
           lists' = Delete(lists, f), bitmap' \subseteq Idx,
           \A i \in Idx : lists[i] # <<>> => i \in bitmap'
    PROVE  FreeLists'
<1>1. Idx' = Idx
  BY DEF Idx, LastIdx
<1>2. /\ LinkedOnce(lists')
      /\ \A i \in Idx : Range(lists'[i]) = Range(lists[i]) \ {f}
  BY DeleteLists DEF FreeLists
<1>3. LinkedOnce(lists)'
  BY <1>1, <1>2 DEF LinkedOnce
<1>4. FreeBlocks' = FreeBlocks \ {f}
  BY DEF TookWhole, FreeBlocks, Blocks
<1>5. \A b \in FreeBlocks' : hdr'[b].size = hdr[b].size
  BY <1>4 DEF TookWhole, FreeBlocks
<1>6. Listed'
  <2>1. ASSUME NEW i \in Idx
        PROVE  Range(lists'[i]) = {b \in FreeBlocks' : SizeIdx(hdr'[b].size) = i}
    <3>1. Range(lists'[i]) = Range(lists[i]) \ {f}
      BY <1>2
    <3>2. Range(lists[i]) = {b \in FreeBlocks : SizeIdx(hdr[b].size) = i}
      BY DEF FreeLists, Listed
    <3> QED
      BY <1>4, <1>5, <3>1, <3>2
  <2> QED
    BY <1>1, <2>1 DEF Listed, SizeIdx, LastIdx
<1>7. BitsSet'
  BY <1>2, BitsKept DEF FreeLists
<1> QED
  BY <1>3, <1>6, <1>7 DEF FreeLists

(* The lists after a block has been cut: it moves when its class changes. *)
LEMMA EndLists ==
    ASSUME Shape, FreeLists, NEW f \in FreeBlocks, NEW n, NEW g, g \notin Blocks,
           NEW rest, rest = hdr[f].size - n, TookEnd(f, g, n), SizeIdx(rest) \in Idx,
           lists' = IF SizeIdx(hdr[f].size) # SizeIdx(rest) THEN Insert(Delete(lists, f), f, rest)
                                                            ELSE lists,
           SizeIdx(hdr[f].size) # SizeIdx(rest) => SizeIdx(rest) \in bitmap',
           bitmap' \subseteq Idx,
           \A i \in Idx : lists[i] # <<>> => i \in bitmap'
    PROVE  FreeLists'
<1>1. Idx' = Idx
  BY DEF Idx, LastIdx
<1>2. FreeBlocks' = FreeBlocks
  BY DEF TookEnd, FreeBlocks, Blocks
<1>3. \A b \in FreeBlocks : hdr'[b].size = IF b = f THEN rest ELSE hdr[b].size
  BY DEF TookEnd, FreeBlocks
<1>5. f \in Nat
  BY FreeFacts, BlockFacts
<1>6. \A i \in Idx : Range(lists[i]) = {b \in FreeBlocks : SizeIdx(hdr[b].size) = i}
  BY DEF FreeLists, Listed
<1>7. CASE SizeIdx(hdr[f].size) = SizeIdx(rest)
  <2>1. lists' = lists
    BY <1>7
  <2>2. LinkedOnce(lists)'
    BY <1>1, <2>1 DEF FreeLists, LinkedOnce
  <2>3. \A b \in FreeBlocks : SizeIdx(hdr'[b].size) = SizeIdx(hdr[b].size)
    BY <1>3, <1>7
  <2>4. Listed'
    BY <1>1, <1>2, <1>6, <2>1, <2>3 DEF Listed
  <2>5. BitsSet'
    BY <1>1, <2>1 DEF BitsSet
  <2> QED
    BY <2>2, <2>4, <2>5 DEF FreeLists
<1>8. CASE SizeIdx(hdr[f].size) # SizeIdx(rest)
  <2> DEFINE ls == Delete(lists, f)
  <2>1. /\ LinkedOnce(ls) /\ Unlinked(ls, f)
        /\ \A i \in Idx : Range(ls[i]) = Range(lists[i]) \ {f}
    BY DeleteLists DEF FreeLists
  <2>2. lists' = Insert(ls, f, rest)
    BY <1>8
  <2> HIDE DEF ls
  <2> DEFINE c == SizeIdx(rest)
  <2>3. /\ LinkedOnce(lists')
        /\ Range(lists'[c]) = Range(ls[c]) \cup {f}
        /\ \A i \in Idx \ {c} : lists'[i] = ls[i]
    BY <1>5, <2>1, <2>2, InsertLists
  <2>4. LinkedOnce(lists)'
    BY <1>1, <2>3 DEF LinkedOnce
  <2>5. ASSUME NEW i \in Idx
        PROVE  Range(lists'[i]) = {b \in FreeBlocks : SizeIdx(hdr'[b].size) = i}
    <3>1. Range(lists'[i]) = (Range(lists[i]) \ {f}) \cup (IF i = c THEN {f} ELSE {})
      BY <2>1, <2>3
    <3> QED
      BY <1>3, <1>6, <3>1
  <2>6. Listed'
    BY <1>1, <1>2, <2>5 DEF Listed
  <2>7. \A i \in Idx : i \in bitmap' \/ Range(lists'[i]) \subseteq Range(lists[i])
    BY <1>8, <2>1, <2>3
  <2>8. BitsSet'
    BY <2>3, <2>7, BitsKept DEF FreeLists
  <2> QED
    BY <2>4, <2>6, <2>8 DEF FreeLists
<1> QED
  BY <1>7, <1>8

(* The lists after the free blocks from lo up to hi have been unlinked and  *)
(* the whole has been linked.                                               *)
LEMMA ReleasedLists ==
    ASSUME Shape, FreeLists, NEW lo \in Blocks, NEW hi \in Blocks, lo < hi,
           Released(lo, hi), NEW size, size = hi - lo, SizeIdx(size) \in Idx,
           NEW ls, LinkedOnce(ls),
           \A i \in Idx : Range(ls[i]) = {b \in Range(lists[i]) : b < lo \/ hi <= b},
           lists' = Insert(ls, lo, size),
           bitmap' = bitmap \cup {SizeIdx(size)}
    PROVE  FreeLists'
<1>1. Idx' = Idx
  BY DEF Idx, LastIdx
<1>2. \A b \in Blocks : b \in Nat
  <2>1. \A b \in Blocks : b \in 0..Top
    BY BlockFacts, Zenon
  <2> QED
    BY <2>1
<1>3. FreeBlocks' = {b \in FreeBlocks : b < lo \/ hi <= b} \cup {lo}
  BY <1>2 DEF Released, FreeBlocks, Blocks
<1>4. /\ hdr'[lo].size = size
      /\ \A b \in FreeBlocks' : b # lo => hdr'[b].size = hdr[b].size
  <2>1. lo \in DOMAIN hdr' /\ \A b \in FreeBlocks' : b \in DOMAIN hdr'
    BY <1>2 DEF Released, FreeBlocks, Blocks
  <2> QED
    BY <2>1 DEF Released
<1> DEFINE c == SizeIdx(size)
<1>5. c \in Idx
  OBVIOUS
<1>6. \A i \in Idx : Range(lists[i]) = {b \in FreeBlocks : SizeIdx(hdr[b].size) = i}
  BY DEF FreeLists, Listed
<1>7. /\ LinkedOnce(lists')
      /\ \A i \in Idx : Range(lists'[i]) = Range(ls[i]) \cup (IF i = c THEN {lo} ELSE {})
  <2>1. Unlinked(ls, lo)
    BY <1>2 DEF Unlinked
  <2>2. lo \in Nat
    BY <1>2
  <2>3. /\ LinkedOnce(lists')
        /\ Range(lists'[c]) = Range(ls[c]) \cup {lo}
        /\ \A i \in Idx \ {c} : lists'[i] = ls[i]
    BY <2>1, <2>2, InsertLists
  <2> QED
    BY <2>3
<1> HIDE DEF c
<1>8. LinkedOnce(lists)'
  BY <1>1, <1>7 DEF LinkedOnce
<1>9. ASSUME NEW i \in Idx
      PROVE  Range(lists'[i]) = {b \in FreeBlocks' : SizeIdx(hdr'[b].size) = i}
  <2>1. Range(lists'[i]) = {b \in FreeBlocks : SizeIdx(hdr[b].size) = i /\ (b < lo \/ hi <= b)}
                             \cup (IF i = c THEN {lo} ELSE {})
    BY <1>6, <1>7
  <2>2. lo # hi /\ ~(lo < lo) /\ ~(hi <= lo)
    BY <1>2
  <2> QED
    BY <1>3, <1>4, <2>1, <2>2 DEF c
<1>10. Listed'
  BY <1>1, <1>9 DEF Listed
<1>11. /\ bitmap' \subseteq Idx
       /\ \A i \in Idx : lists[i] # <<>> => i \in bitmap'
       /\ \A i \in Idx : i \in bitmap' \/ Range(lists'[i]) \subseteq Range(lists[i])
  BY <1>5, <1>7 DEF FreeLists, BitsSet, c
<1>12. BitsSet'
  BY <1>7, <1>11, BitsKept DEF FreeLists
<1> QED
  BY <1>8, <1>10, <1>12 DEF FreeLists

-----------------------------------------------------------------------------
(* The operations in terms of addresses.                                    *)

(* An accepted request that finds a block: the block fits. *)
LEMMA AllocFound ==
    ASSUME Shape, FreeLists, NEW size \in Sizes, NEW align \in Aligns, Alloc(size, align),
           NEW n, n = AllocSize(size, align), NEW f, f = Found(n)
    PROVE  /\ n \in Nat /\ 0 < n /\ n < 2^LastIdx /\ n % 4 = 0
           /\ size \in Nat /\ size + align + 28 <= n
           /\ f \in FreeBlocks /\ hdr[f].size >= n /\ SizeIdx(hdr[f].size) = FoundIdx(n)
           /\ Searched(n) \subseteq Idx /\ \A i \in Idx : lists[i] # <<>> => i \in Searched(n)
<1>1. Acceptable(size, n) /\ Fits(n) # {}
  BY DEF Alloc
<1>2. /\ n \in Nat /\ 0 < n /\ n < 2^LastIdx /\ n % 4 = 0
      /\ size \in Nat /\ size + align + 28 <= n
  BY <1>1, AllocSizeFacts
<1>3. /\ Found(n) \in FreeBlocks /\ hdr[Found(n)].size >= n
      /\ SizeIdx(hdr[Found(n)].size) = FoundIdx(n)
      /\ Searched(n) \subseteq bitmap /\ \A i \in Idx : lists[i] # <<>> => i \in Searched(n)
  BY <1>1, <1>2, SearchFacts
<1>4. bitmap \subseteq Idx
  BY DEF FreeLists, BitsSet
<1> QED
  BY <1>2, <1>3, <1>4

(* bm_memory_alloc_inner_fs when the rest is not worth keeping. *)
LEMMA AllocWhole ==
    ASSUME Shape, FreeLists, NEW size \in Sizes, NEW align \in Aligns, Alloc(size, align),
           NEW n, n = AllocSize(size, align), NEW f, f = Found(n), ~(hdr[f].size >= n + MinSize)
    PROVE  /\ TookWhole(f) /\ lists' = Delete(lists, f) /\ bitmap' = Searched(n)
           /\ smashed' = smashed \ {f} /\ lost' = lost
           /\ live' = live \cup {[ptr |-> UseAddr(f, align), size |-> size, blk |-> f]}
           /\ freed' = {a \in freed : a + HeadSize <= f \/ f + hdr[f].size <= a}
<1> DEFINE e == f + hdr[f].size
           h == With(hdr, f, Header(hdr[f].size, hdr[f].prev_size, TRUE))
<1>1. f \in Blocks /\ e \in Blocks /\ e > f
  BY AllocFound, FreeFacts, BlockFacts
<1>2. /\ hdr' = [h EXCEPT ![e].prev_size = 0]
      /\ lists' = Delete(lists, f) /\ bitmap' = Searched(n)
      /\ smashed' = smashed \ {f} /\ lost' = lost
      /\ live' = live \cup {[ptr |-> UseAddr(f, align), size |-> size, blk |-> f]}
      /\ freed' = {a \in freed : a + HeadSize <= f \/ e <= a}
  BY DEF Alloc
<1>3. /\ DOMAIN h = Blocks
      /\ \A c \in Blocks : h[c] = IF c = f THEN Header(hdr[f].size, hdr[f].prev_size, TRUE)
                                           ELSE hdr[c]
  BY <1>1 DEF With, Blocks
<1> HIDE DEF h, e
<1>4. \A c \in Blocks : hdr[c] \in [size : 0..Top, prev_size : 0..Top, used : BOOLEAN]
  BY DEF Shape, HdrType
<1>5. 0 \in 0..Top
  BY Bounds
<1>6. \A c \in Blocks : h[c] \in [size : 0..Top, prev_size : 0..Top, used : BOOLEAN]
  <2>1. Header(hdr[f].size, hdr[f].prev_size, TRUE)
           \in [size : 0..Top, prev_size : 0..Top, used : BOOLEAN]
    BY <1>1, <1>4 DEF Header
  <2> QED
    BY <1>3, <1>4, <2>1
<1>7. /\ DOMAIN hdr' = Blocks
      /\ \A c \in Blocks : hdr'[c] = IF c = e THEN [h[c] EXCEPT !.prev_size = 0] ELSE h[c]
  BY <1>1, <1>2, <1>3
<1>8. ASSUME NEW c \in Blocks
      PROVE  /\ hdr'[c] \in [size : 0..Top, prev_size : 0..Top, used : BOOLEAN]
             /\ hdr'[c].size = hdr[c].size
             /\ hdr'[c].used <=> (hdr[c].used \/ c = f)
             /\ hdr'[c].prev_size = IF c = e THEN 0 ELSE hdr[c].prev_size
  <2>1. /\ hdr'[c] \in [size : 0..Top, prev_size : 0..Top, used : BOOLEAN]
        /\ hdr'[c].size = h[c].size /\ hdr'[c].used = h[c].used
        /\ hdr'[c].prev_size = IF c = e THEN 0 ELSE h[c].prev_size
    BY <1>5, <1>6, <1>7
  <2>2. CASE c = f
    <3>1. h[c].size = hdr[c].size /\ h[c].used = TRUE /\ h[c].prev_size = hdr[c].prev_size
      BY <1>3, <2>2 DEF Header
    <3> QED
      BY <2>1, <2>2, <3>1
  <2>3. CASE c # f
    BY <1>3, <2>1, <2>3
  <2> QED
    BY <2>2, <2>3
<1>9. TookWhole(f)
  BY <1>7, <1>8 DEF TookWhole, e
<1> QED
  BY <1>2, <1>9 DEF e

(* bm_memory_alloc_inner_fs when the block found is cut. *)
LEMMA AllocEnd ==
    ASSUME Shape, FreeLists, NEW size \in Sizes, NEW align \in Aligns, Alloc(size, align),
           NEW n, n = AllocSize(size, align), NEW f, f = Found(n), hdr[f].size >= n + MinSize,
           NEW rest, rest = hdr[f].size - n, NEW g, g = f + rest
    PROVE  /\ TookEnd(f, g, n) /\ n < hdr[f].size /\ rest \in 1..Top /\ g \in Nat
           /\ lists' = IF SizeIdx(hdr[f].size) # SizeIdx(rest) THEN Insert(Delete(lists, f), f, rest)
                                                               ELSE lists
           /\ bitmap' = Searched(n) \cup (IF SizeIdx(hdr[f].size) # SizeIdx(rest)
                                          THEN {SizeIdx(rest)} ELSE {})
           /\ smashed' = smashed \ {g} /\ lost' = lost
           /\ live' = live \cup {[ptr |-> UseAddr(g, align), size |-> size, blk |-> g]}
           /\ freed' = {a \in freed : a + HeadSize <= g \/ g + n <= a}
<1> DEFINE e == f + hdr[f].size
           R == [size : 0..Top, prev_size : 0..Top, used : BOOLEAN]
           cut == With(hdr, f, [hdr[f] EXCEPT !.size = rest])
           mine == Header(n, rest, TRUE)
           h == With(cut, g, mine)
<1>1. /\ f \in FreeBlocks /\ n \in Nat /\ 0 < n /\ SizeIdx(hdr[f].size) = FoundIdx(n)
  BY AllocFound
<1>2. f \in Blocks /\ e \in Blocks
  BY <1>1, FreeFacts
<1>3. /\ f \in 0..Top /\ e \in 0..Top /\ Top \in Nat /\ hdr[f].size \in 0..Top
      /\ \A c \in Blocks : c <= f \/ e <= c
  BY <1>1, <1>2, FreeFacts, BlockFacts
<1>4. /\ n < hdr[f].size /\ rest \in 1..Top /\ rest \in 0..Top /\ n \in 0..Top
      /\ g \in Nat /\ f < g /\ g < e /\ e = g + n
  BY <1>1, <1>3 DEF MinSize, HeadSize, SizeAlign
<1>5. g \notin Blocks
  <2>1. ~(g <= f) /\ ~(e <= g)
    BY <1>3, <1>4
  <2> QED
    BY <1>3, <2>1
<1>6. /\ hdr' = [h EXCEPT ![g + n].prev_size = 0]
      /\ lists' = CASE ~TRUE -> Delete(lists, f)
                    [] FoundIdx(n) # SizeIdx(rest) -> Insert(Delete(lists, f), f, rest)
                    [] OTHER -> lists
      /\ bitmap' = Searched(n) \cup (IF FoundIdx(n) # SizeIdx(rest) THEN {SizeIdx(rest)} ELSE {})
      /\ smashed' = smashed \ {g} /\ lost' = lost
      /\ live' = live \cup {[ptr |-> UseAddr(g, align), size |-> size, blk |-> g]}
      /\ freed' = {a \in freed : a + HeadSize <= g \/ g + n <= a}
  BY DEF Alloc
<1>7. /\ DOMAIN cut = Blocks
      /\ \A c \in Blocks : cut[c] = IF c = f THEN [hdr[f] EXCEPT !.size = rest] ELSE hdr[c]
  BY <1>2 DEF With, Blocks
<1> HIDE DEF cut
<1>8. /\ DOMAIN h = Blocks \cup {g}
      /\ \A c \in Blocks \cup {g} : h[c] = IF c = g THEN mine ELSE cut[c]
  BY <1>7 DEF With
<1> HIDE DEF h, mine, e
<1>9. hdr' = [h EXCEPT ![e].prev_size = 0]
  BY <1>4, <1>6
<1>10. /\ DOMAIN hdr' = Blocks \cup {g}
       /\ \A c \in Blocks \cup {g} :
            hdr'[c] = IF c = e THEN [h[c] EXCEPT !.prev_size = 0] ELSE h[c]
  BY <1>2, <1>8, <1>9
<1>11. mine \in R /\ mine.size = n /\ mine.used = TRUE /\ mine.prev_size = rest
  BY <1>4 DEF mine, Header
<1>12. \A c \in Blocks : hdr[c] \in R
  BY DEF Shape, HdrType
<1>13. /\ hdr'[g] = mine
       /\ \A c \in Blocks : hdr'[c] = IF c = e THEN [cut[c] EXCEPT !.prev_size = 0] ELSE cut[c]
  BY <1>2, <1>5, <1>8, <1>10
<1>14. 0 \in 0..Top
  BY <1>3
<1>15. ASSUME NEW c \in Blocks
       PROVE  /\ hdr'[c] \in R
              /\ hdr'[c].size = IF c = f THEN rest ELSE hdr[c].size
              /\ hdr'[c].used = hdr[c].used
              /\ hdr'[c].prev_size = IF c = e THEN 0 ELSE hdr[c].prev_size
  <2>1. /\ cut[c] \in R /\ cut[c].size = IF c = f THEN rest ELSE hdr[c].size
        /\ cut[c].used = hdr[c].used /\ cut[c].prev_size = hdr[c].prev_size
    BY <1>4, <1>7, <1>12
  <2> QED
    BY <1>13, <1>14, <2>1
<1>16. TookEnd(f, g, n)
  BY <1>10, <1>11, <1>13, <1>15 DEF TookEnd, e
<1>17. lists' = IF SizeIdx(hdr[f].size) # SizeIdx(rest) THEN Insert(Delete(lists, f), f, rest)
                                                       ELSE lists
  BY <1>1, <1>6
<1> QED
  BY <1>1, <1>4, <1>6, <1>16, <1>17

(* prev_size leads to the free block in front, if there is one. *)
LEMMA PrevFacts ==
    ASSUME Shape, NEW b \in Blocks, b # Top
    PROVE  /\ hdr[b].prev_size # 0 => /\ b - hdr[b].prev_size \in FreeBlocks
                                      /\ hdr[b - hdr[b].prev_size].size = hdr[b].prev_size
           /\ hdr[b].prev_size = 0 => \A p \in Blocks \ {Top} : p + hdr[p].size = b => hdr[p].used
<1>1. ASSUME NEW p \in Blocks \ {Top}, p + hdr[p].size = b
      PROVE  hdr[b].prev_size = IF hdr[p].used THEN 0 ELSE hdr[p].size
  BY <1>1 DEF Shape, BoundaryTags
<1>2. ASSUME hdr[b].prev_size # 0
      PROVE  /\ b - hdr[b].prev_size \in FreeBlocks
             /\ hdr[b - hdr[b].prev_size].size = hdr[b].prev_size
  <2>1. b # 0
    BY <1>2 DEF Shape, Ends
  <2>2. PICK p \in Blocks \ {Top} : p + hdr[p].size = b
    BY <2>1 DEF Shape, Preceded
  <2>3. ~hdr[p].used /\ hdr[p].size = hdr[b].prev_size
    BY <1>1, <1>2, <2>2
  <2>4. p \in FreeBlocks
    BY <2>2, <2>3 DEF FreeBlocks
  <2>5. p \in 0..Top /\ hdr[p].size \in 0..Top
    BY <2>2, BlockFacts
  <2>6. b - hdr[b].prev_size = p
    BY <2>2, <2>3, <2>5
  <2> QED
    BY <2>3, <2>4, <2>6
<1>3. ASSUME hdr[b].prev_size = 0, NEW p \in Blocks \ {Top}, p + hdr[p].size = b PROVE hdr[p].used
  <2>1. hdr[p].size > 0 /\ hdr[p].size \in 0..Top
    BY <1>3, BlockFacts
  <2> QED
    BY <1>1, <1>3, <2>1
<1> QED
  BY <1>2, <1>3

(* Where the block that bm_memory_free_fsc leaves starts and ends. *)
FreeLo(b) == IF MergePrev(b) THEN b - hdr[b].prev_size ELSE b
FreeHi(b) == IF MergeNext(b) THEN b + hdr[b].size + hdr[b + hdr[b].size].size
                             ELSE b + hdr[b].size

(* It is the block freed with its free neighbours, between used ones. *)
LEMMA FreeSpan ==
    ASSUME Shape, NEW b \in Blocks, b # Top, hdr[b].used,
           NEW lo, lo = FreeLo(b), NEW hi, hi = FreeHi(b), NEW nb, nb = b + hdr[b].size
    PROVE  /\ lo \in Blocks /\ hi \in Blocks /\ lo <= b /\ b < nb /\ nb <= hi /\ hdr[hi].used
           /\ hi - lo \in 1..Top /\ nb \in Blocks
           /\ MergePrev(b) => lo \in FreeBlocks /\ lo < b /\ b = lo + hdr[lo].size
           /\ MergeNext(b) => nb \in FreeBlocks /\ nb < hi
           /\ \A p \in Blocks \ {Top} : p + hdr[p].size = lo => hdr[p].used
           /\ \A c \in Blocks : \/ c < lo \/ hi <= c \/ c = b
                                \/ (MergePrev(b) /\ c = lo) \/ (MergeNext(b) /\ c = nb)
<1>1. /\ nb \in Blocks /\ b \in 0..Top /\ Top \in Nat /\ hdr[b].size \in 0..Top /\ hdr[b].size > 0
      /\ hdr[b].prev_size \in 0..Top
      /\ \A c \in Blocks : c <= b \/ nb <= c
  BY BlockFacts
<1>2. nb \in 0..Top /\ \A c \in Blocks : c \in 0..Top
  BY <1>1, BlockFacts
<1>3. /\ lo \in Blocks /\ lo <= b
      /\ MergePrev(b) => lo \in FreeBlocks /\ lo < b /\ b = lo + hdr[lo].size
      /\ \A p \in Blocks \ {Top} : p + hdr[p].size = lo => hdr[p].used
      /\ \A c \in Blocks : c < lo \/ b <= c \/ (MergePrev(b) /\ c = lo)
  <2>1. CASE ~MergePrev(b)
    <3>1. lo = b /\ hdr[b].prev_size = 0
      BY <2>1 DEF FreeLo, MergePrev
    <3>2. \A p \in Blocks \ {Top} : p + hdr[p].size = lo => hdr[p].used
      BY <3>1, PrevFacts
    <3>3. lo \in Blocks /\ lo <= b
      BY <1>1, <3>1
    <3>4. \A c \in Blocks : c < lo \/ b <= c
      BY <1>1, <1>2, <3>1
    <3> QED
      BY <2>1, <3>2, <3>3, <3>4, Zenon
  <2>2. CASE MergePrev(b)
    <3>1. lo = b - hdr[b].prev_size /\ hdr[b].prev_size # 0
      BY <2>2 DEF FreeLo, MergePrev
    <3>2. lo \in FreeBlocks /\ hdr[lo].size = hdr[b].prev_size
      BY <3>1, PrevFacts
    <3>3. lo \in Blocks /\ lo # Top /\ ~hdr[lo].used
      BY <3>2, FreeFacts
    <3>4. b = lo + hdr[lo].size /\ lo < b
      BY <1>1, <3>1, <3>2
    <3>5. ASSUME NEW p \in Blocks \ {Top}, p + hdr[p].size = lo, ~hdr[p].used PROVE FALSE
      <4>1. p \in FreeBlocks
        BY <3>5 DEF FreeBlocks
      <4> QED
        BY <3>3, <3>5, <4>1, FreeFacts
    <3>6. \A c \in Blocks : c <= lo \/ b <= c
      BY <3>3, <3>4, BlockFacts
    <3>7. lo \in 0..Top /\ lo <= b
      <4>1. lo \in 0..Top /\ b \in 0..Top
        BY <1>2, <3>3, Zenon
      <4> QED
        BY <3>4, <4>1 DEF Top
    <3>8. \A c \in Blocks : c < lo \/ b <= c \/ c = lo
      BY <1>2, <3>6, <3>7
    <3> QED
      BY <2>2, <3>2, <3>3, <3>4, <3>5, <3>7, <3>8, Zenon
  <2> QED
    BY <2>1, <2>2
<1>4. /\ hi \in Blocks /\ nb <= hi /\ hdr[hi].used
      /\ MergeNext(b) => nb \in FreeBlocks /\ nb < hi
      /\ \A c \in Blocks : c < nb \/ hi <= c \/ (MergeNext(b) /\ c = nb)
  <2>1. CASE ~MergeNext(b)
    <3>1. hi = nb /\ hdr[nb].used
      BY <2>1 DEF FreeHi, MergeNext
    <3>2. hi \in Blocks /\ nb <= hi
      BY <1>1, <1>2, <3>1
    <3>3. \A c \in Blocks : c < nb \/ hi <= c
      BY <1>2, <3>1
    <3> QED
      BY <2>1, <3>1, <3>2, <3>3, Zenon
  <2>2. CASE MergeNext(b)
    <3>1. hi = nb + hdr[nb].size /\ nb \in FreeBlocks
      BY <1>1, <2>2 DEF FreeHi, MergeNext, FreeBlocks
    <3>2. hi \in Blocks /\ hdr[hi].used /\ nb # Top
      BY <3>1, FreeFacts
    <3>3. /\ hdr[nb].size > 0 /\ hdr[nb].size \in 0..Top
          /\ \A c \in Blocks : c <= nb \/ hi <= c
      BY <1>1, <3>1, <3>2, BlockFacts
    <3>4. nb < hi
      BY <1>2, <3>1, <3>3
    <3>5. hi \in 0..Top /\ nb <= hi
      BY <1>2, <3>2, <3>4
    <3>6. \A c \in Blocks : c < nb \/ hi <= c \/ c = nb
      BY <1>2, <3>3, <3>5
    <3> QED
      BY <2>2, <3>1, <3>2, <3>4, <3>5, <3>6, Zenon
  <2> QED
    BY <2>1, <2>2
<1>5. hi - lo \in 1..Top /\ b < nb
  <2>1. lo \in 0..Top /\ hi \in 0..Top /\ lo <= b /\ nb <= hi
    BY <1>2, <1>3, <1>4
  <2> QED
    BY <1>1, <1>2, <2>1
<1>6. ASSUME NEW c \in Blocks
      PROVE  c < lo \/ hi <= c \/ c = b \/ (MergePrev(b) /\ c = lo) \/ (MergeNext(b) /\ c = nb)
  BY <1>1, <1>2, <1>3, <1>4
<1> QED
  BY <1>1, <1>3, <1>4, <1>5, <1>6

(* The headers that Free leaves when it frees block b. *)
FreedHdr(b) ==
    LET nb    == b + hdr[b].size
        size1 == hdr[b].size + IF MergeNext(b) THEN hdr[nb].size ELSE 0
        pb    == b - hdr[b].prev_size
        whole == IF MergePrev(b) THEN pb ELSE b
        size2 == IF MergePrev(b) THEN hdr[pb].size + size1 ELSE size1
        gone  == (IF MergeNext(b) THEN {nb} ELSE {}) \cup (IF MergePrev(b) THEN {b} ELSE {})
        keep  == Without(hdr, gone)
    IN  [With(keep, whole, Header(size2, keep[whole].prev_size, FALSE))
           EXCEPT ![whole + size2].prev_size = size2]

LEMMA FreeHeaders ==
    ASSUME NEW l, Free(l), NEW b, b = l.blk
    PROVE  hdr' = FreedHdr(b)
<1>1. hdr' = FreedHdr(l.blk)
  BY Zenon DEF Free, FreedHdr
<1> QED
  BY <1>1, Zenon

(* What bm_memory_free_fsc does to the headers and lists. *)
LEMMA FreeReleases ==
    ASSUME Shape, FreeLists, NEW l, Free(l), NEW b \in Blocks, b = l.blk, b # Top,
           NEW lo, lo = FreeLo(b), NEW hi, hi = FreeHi(b)
    PROVE  Released(lo, hi)
<1> DEFINE nb == b + hdr[b].size
           R == [size : 0..Top, prev_size : 0..Top, used : BOOLEAN]
           gone == (IF MergeNext(b) THEN {nb} ELSE {}) \cup (IF MergePrev(b) THEN {b} ELSE {})
           keep == Without(hdr, gone)
           size2 == hi - lo
           h == With(keep, lo, Header(size2, keep[lo].prev_size, FALSE))
<1>1. hdr[b].used
  BY DEF Free
<1>2. /\ lo \in Blocks /\ hi \in Blocks /\ lo <= b /\ b < nb /\ nb <= hi
      /\ hi - lo \in 1..Top /\ nb \in Blocks
      /\ MergePrev(b) => lo < b /\ b = lo + hdr[lo].size
      /\ MergeNext(b) => nb < hi
  BY <1>1, FreeSpan
<1>3. \A c \in Blocks : \/ c < lo \/ hi <= c \/ c = b
                        \/ (MergePrev(b) /\ c = lo) \/ (MergeNext(b) /\ c = nb)
  BY <1>1, FreeSpan
<1>4. \A c \in Blocks : c \in 0..Top /\ hdr[c] \in R
  BY DEF Shape, HdrType
<1>5. ~MergePrev(b) => lo = b
  BY DEF FreeLo
<1>6. hdr' = [h EXCEPT ![hi].prev_size = size2]
  <2> DEFINE pb == b - hdr[b].prev_size
             size1 == hdr[b].size + IF MergeNext(b) THEN hdr[nb].size ELSE 0
             whole == IF MergePrev(b) THEN pb ELSE b
             sz == IF MergePrev(b) THEN hdr[pb].size + size1 ELSE size1
  <2>1. hdr' = [With(keep, whole, Header(sz, keep[whole].prev_size, FALSE))
                  EXCEPT ![whole + sz].prev_size = sz]
    BY FreeHeaders, Zenon DEF FreedHdr
  <2>2. whole = lo
    BY DEF FreeLo
  <2>3. hdr[b].size \in 0..Top /\ hdr[nb].size \in 0..Top /\ hdr[lo].size \in 0..Top
    BY <1>2, <1>4
  <2>4. size1 = hi - b
    BY <1>2, <1>4, <2>3 DEF FreeHi
  <2>5. sz = size2
    <3>1. CASE MergePrev(b)
      <4>1. sz = hdr[lo].size + size1
        BY <2>2, <3>1
      <4> QED
        BY <1>2, <1>4, <2>3, <2>4, <3>1, <4>1
    <3>2. CASE ~MergePrev(b)
      BY <1>5, <2>4, <3>2
    <3> QED
      BY <3>1, <3>2
  <2>6. lo + size2 = hi
    BY <1>2, <1>4
  <2> HIDE DEF whole, sz
  <2> QED
    BY <2>1, <2>2, <2>5, <2>6
<1>7. Blocks \ gone = {c \in Blocks : c <= lo \/ hi <= c}
  <2>1. nb \in Int /\ b \in Int /\ lo \in Int /\ hi \in Int /\ \A c \in Blocks : c \in Int
    BY <1>2, <1>4
  <2>2. \A c \in Blocks \ gone : c <= lo \/ hi <= c
    BY <1>3, <1>5, <2>1
  <2>3. \A c \in gone : lo < c /\ c < hi
    BY <1>2, <2>1
  <2>4. \A c \in gone : ~(c <= lo \/ hi <= c)
    <3>1. \A c \in gone : c \in Int
      BY <2>1
    <3> QED
      BY <2>1, <2>3, <3>1
  <2> QED
    BY <2>2, <2>4
<1>8. DOMAIN keep = Blocks \ gone /\ \A c \in Blocks \ gone : keep[c] = hdr[c]
  BY DEF Without, Blocks
<1> HIDE DEF gone, keep, nb, size2
<1>9. lo \in Blocks \ gone /\ hi \in Blocks \ gone /\ lo # hi
  BY <1>2, <1>4, <1>7
<1>10. /\ DOMAIN h = Blocks \ gone
       /\ \A c \in Blocks \ gone :
            h[c] = IF c = lo THEN Header(size2, hdr[lo].prev_size, FALSE) ELSE hdr[c]
  BY <1>8, <1>9 DEF With
<1> HIDE DEF h
<1>11. /\ DOMAIN hdr' = Blocks \ gone
       /\ \A c \in Blocks \ gone :
            hdr'[c] = IF c = hi THEN [h[c] EXCEPT !.prev_size = size2] ELSE h[c]
  BY <1>6, <1>9, <1>10
<1>12. size2 \in 0..Top
  BY <1>2 DEF size2
<1>13. Header(size2, hdr[lo].prev_size, FALSE) \in R
  BY <1>4, <1>9, <1>12 DEF Header
<1>14. ASSUME NEW c \in Blocks \ gone
       PROVE  /\ hdr'[c] \in R
              /\ hdr'[c].size = IF c = lo THEN size2 ELSE hdr[c].size
              /\ hdr'[c].used <=> (hdr[c].used /\ c # lo)
              /\ hdr'[c].prev_size = IF c = hi THEN size2 ELSE hdr[c].prev_size
  <2>1. CASE c = lo
    <3>1. hdr'[c] = Header(size2, hdr[lo].prev_size, FALSE) /\ c # hi
      BY <1>9, <1>10, <1>11, <2>1
    <3>2. hdr'[c].size = size2 /\ hdr'[c].used = FALSE /\ hdr'[c].prev_size = hdr[c].prev_size
      BY <2>1, <3>1 DEF Header
    <3>3. hdr'[c] \in R
      BY <1>13, <3>1
    <3> QED
      BY <2>1, <3>1, <3>2, <3>3
  <2>2. CASE c # lo
    <3>1. hdr'[c] = IF c = hi THEN [hdr[c] EXCEPT !.prev_size = size2] ELSE hdr[c]
      BY <1>10, <1>11, <2>2
    <3>2. hdr[c] \in R
      BY <1>4
    <3>3. /\ hdr'[c] \in R /\ hdr'[c].size = hdr[c].size /\ hdr'[c].used = hdr[c].used
          /\ hdr'[c].prev_size = IF c = hi THEN size2 ELSE hdr[c].prev_size
      BY <1>12, <3>1, <3>2
    <3> QED
      BY <2>2, <3>3
  <2> QED
    BY <2>1, <2>2
<1> QED
  BY <1>7, <1>11, <1>14 DEF Released, size2

(* bm_memory_free_fsc keeps the shape and the lists. *)
LEMMA FreeKeeps ==
    ASSUME Shape, FreeLists, NEW l, Free(l), NEW b \in Blocks, b = l.blk, b # Top,
           NEW lo, lo = FreeLo(b), NEW hi, hi = FreeHi(b)
    PROVE  Shape' /\ FreeLists'
<1> DEFINE nb == b + hdr[b].size
           l1 == IF MergeNext(b) THEN Delete(lists, nb) ELSE lists
           l2 == IF MergePrev(b) THEN Delete(l1, lo) ELSE l1
           size == hi - lo
<1>1. hdr[b].used
  BY DEF Free
<1>2. /\ lo \in Blocks /\ hi \in Blocks /\ lo <= b /\ b < nb /\ nb <= hi /\ hdr[hi].used
      /\ hi - lo \in 1..Top
      /\ MergePrev(b) => lo < b /\ b = lo + hdr[lo].size
      /\ MergeNext(b) => nb < hi
      /\ \A p \in Blocks \ {Top} : p + hdr[p].size = lo => hdr[p].used
  BY <1>1, FreeSpan
<1>3. \A c \in Blocks : \/ c < lo \/ hi <= c \/ c = b
                        \/ (MergePrev(b) /\ c = lo) \/ (MergeNext(b) /\ c = nb)
  BY <1>1, FreeSpan
<1>4. \A c \in Blocks : c \in 0..Top
  BY DEF Shape, HdrType
<1>5. Released(lo, hi)
  BY FreeReleases
<1>6. lo < hi /\ lo \in Int /\ hi \in Int /\ nb \in Int
  <2>1. lo \in Int /\ hi \in Int /\ b \in Int /\ hdr[b].size \in Int
    BY <1>2, <1>4, BlockFacts
  <2> QED
    BY <1>2, <2>1
<1>7. Shape'
  BY <1>2, <1>5, <1>6, ReleasedShape
<1>8. SizeIdx(size) \in Idx
  <2> DEFINE P == 2^LastIdx
  <2>1. P \in Nat /\ Top \in Nat /\ Top < P
    BY Bounds
  <2>2. size \in 1..Top
    BY <1>2
  <2> HIDE DEF size, P
  <2>3. size \in Nat /\ 0 < size /\ size < P
    BY <2>1, <2>2
  <2> QED
    BY <2>3, SizeIdxBounds DEF P
<1>9. /\ lists' = Insert(l2, lo, size)
      /\ bitmap' = bitmap \cup {SizeIdx(size)}
  <2> DEFINE pb == b - hdr[b].prev_size
             size1 == hdr[b].size + IF MergeNext(b) THEN hdr[nb].size ELSE 0
             whole == IF MergePrev(b) THEN pb ELSE b
             sz == IF MergePrev(b) THEN hdr[pb].size + size1 ELSE size1
  <2>1. /\ lists' = Insert(IF MergePrev(b) THEN Delete(l1, pb) ELSE l1, whole, sz)
        /\ bitmap' = bitmap \cup {SizeIdx(sz)}
    BY DEF Free
  <2>2. whole = lo /\ (MergePrev(b) => pb = lo)
    BY DEF FreeLo
  <2>3. hdr[b].size \in 0..Top /\ hdr[nb].size \in 0..Top /\ hdr[lo].size \in 0..Top /\ nb \in Blocks
    BY <1>1, <1>2, BlockFacts
  <2>4. size1 = hi - b
    BY <1>2, <1>4, <2>3 DEF FreeHi
  <2>5. sz = size
    <3>1. CASE MergePrev(b)
      <4>1. sz = hdr[lo].size + size1
        BY <2>2, <3>1
      <4> QED
        BY <1>2, <1>4, <2>3, <2>4, <3>1, <4>1
    <3>2. CASE ~MergePrev(b)
      BY <2>2, <2>4, <3>2
    <3> QED
      BY <3>1, <3>2
  <2> QED
    BY <2>1, <2>2, <2>5
<1>10. LinkedOnce(lists) /\ \A i \in Idx : Range(lists[i]) \subseteq FreeBlocks
  BY DEF FreeLists, Listed
<1>11. /\ LinkedOnce(l1)
       /\ \A i \in Idx : Range(l1[i]) = Range(lists[i]) \ (IF MergeNext(b) THEN {nb} ELSE {})
  BY <1>10, DeleteLists
<1> HIDE DEF l1
<1>12. /\ LinkedOnce(l2)
       /\ \A i \in Idx : Range(l2[i]) = Range(l1[i]) \ (IF MergePrev(b) THEN {lo} ELSE {})
  BY <1>11, DeleteLists
<1> HIDE DEF l2, nb
<1>13. ASSUME NEW i \in Idx PROVE Range(l2[i]) = {c \in Range(lists[i]) : c < lo \/ hi <= c}
  <2>1. Range(l2[i]) = (Range(lists[i]) \ (IF MergeNext(b) THEN {nb} ELSE {}))
                          \ (IF MergePrev(b) THEN {lo} ELSE {})
    BY <1>11, <1>12
  <2>2. \A c \in Range(lists[i]) : c \in Blocks /\ c # b
    BY <1>1, <1>10 DEF FreeBlocks
  <2>3. MergeNext(b) => ~(nb < lo \/ hi <= nb)
    <3>1. b \in Int
      BY <1>4
    <3> QED
      BY <1>2, <1>6, <3>1
  <2>4. ~(lo < lo \/ hi <= lo)
    BY <1>6
  <2> QED
    BY <1>3, <2>1, <2>2, <2>3, <2>4
<1> HIDE DEF size
<1>14. FreeLists'
  <2>1. size = hi - lo
    BY DEF size
  <2> QED
    BY <1>2, <1>5, <1>6, <1>8, <1>9, <1>12, <1>13, <2>1, ReleasedLists
<1> QED
  BY <1>7, <1>14

-----------------------------------------------------------------------------
(* The inductive invariant.                                                 *)

LiveType == \A l \in live : l \in [ptr : Nat, size : Nat, blk : Blocks]

(* A used block is in use by a caller, or was refused when freed. *)
Accounted == \A b \in Blocks \ {Top} : hdr[b].used => b \in lost \/ \E l \in live : l.blk = b

SmashedUsed == \A b \in smashed : b \in Blocks /\ hdr[b].used

HistoryType == freed \subseteq 0..Top /\ lost \subseteq 0..Top

HeapInv == /\ Shape /\ FreeLists
           /\ LiveType /\ AreasDisjoint /\ Accounted
           /\ SmashedUsed /\ DoubleFreeSeen /\ HistoryType

(* The block of an allocation is a used one, and not the end mark. *)
LEMMA LiveBlock ==
    ASSUME HeapInv, NEW l \in live
    PROVE  /\ l.ptr \in Nat /\ l.size \in Nat
           /\ l.blk \in Blocks /\ l.blk # Top /\ hdr[l.blk].used
<1>1. l.ptr \in Nat /\ l.size \in Nat /\ l.blk \in Blocks
  BY DEF HeapInv, LiveType
<1>2. /\ hdr[l.blk].used
      /\ l.ptr >= l.blk + 32 /\ l.ptr + l.size <= l.blk + hdr[l.blk].size
  BY DEF HeapInv, AreasDisjoint, HeadSize
<1>3. l.blk = Top => hdr[l.blk].size = 0
  BY <1>1, BlockFacts DEF HeapInv
<1>4. l.blk \in 0..Top
  BY <1>1, BlockFacts DEF HeapInv
<1>5. l.blk # Top
  BY <1>1, <1>2, <1>3, <1>4
<1> QED
  BY <1>1, <1>2, <1>5

(* bm_memory_init_fsc establishes the invariant, and each operation keeps it. *)
LEMMA HeapInit == Init => HeapInv
<1> SUFFICES ASSUME Init PROVE HeapInv
  OBVIOUS
<1> DEFINE c == SizeIdx(Top)
<1>1. Top \in Nat /\ Top > 0 /\ Top % 4 = 0
  BY Bounds
<1>2. c \in Idx
  BY Bounds, SizeIdxBounds
<1>3. /\ Blocks = {0, Top} /\ hdr[0] = Header(Top, 0, FALSE) /\ hdr[Top] = Header(0, 0, TRUE)
  BY <1>1 DEF Init, With, Blocks
<1>4. /\ hdr[0].size = Top /\ hdr[0].prev_size = 0 /\ hdr[0].used = FALSE
      /\ hdr[Top].size = 0 /\ hdr[Top].prev_size = 0 /\ hdr[Top].used = TRUE
  BY <1>3 DEF Header
<1>5. HdrType
  <2>1. 0 \in 0..Top /\ Top \in 0..Top
    BY <1>1
  <2>2. /\ hdr[0] \in [size : 0..Top, prev_size : 0..Top, used : BOOLEAN]
        /\ hdr[Top] \in [size : 0..Top, prev_size : 0..Top, used : BOOLEAN]
    BY <1>3, <2>1 DEF Header
  <2> QED
    BY <1>3, <2>1, <2>2 DEF HdrType
<1>6. FreeBlocks = {0}
  BY <1>1, <1>3, <1>4 DEF FreeBlocks
<1>7. Shape
  <2>0. Blocks = {0, Top} /\ 0 # Top /\ 0 + Top = Top
    BY <1>1, <1>3
  <2>1. Ends /\ Chunks
    <3>1. Ends
      BY <1>4, <2>0 DEF Ends
    <3>2. \A b \in {0, Top} : b % 4 = 0 /\ (b # Top => hdr[b].size > 0)
      BY <1>1, <1>4
    <3> QED
      BY <2>0, <3>1, <3>2 DEF Chunks
  <2>2. Tiling
    <3>1. 0 + hdr[0].size = Top
      BY <1>4, <2>0
    <3>2. \A c2 \in Blocks : 0 < c2 => Top <= c2
      BY <1>1, <2>0
    <3>3. \A b \in Blocks : b # Top => b = 0
      BY <2>0
    <3> QED
      BY <1>4, <2>0, <3>1, <3>2, <3>3 DEF Tiling
  <2>3. Preceded
    <3>1. 0 \in Blocks \ {Top} /\ 0 + hdr[0].size = Top
      BY <1>4, <2>0
    <3>2. \A b \in Blocks \ {0} : b = Top
      BY <2>0
    <3> QED
      BY <3>1, <3>2 DEF Preceded
  <2>4. BoundaryTags
    <3>1. 0 + hdr[0].size = Top
      BY <1>4, <2>0
    <3>2. \A b \in Blocks \ {Top} : b = 0
      BY <2>0
    <3> QED
      BY <3>1, <3>2 DEF BoundaryTags
  <2>5. Merged
    BY <1>1, <1>4, <1>6 DEF Merged
  <2> QED
    BY <1>5, <2>1, <2>2, <2>3, <2>4, <2>5 DEF Shape
<1>8. FreeLists
  <2>1. lists = [i \in Idx |-> IF i = c THEN <<0>> ELSE <<>>] /\ bitmap = {c}
    BY DEF Init
  <2> HIDE DEF c
  <2>2. /\ <<0>> \in Seq(Nat) /\ <<>> \in Seq(Nat)
        /\ Range(<<0>>) = {0} /\ Range(<<>>) = {}
        /\ IsInjective(<<0>>) /\ IsInjective(<<>>)
    BY DEF Range, IsInjective
  <2>3. LinkedOnce(lists)
    BY <2>1, <2>2 DEF LinkedOnce
  <2>4. Listed
    <3>1. ASSUME NEW i \in Idx PROVE Range(lists[i]) = {b \in FreeBlocks : SizeIdx(hdr[b].size) = i}
      BY <1>4, <1>6, <2>1, <2>2 DEF c
    <3> QED
      BY <3>1 DEF Listed
  <2>5. BitsSet
    BY <1>2, <2>1 DEF BitsSet
  <2> QED
    BY <2>3, <2>4, <2>5 DEF FreeLists
<1>9. /\ LiveType /\ AreasDisjoint /\ Accounted /\ SmashedUsed /\ DoubleFreeSeen /\ HistoryType
  BY <1>3, <1>4 DEF Init, LiveType, AreasDisjoint, Accounted, SmashedUsed, DoubleFreeSeen, HistoryType
<1> QED
  BY <1>7, <1>8, <1>9 DEF HeapInv

(* What callers hold, when block a becomes theirs. *)
LEMMA Given ==
    ASSUME HeapInv, NEW a, NEW p \in Nat, NEW size \in Nat, Blocks' = Blocks \cup {a},
           hdr'[a].used, p >= a + HeadSize, p + size <= a + hdr'[a].size,
           \A c \in Blocks \ {a} : hdr'[c].used <=> hdr[c].used,
           \A c \in Blocks : hdr[c].used => hdr'[c].size = hdr[c].size,
           a \in Blocks => ~hdr[a].used,
           live' = live \cup {[ptr |-> p, size |-> size, blk |-> a]},
           smashed' = smashed \ {a}, lost' = lost, freed' \subseteq freed, a \notin freed'
    PROVE  /\ LiveType' /\ AreasDisjoint' /\ Accounted'
           /\ SmashedUsed' /\ DoubleFreeSeen' /\ HistoryType'
<1> DEFINE k == [ptr |-> p, size |-> size, blk |-> a]
<1>1. Top' = Top /\ HeadSize' = HeadSize
  BY DEF Top, HeadSize
<1>2. k.ptr = p /\ k.size = size /\ k.blk = a /\ k \in [ptr : Nat, size : Nat, blk : Blocks']
  OBVIOUS
<1>3. live' = live \cup {k}
  OBVIOUS
<1> HIDE DEF k
<1>4. \A l \in live : /\ l \in [ptr : Nat, size : Nat, blk : Blocks'] /\ l.blk \in Blocks /\ l.blk # a
                      /\ hdr[l.blk].used /\ hdr'[l.blk].used /\ hdr'[l.blk].size = hdr[l.blk].size
  BY LiveBlock DEF HeapInv, LiveType
<1>5. LiveType'
  BY <1>2, <1>3, <1>4 DEF LiveType
<1>6. AreasDisjoint'
  <2>1. \A l \in live : l.ptr >= l.blk + HeadSize /\ l.ptr + l.size <= l.blk + hdr[l.blk].size
    BY DEF HeapInv, AreasDisjoint
  <2>2. \A l, m \in live : l # m => l.blk # m.blk
    BY DEF HeapInv, AreasDisjoint
  <2>3. \A l \in live' : /\ hdr'[l.blk].used /\ l.ptr >= l.blk + HeadSize
                         /\ l.ptr + l.size <= l.blk + hdr'[l.blk].size
    BY <1>2, <1>3, <1>4, <2>1
  <2>4. \A l, m \in live' : l # m => l.blk # m.blk
    BY <1>2, <1>3, <1>4, <2>2
  <2> QED
    BY <1>1, <2>3, <2>4 DEF AreasDisjoint
<1>7. Accounted'
  BY <1>1, <1>2, <1>3 DEF HeapInv, Accounted
<1>8. SmashedUsed' /\ DoubleFreeSeen' /\ HistoryType'
  BY <1>1 DEF HeapInv, SmashedUsed, DoubleFreeSeen, HistoryType
<1> QED
  BY <1>5, <1>6, <1>7, <1>8

(* An allocation keeps the invariant. *)
LEMMA AllocKeeps ==
    ASSUME HeapInv, NEW size \in Sizes, NEW align \in Aligns, Alloc(size, align)
    PROVE  HeapInv'
<1>0. Shape /\ FreeLists
  BY DEF HeapInv
<1>n. PICK n : n = AllocSize(size, align)
  OBVIOUS
<1>f. PICK f : f = Found(n)
  OBVIOUS
<1>1. /\ n \in Nat /\ 0 < n /\ n < 2^LastIdx /\ n % 4 = 0
      /\ size \in Nat /\ size + align + 28 <= n
      /\ f \in FreeBlocks /\ hdr[f].size >= n
      /\ Searched(n) \subseteq Idx /\ \A i \in Idx : lists[i] # <<>> => i \in Searched(n)
  BY <1>0, <1>n, <1>f, AllocFound
<1>2. f \in Blocks /\ ~hdr[f].used /\ f \in Nat /\ f % 4 = 0 /\ hdr[f].size \in 0..Top /\ Top \in Nat
  BY <1>0, <1>1, FreeFacts, BlockFacts
<1>3. align \in Nat
  BY AlignFacts
<1>h. freed \subseteq 0..Top
  BY DEF HeapInv, HistoryType
<1>4. CASE ~(hdr[f].size >= n + MinSize)
  <2>1. /\ TookWhole(f) /\ lists' = Delete(lists, f) /\ bitmap' = Searched(n)
        /\ smashed' = smashed \ {f} /\ lost' = lost
        /\ live' = live \cup {[ptr |-> UseAddr(f, align), size |-> size, blk |-> f]}
        /\ freed' = {a \in freed : a + HeadSize <= f \/ f + hdr[f].size <= a}
    BY <1>0, <1>n, <1>f, <1>4, AllocWhole
  <2>2. Shape'
    BY <1>0, <1>1, <2>1, WholeShape
  <2>3. FreeLists'
    BY <1>0, <1>1, <2>1, WholeLists
  <2>4. PICK p : p = UseAddr(f, align)
    OBVIOUS
  <2>5. p \in Nat /\ f + 32 <= p /\ p <= f + 28 + align
    BY <1>2, <2>4, UseAddrFacts
  <2>6. /\ Blocks' = Blocks /\ hdr'[f].used /\ hdr'[f].size = hdr[f].size
        /\ \A c \in Blocks \ {f} : hdr'[c].used <=> hdr[c].used
        /\ \A c \in Blocks : hdr'[c].size = hdr[c].size
    BY <1>2, <2>1 DEF TookWhole, Blocks
  <2>7. p >= f + HeadSize /\ p + size <= f + hdr'[f].size
    <3> DEFINE s == hdr[f].size
    <3>1. s \in Int /\ s >= n /\ hdr'[f].size = s
      BY <1>1, <1>2, <2>6
    <3> HIDE DEF s
    <3>2. p >= f + HeadSize /\ p + size <= f + s
      BY <1>1, <1>2, <1>3, <2>5, <3>1 DEF HeadSize
    <3> QED
      BY <3>1, <3>2
  <2>8. freed' \subseteq freed /\ f \notin freed'
    <3>1. ~(f + HeadSize <= f) /\ ~(f + hdr[f].size <= f)
      BY <1>1, <1>2 DEF HeadSize
    <3> QED
      BY <2>1, <3>1
  <2>9. /\ LiveType' /\ AreasDisjoint' /\ Accounted'
        /\ SmashedUsed' /\ DoubleFreeSeen' /\ HistoryType'
    <3>1. Blocks' = Blocks \cup {f}
      BY <1>2, <2>6
    <3> QED
      BY <1>1, <1>2, <2>1, <2>4, <2>5, <2>6, <2>7, <2>8, <3>1, Given
  <2> QED
    BY <2>2, <2>3, <2>9 DEF HeapInv
<1>5. CASE hdr[f].size >= n + MinSize
  <2>r. PICK rest : rest = hdr[f].size - n
    OBVIOUS
  <2>g. PICK g : g = f + rest
    OBVIOUS
  <2>1. /\ TookEnd(f, g, n) /\ n < hdr[f].size /\ rest \in 1..Top /\ g \in Nat
        /\ lists' = IF SizeIdx(hdr[f].size) # SizeIdx(rest) THEN Insert(Delete(lists, f), f, rest)
                                                            ELSE lists
        /\ bitmap' = Searched(n) \cup (IF SizeIdx(hdr[f].size) # SizeIdx(rest)
                                       THEN {SizeIdx(rest)} ELSE {})
        /\ smashed' = smashed \ {g} /\ lost' = lost
        /\ live' = live \cup {[ptr |-> UseAddr(g, align), size |-> size, blk |-> g]}
        /\ freed' = {a \in freed : a + HeadSize <= g \/ g + n <= a}
    BY <1>0, <1>n, <1>f, <1>5, <2>r, <2>g, AllocEnd
  <2>2. Shape' /\ g \notin Blocks /\ g % 4 = 0
    BY <1>0, <1>1, <2>1, <2>r, <2>g, EndShape
  <2>3. FreeLists'
    <3>1. SizeIdx(rest) \in Idx
      <4> DEFINE P == 2^LastIdx
      <4>1. P \in Nat /\ Top < P
        BY Bounds
      <4> HIDE DEF P
      <4>2. rest \in Nat /\ 0 < rest /\ rest < P
        BY <1>2, <2>1, <4>1
      <4> QED
        BY <4>2, SizeIdxBounds DEF P
    <3>2. bitmap' \subseteq Idx /\ \A i \in Idx : lists[i] # <<>> => i \in bitmap'
      BY <1>1, <2>1, <3>1
    <3>3. SizeIdx(hdr[f].size) # SizeIdx(rest) => SizeIdx(rest) \in bitmap'
      BY <2>1
    <3> QED
      BY <1>0, <1>1, <2>1, <2>2, <2>r, <3>1, <3>2, <3>3, EndLists
  <2>4. PICK p : p = UseAddr(g, align)
    OBVIOUS
  <2>5. p \in Nat /\ g + 32 <= p /\ p <= g + 28 + align
    BY <2>1, <2>2, <2>4, UseAddrFacts
  <2>6. /\ Blocks' = Blocks \cup {g} /\ hdr'[g].used /\ hdr'[g].size = n
        /\ \A c \in Blocks : hdr'[c].used <=> hdr[c].used
        /\ \A c \in Blocks : hdr[c].used => hdr'[c].size = hdr[c].size
    BY <1>2, <2>1 DEF TookEnd, Blocks
  <2>7. p >= g + HeadSize /\ p + size <= g + hdr'[g].size
    BY <1>1, <1>3, <2>1, <2>5, <2>6 DEF HeadSize
  <2>8. freed' \subseteq freed /\ g \notin freed'
    <3>1. ~(g + HeadSize <= g) /\ ~(g + n <= g)
      BY <1>1, <2>1 DEF HeadSize
    <3> QED
      BY <2>1, <3>1
  <2>9. /\ LiveType' /\ AreasDisjoint' /\ Accounted'
        /\ SmashedUsed' /\ DoubleFreeSeen' /\ HistoryType'
    BY <1>1, <2>1, <2>2, <2>4, <2>5, <2>6, <2>7, <2>8, Given
  <2> QED
    BY <2>2, <2>3, <2>9 DEF HeapInv
<1> QED
  BY <1>4, <1>5

(* A free keeps the invariant. *)
LEMMA FreeStep ==
    ASSUME HeapInv, NEW l \in live, Free(l)
    PROVE  HeapInv'
<1>0. Shape /\ FreeLists
  BY DEF HeapInv
<1>1. PICK b : b = l.blk
  OBVIOUS
<1>2. b \in Blocks /\ b # Top /\ hdr[b].used
  BY <1>1, LiveBlock
<1>3. PICK lo : lo = FreeLo(b)
  OBVIOUS
<1>4. PICK hi : hi = FreeHi(b)
  OBVIOUS
<1>5. Shape' /\ FreeLists'
  BY <1>0, <1>1, <1>2, <1>3, <1>4, FreeKeeps
<1>6. Released(lo, hi)
  BY <1>0, <1>1, <1>2, <1>3, <1>4, FreeReleases
<1>7. /\ lo \in Blocks /\ hi \in Blocks /\ lo <= b
      /\ \A c \in Blocks : \/ c < lo \/ hi <= c \/ c = b \/ c \in FreeBlocks
  <2>1. PICK nb : nb = b + hdr[b].size
    OBVIOUS
  <2>2. /\ lo \in Blocks /\ hi \in Blocks /\ lo <= b
        /\ MergePrev(b) => lo \in FreeBlocks
        /\ MergeNext(b) => nb \in FreeBlocks
    BY <1>0, <1>2, <1>3, <1>4, <2>1, FreeSpan
  <2>3. \A c \in Blocks : \/ c < lo \/ hi <= c \/ c = b
                          \/ (MergePrev(b) /\ c = lo) \/ (MergeNext(b) /\ c = nb)
    BY <1>0, <1>2, <1>3, <1>4, <2>1, FreeSpan
  <2> QED
    BY <2>2, <2>3
<1>8. \A c \in Blocks : c \in 0..Top
  BY <1>0 DEF Shape, HdrType
<1>9. live' = live \ {l} /\ freed' = freed \cup {b} /\ smashed' = smashed /\ lost' = lost
      /\ b \notin smashed
  BY <1>1 DEF Free
<1>10. Top' = Top /\ HeadSize' = HeadSize
  BY DEF Top, HeadSize
<1>11. /\ Blocks' = {c \in Blocks : c <= lo \/ hi <= c}
       /\ \A c \in Blocks' : /\ hdr'[c].used <=> (hdr[c].used /\ c # lo)
                             /\ c # lo => hdr'[c].size = hdr[c].size
  BY <1>6 DEF Released, Blocks
<1>b. b # lo => b \notin Blocks'
  <2>1. PICK nb : nb = b + hdr[b].size
    OBVIOUS
  <2>2. b < nb /\ nb <= hi /\ nb \in Blocks
    BY <1>0, <1>2, <1>3, <1>4, <2>1, FreeSpan
  <2>3. b # lo => ~(b <= lo) /\ ~(hi <= b)
    BY <1>2, <1>7, <1>8, <2>2
  <2> QED
    BY <1>11, <2>3
(* A used block other than the one freed is left alone. *)
<1>12. ASSUME NEW c \in Blocks, hdr[c].used, c # b
       PROVE  c \in Blocks' /\ hdr'[c].used /\ hdr'[c].size = hdr[c].size
  <2>1. c \notin FreeBlocks
    BY <1>12 DEF FreeBlocks
  <2>2. c < lo \/ hi <= c
    BY <1>7, <1>12, <2>1
  <2>3. lo # c
    <3>1. lo = b \/ lo \in FreeBlocks
      <4>1. MergePrev(b) => lo \in FreeBlocks
        BY <1>0, <1>2, <1>3, <1>4, FreeSpan
      <4>2. ~MergePrev(b) => lo = b
        BY <1>3 DEF FreeLo
      <4> QED
        BY <4>1, <4>2
    <3> QED
      BY <1>12, <2>1, <3>1
  <2>4. c \in Int /\ lo \in Int /\ hi \in Int
    BY <1>7, <1>8
  <2>5. c \in Blocks'
    BY <1>11, <2>2, <2>4
  <2> QED
    BY <1>11, <1>12, <2>3, <2>5
<1>13. \A k \in live' : /\ k \in live /\ k.blk \in Blocks /\ hdr[k.blk].used /\ k.blk # b
                        /\ k \in [ptr : Nat, size : Nat, blk : Blocks]
  <2>1. \A k, m \in live : k # m => k.blk # m.blk
    BY DEF HeapInv, AreasDisjoint
  <2>2. \A k \in live : k \in [ptr : Nat, size : Nat, blk : Blocks]
    BY DEF HeapInv, LiveType
  <2> QED
    BY <1>1, <1>9, <2>1, <2>2, LiveBlock
<1>14. \A k \in live' : k.blk \in Blocks' /\ hdr'[k.blk].used /\ hdr'[k.blk].size = hdr[k.blk].size
  BY <1>12, <1>13
<1>15. LiveType'
  BY <1>13, <1>14 DEF LiveType
<1>16. AreasDisjoint'
  <2>1. \A k \in live' : k.ptr >= k.blk + HeadSize /\ k.ptr + k.size <= k.blk + hdr[k.blk].size
    BY <1>13 DEF HeapInv, AreasDisjoint
  <2>2. \A k, m \in live' : k # m => k.blk # m.blk
    BY <1>13 DEF HeapInv, AreasDisjoint
  <2> QED
    BY <1>10, <1>14, <2>1, <2>2 DEF AreasDisjoint
<1>17. Accounted'
  <2>1. ASSUME NEW c \in Blocks' \ {Top}, hdr'[c].used
        PROVE  c \in lost \/ \E k \in live' : k.blk = c
    <3>1. c \in Blocks /\ hdr[c].used /\ c # lo
      BY <1>11, <2>1
    <3>2. c # b
      BY <1>b, <2>1, <3>1
    <3>3. c \in lost \/ \E k \in live : k.blk = c
      BY <2>1, <3>1 DEF HeapInv, Accounted
    <3> QED
      BY <1>1, <1>9, <3>2, <3>3
  <2> QED
    BY <1>9, <1>10, <2>1 DEF Accounted
<1>18. SmashedUsed'
  BY <1>9, <1>12 DEF HeapInv, SmashedUsed
<1>19. DoubleFreeSeen'
  <2>1. ASSUME NEW c \in freed', c \in Blocks' PROVE ~hdr'[c].used
    <3>1. CASE c = b
      BY <1>11, <1>b, <2>1, <3>1
    <3>2. CASE c # b
      BY <1>9, <1>11, <2>1, <3>2 DEF HeapInv, DoubleFreeSeen
    <3> QED
      BY <3>1, <3>2
  <2> QED
    BY <2>1 DEF DoubleFreeSeen
<1>20. HistoryType'
  BY <1>2, <1>8, <1>9, <1>10 DEF HeapInv, HistoryType
<1> QED
  BY <1>5, <1>15, <1>16, <1>17, <1>18, <1>19, <1>20 DEF HeapInv

(* Every step keeps the invariant. *)
LEMMA HeapStep ==
    ASSUME HeapInv, [Next]_vars
    PROVE  HeapInv'
<1>c. Top' = Top /\ HeadSize' = HeadSize /\ Idx' = Idx
  BY DEF Top, HeadSize, Idx, LastIdx
(* Steps that leave the headers and the lists alone. *)
<1>1. ASSUME UNCHANGED <<hdr, lists>>
      PROVE  Shape' /\ LinkedOnce(lists)' /\ Listed' /\ Blocks' = Blocks /\ FreeBlocks' = FreeBlocks
  <2>1. Blocks' = Blocks /\ FreeBlocks' = FreeBlocks
    BY <1>1 DEF Blocks, FreeBlocks
  <2>2. Shape'
    BY <1>1, <1>c, <2>1
       DEF HeapInv, Shape, HdrType, Ends, Chunks, Tiling, Preceded, BoundaryTags, Merged
  <2>3. LinkedOnce(lists)' /\ Listed'
    BY <1>1, <1>c, <2>1 DEF HeapInv, FreeLists, LinkedOnce, Listed
  <2> QED
    BY <2>1, <2>2, <2>3
<1>2. ASSUME NEW size \in Sizes, NEW align \in Aligns, AllocFails(size, align) PROVE HeapInv'
  <2>1. UNCHANGED <<hdr, lists, smashed, live, freed, lost>>
    BY <1>2 DEF AllocFails
  <2>2. PICK n : n = AllocSize(size, align)
    OBVIOUS
  <2>3. Acceptable(size, n) /\ bitmap' = Searched(n)
    BY <1>2, <2>2 DEF AllocFails
  <2>4. n \in Nat /\ 0 < n /\ n < 2^LastIdx
    BY <2>2, <2>3, AllocSizeFacts
  <2>5. Searched(n) \subseteq bitmap /\ \A i \in Idx : lists[i] # <<>> => i \in Searched(n)
    BY <2>4, SearchFacts DEF HeapInv
  <2>6. BitsSet'
    BY <1>c, <2>1, <2>3, <2>5 DEF HeapInv, FreeLists, BitsSet
  <2>7. Shape' /\ FreeLists' /\ Blocks' = Blocks
    BY <1>1, <2>1, <2>6 DEF FreeLists
  <2>8. /\ LiveType' /\ AreasDisjoint' /\ Accounted'
        /\ SmashedUsed' /\ DoubleFreeSeen' /\ HistoryType'
    BY <1>c, <2>1, <2>7
       DEF HeapInv, LiveType, AreasDisjoint, Accounted, SmashedUsed, DoubleFreeSeen, HistoryType
  <2> QED
    BY <2>7, <2>8 DEF HeapInv
<1>3. ASSUME NEW l \in live, Use(l) PROVE HeapInv'
  <2>1. UNCHANGED <<hdr, lists, bitmap, live, freed, lost>> /\ smashed' = smashed \cup {l.blk}
    BY <1>3 DEF Use
  <2>2. Shape' /\ FreeLists' /\ Blocks' = Blocks
    BY <1>1, <1>c, <2>1 DEF HeapInv, FreeLists, BitsSet
  <2>3. LiveType' /\ AreasDisjoint' /\ Accounted' /\ DoubleFreeSeen' /\ HistoryType'
    BY <1>c, <2>1, <2>2
       DEF HeapInv, LiveType, AreasDisjoint, Accounted, DoubleFreeSeen, HistoryType
  <2>4. SmashedUsed'
    BY <2>1, <2>2, LiveBlock DEF HeapInv, SmashedUsed
  <2> QED
    BY <2>2, <2>3, <2>4 DEF HeapInv
<1>4. ASSUME NEW l \in live, FreeRefused(l) PROVE HeapInv'
  <2>1. /\ UNCHANGED <<hdr, lists, bitmap, smashed, freed>>
        /\ live' = live \ {l} /\ lost' = lost \cup {l.blk}
    BY <1>4 DEF FreeRefused
  <2>2. Shape' /\ FreeLists' /\ Blocks' = Blocks
    BY <1>1, <1>c, <2>1 DEF HeapInv, FreeLists, BitsSet
  <2>3. LiveType' /\ AreasDisjoint' /\ SmashedUsed' /\ DoubleFreeSeen'
    BY <1>c, <2>1, <2>2 DEF HeapInv, LiveType, AreasDisjoint, SmashedUsed, DoubleFreeSeen
  <2>4. Accounted'
    BY <1>c, <2>1, <2>2 DEF HeapInv, Accounted
  <2>5. l.blk \in 0..Top
    BY LiveBlock DEF HeapInv, Shape, HdrType
  <2>6. HistoryType'
    BY <1>c, <2>1, <2>5 DEF HeapInv, HistoryType
  <2> QED
    BY <2>2, <2>3, <2>4, <2>6 DEF HeapInv
<1>5. ASSUME UNCHANGED vars PROVE HeapInv'
  <2>1. UNCHANGED <<hdr, lists, bitmap, smashed, live, freed, lost>>
    BY <1>5 DEF vars
  <2>2. Shape' /\ FreeLists' /\ Blocks' = Blocks
    BY <1>1, <1>c, <2>1 DEF HeapInv, FreeLists, BitsSet
  <2>3. /\ LiveType' /\ AreasDisjoint' /\ Accounted'
        /\ SmashedUsed' /\ DoubleFreeSeen' /\ HistoryType'
    BY <1>c, <2>1, <2>2
       DEF HeapInv, LiveType, AreasDisjoint, Accounted, SmashedUsed, DoubleFreeSeen, HistoryType
  <2> QED
    BY <2>2, <2>3 DEF HeapInv
<1> QED
  BY <1>2, <1>3, <1>4, <1>5, AllocKeeps, FreeStep DEF Next

(* The inductive invariant holds in every reachable state. *)
THEOREM Invariance == Spec => []HeapInv
BY HeapInit, HeapStep, PTL DEF Spec

-----------------------------------------------------------------------------
(* What it implies: the properties of BmHeap.                               *)

(* Every variable keeps the type the code gives it; in particular no size   *)
(* ever computed leaves the classes the list heads exist for.               *)
THEOREM TypeCorrect == Spec => []TypeOK
<1>1. HeapInv => TypeOK
  <2> SUFFICES ASSUME HeapInv PROVE TypeOK
    OBVIOUS
  <2>1. HdrType /\ bitmap \subseteq Idx
    BY DEF HeapInv, Shape, FreeLists, BitsSet
  <2>2. lists \in [Idx -> Seq(Blocks)]
    <3>1. lists \in [Idx -> Seq(Nat)]
      BY DEF HeapInv, FreeLists, LinkedOnce
    <3>2. ASSUME NEW i \in Idx PROVE lists[i] \in Seq(Blocks)
      <4>1. lists[i] \in Seq(Nat) /\ DOMAIN lists[i] = 1..Len(lists[i])
        BY <3>1
      <4>2. \A k \in 1..Len(lists[i]) : lists[i][k] \in Blocks
        BY <4>1 DEF HeapInv, FreeLists, Listed, FreeBlocks, Range
      <4> QED
        BY <4>1, <4>2
    <3> QED
      BY <3>1, <3>2
  <2>3. /\ smashed \subseteq Blocks /\ freed \subseteq 0..Top /\ lost \subseteq 0..Top
        /\ \A l \in live : l.blk \in Blocks
    BY DEF HeapInv, SmashedUsed, HistoryType, LiveType
  <2> QED
    BY <2>1, <2>2, <2>3 DEF TypeOK, HdrType
<1> QED
  BY <1>1, Invariance, PTL

(* The headers tile the region through every split and merge. *)
THEOREM TilingCorrect == Spec => []Tiling
<1>1. HeapInv => Tiling
  BY DEF HeapInv, Shape
<1> QED
  BY <1>1, Invariance, PTL

(* prev_size is the size of the block in front exactly when that is free,   *)
(* so that bm_memory_free_fsc finds a header where it looks for one.        *)
THEOREM TagsCorrect == Spec => []BoundaryTags
<1>1. HeapInv => BoundaryTags
  BY DEF HeapInv, Shape
<1> QED
  BY <1>1, Invariance, PTL

(* No two neighbours are free, and a heap with nothing in use is one block  *)
(* again, whatever was allocated and freed before.                          *)
THEOREM CoalescedCorrect == Spec => []Coalesced
<1>1. HeapInv => Coalesced
  <2> SUFFICES ASSUME HeapInv PROVE Coalesced
    OBVIOUS
  <2>1. Shape
    BY DEF HeapInv
  <2>2. ASSUME live = {}, lost = {} PROVE Blocks = {0, Top}
    <3>1. \A b \in Blocks \ {Top} : ~hdr[b].used
      BY <2>2 DEF HeapInv, Accounted
    <3>2. 0 \in Blocks /\ Top \in Blocks /\ 0 # Top
      BY <2>1, Bounds DEF Shape, Ends
    <3>3. 0 \in FreeBlocks
      BY <3>1, <3>2 DEF FreeBlocks
    <3>4. 0 + hdr[0].size \in Blocks /\ hdr[0 + hdr[0].size].used
      BY <2>1, <3>3, FreeFacts
    <3>5. 0 + hdr[0].size = Top
      BY <3>1, <3>4
    <3>6. \A c \in Blocks : c <= 0 \/ Top <= c
      BY <2>1, <3>2, <3>5, BlockFacts
    <3>7. \A c \in Blocks : c \in 0..Top /\ Top \in Nat
      BY <2>1, BlockFacts
    <3> QED
      BY <3>2, <3>6, <3>7
  <2>3. Merged
    BY <2>1 DEF Shape
  <2> QED
    BY <2>2, <2>3 DEF Coalesced, Merged
<1> QED
  BY <1>1, Invariance, PTL

(* Every free block is linked once, in the list of its size, and no list    *)
(* links a used block.                                                      *)
THEOREM ListsCorrect == Spec => []ListsMatch
<1>1. HeapInv => ListsMatch
  <2> SUFFICES ASSUME HeapInv PROVE ListsMatch
    OBVIOUS
  <2>1. Shape /\ \A i \in Idx : Range(lists[i]) = {b \in FreeBlocks : SizeIdx(hdr[b].size) = i}
    BY DEF HeapInv, FreeLists, Listed
  <2>2. \A b \in FreeBlocks : SizeIdx(hdr[b].size) \in Idx
    BY <2>1, FreeSize
  <2>3. \A i \in Idx : IsInjective(lists[i])
    BY DEF HeapInv, FreeLists, LinkedOnce
  <2> QED
    BY <2>1, <2>2, <2>3 DEF ListsMatch
<1> QED
  BY <1>1, Invariance, PTL

(* bm_memory_search_fsc finds a block whenever one is large enough, and the *)
(* block it takes unseen from a higher class is large enough.               *)
THEOREM SearchCorrect == Spec => []SearchComplete
<1>1. HeapInv => SearchComplete
  <2> SUFFICES ASSUME HeapInv, NEW size \in Sizes, NEW align \in Aligns,
                      NEW n, n = AllocSize(size, align), Acceptable(size, n)
               PROVE  IF \E b \in FreeBlocks : hdr[b].size >= n
                      THEN Fits(n) # {} /\ Found(n) \in FreeBlocks /\ hdr[Found(n)].size >= n
                      ELSE Fits(n) = {}
    BY DEF SearchComplete
  <2>1. n \in Nat /\ 0 < n /\ n < 2^LastIdx
    BY AllocSizeFacts
  <2>2. /\ Fits(n) # {} => Found(n) \in FreeBlocks /\ hdr[Found(n)].size >= n
        /\ (\E b \in FreeBlocks : hdr[b].size >= n) => Fits(n) # {}
    BY <2>1, SearchFacts DEF HeapInv
  <2> QED
    BY <2>2
<1> QED
  BY <1>1, Invariance, PTL

(* What callers hold lies behind a header inside a used block of its own:   *)
(* no two allocations and no header share a byte, also at an alloc_size     *)
(* that would wrap.                                                         *)
THEOREM AreasCorrect == Spec => []AreasDisjoint
<1>1. HeapInv => AreasDisjoint
  BY DEF HeapInv
<1> QED
  BY <1>1, Invariance, PTL

(* A second free of memory not given out again meets no used header. *)
THEOREM DoubleFreeCorrect == Spec => []DoubleFreeSeen
<1>1. HeapInv => DoubleFreeSeen
  BY DEF HeapInv
<1> QED
  BY <1>1, Invariance, PTL

=============================================================================
