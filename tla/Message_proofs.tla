---------------------------- MODULE Message_proofs ----------------------------
(***************************************************************************)
(* Proofs about Message, for any types of any sizes, any width up to 32    *)
(* bits and any number of values.  What NextOfTwoSize computes is proved   *)
(* by induction over the naturals, in the form "every non-empty set of     *)
(* naturals has a least element".                                          *)
(***************************************************************************)
EXTENDS Message, WellFoundedInduction, TLAPS

Less == {p \in Nat \X Nat : p[1] < p[2]}

LEMMA LeastElement ==
  ASSUME NEW T, T \subseteq Nat, T # {}
  PROVE  \E x \in T : \A y \in T : x <= y
<1>1. OpToRel(<, Nat) = Less
  BY Zenon DEF OpToRel, Less
<1>2. IsWellFoundedOn(Less, Nat)
  BY <1>1, NatLessThanWellFounded, Zenon
<1>3. PICK x \in T : \A y \in T : <<y, x>> \notin Less
  BY <1>2, WFMin, Zenon
<1>4. ASSUME NEW y \in T PROVE x <= y
  <2>1. x \in Nat /\ y \in Nat /\ <<y, x>> \in Nat \X Nat
    OBVIOUS
  <2>2. ~(y < x)
    BY <1>3, <2>1 DEF Less
  <2> QED
    BY <2>1, <2>2
<1> QED
  BY <1>4

-----------------------------------------------------------------------------
(* The powers of two.                                                      *)

\* The first n + 1 powers of two.
Powers(n) ==
    {h \in [0 .. n -> Nat] : h[0] = 1 /\ \A i \in 1 .. n : h[i] = 2 * h[i - 1]}

LEMMA PowersExist ==
  ASSUME NEW n \in Nat
  PROVE  Powers(n) # {}
<1> DEFINE T == {m \in Nat : Powers(m) = {}}
<1> SUFFICES ASSUME T # {} PROVE FALSE
  OBVIOUS
<1>1. PICK m \in T : \A k \in T : m <= k
  BY LeastElement
<1>2. CASE m = 0
  <2>1. [i \in 0 .. 0 |-> 1] \in Powers(0)
    BY DEF Powers
  <2> QED
    BY <1>2, <2>1
<1>3. CASE m # 0
  <2>1. m - 1 \in Nat /\ m - 1 \notin T
    BY <1>1, <1>3
  <2>2. PICK h \in Powers(m - 1) : TRUE
    BY <2>1
  <2> DEFINE g == [i \in 0 .. m |-> IF i = m THEN 2 * h[m - 1] ELSE h[i]]
  <2>3. h \in [0 .. m - 1 -> Nat] /\ h[0] = 1
        /\ \A i \in 1 .. m - 1 : h[i] = 2 * h[i - 1]
    BY <2>2 DEF Powers
  <2>4. g \in [0 .. m -> Nat]
    BY <2>1, <2>3
  <2>5. g[0] = 1
    BY <1>3, <2>1, <2>3
  <2>6. ASSUME NEW i \in 1 .. m PROVE g[i] = 2 * g[i - 1]
    BY <2>1, <2>3
  <2>7. g \in Powers(m)
    BY <2>4, <2>5, <2>6 DEF Powers
  <2> QED
    BY <2>7
<1> QED
  BY <1>2, <1>3

LEMMA PowersUnique ==
  ASSUME NEW m \in Nat, NEW n \in Nat, m <= n, NEW g \in Powers(m), NEW h \in Powers(n)
  PROVE  g[m] = h[m]
<1> DEFINE T == {i \in 0 .. m : g[i] # h[i]}
<1> SUFFICES ASSUME T # {} PROVE FALSE
  OBVIOUS
<1>1. T \subseteq Nat
  OBVIOUS
<1>2. PICK i \in T : \A j \in T : i <= j
  BY <1>1, LeastElement
<1>3. i # 0
  BY DEF Powers
<1>4. i - 1 \in 0 .. m /\ i - 1 \notin T
  BY <1>2, <1>3
<1> QED
  BY <1>3, <1>4 DEF Powers

LEMMA Pow2Facts ==
  /\ Pow2 \in [Nat -> Nat]
  /\ Pow2[0] = 1
  /\ \A n \in Nat : Pow2[n + 1] = 2 * Pow2[n]
<1> DEFINE tab(n) == CHOOSE h : h \in Powers(n)
           f == [n \in Nat |-> tab(n)[n]]
<1>1. \A n \in Nat : tab(n) \in Powers(n)
  BY PowersExist, Zenon
<1> HIDE DEF tab
<1>2. \A n \in Nat : tab(n)[n] \in Nat
  BY <1>1 DEF Powers
<1>3. tab(0)[0] = 1
  BY <1>1 DEF Powers
<1>4. ASSUME NEW n \in Nat PROVE tab(n + 1)[n + 1] = 2 * tab(n)[n]
  <2>1. tab(n + 1) \in Powers(n + 1) /\ tab(n) \in Powers(n)
    BY <1>1
  <2>2. tab(n)[n] = tab(n + 1)[n]
    BY <2>1, PowersUnique
  <2>3. tab(n + 1)[n + 1] = 2 * tab(n + 1)[n]
    BY <2>1 DEF Powers
  <2> QED
    BY <2>2, <2>3
<1>5. f = [n \in Nat |-> IF n = 0 THEN 1 ELSE 2 * f[n - 1]]
  <2>1. ASSUME NEW n \in Nat PROVE f[n] = IF n = 0 THEN 1 ELSE 2 * f[n - 1]
    BY <1>3, <1>4
  <2> QED
    BY <2>1
<1> HIDE DEF f
<1>6. Pow2 = [n \in Nat |-> IF n = 0 THEN 1 ELSE 2 * Pow2[n - 1]]
  BY <1>5, Zenon DEF Pow2
<1>7. Pow2[0] = 1 /\ \A n \in Nat : Pow2[n + 1] = 2 * Pow2[n]
  BY <1>6
<1>8. \A n \in Nat : Pow2[n] \in Nat
  <2> DEFINE T == {n \in Nat : Pow2[n] \notin Nat}
  <2> SUFFICES ASSUME T # {} PROVE FALSE
    OBVIOUS
  <2>1. PICK n \in T : \A m \in T : n <= m
    BY LeastElement
  <2>2. n # 0
    BY <1>7
  <2>3. n - 1 \in Nat /\ n - 1 \notin T
    BY <2>1, <2>2
  <2>4. Pow2[(n - 1) + 1] = 2 * Pow2[n - 1]
    BY <1>7, <2>3
  <2> QED
    BY <2>3, <2>4
<1>9. Pow2 \in [Nat -> Nat]
  BY <1>6, <1>8
<1> QED
  BY <1>7, <1>9

\* They grow, and faster than their exponents.
LEMMA Pow2Grows ==
  ASSUME NEW m \in Nat, NEW n \in Nat, m <= n
  PROVE  /\ 1 <= Pow2[m] /\ m < Pow2[m]
         /\ Pow2[m] <= Pow2[n]
         /\ m < n => Pow2[m] < Pow2[n]
<1> USE Pow2Facts
<1>1. ASSUME NEW k \in Nat PROVE 1 <= Pow2[k] /\ k < Pow2[k]
  <2> DEFINE T == {i \in Nat : ~(1 <= Pow2[i] /\ i < Pow2[i])}
  <2> SUFFICES ASSUME T # {} PROVE FALSE
    OBVIOUS
  <2>1. PICK i \in T : \A j \in T : i <= j
    BY LeastElement
  <2>2. i # 0
    OBVIOUS
  <2>3. i - 1 \in Nat /\ i - 1 \notin T
    BY <2>1, <2>2
  <2>4. Pow2[(i - 1) + 1] = 2 * Pow2[i - 1]
    BY <2>3
  <2> QED
    BY <2>3, <2>4
<1>2. ~(m < n) => m = n
  OBVIOUS
<1>3. m < n => Pow2[m] < Pow2[n]
  <2> DEFINE T == {i \in Nat : m < i /\ ~(Pow2[m] < Pow2[i])}
  <2> SUFFICES ASSUME T # {} PROVE FALSE
    OBVIOUS
  <2>1. PICK i \in T : \A j \in T : i <= j
    BY LeastElement
  <2>2. i - 1 \in Nat /\ i - 1 \notin T /\ m <= i - 1
    BY <2>1
  <2>3. Pow2[(i - 1) + 1] = 2 * Pow2[i - 1] /\ 1 <= Pow2[i - 1]
    BY <1>1, <2>2
  <2>4. Pow2[m] \in Nat /\ Pow2[i - 1] \in Nat
    BY <2>2
  <2>5. CASE m = i - 1
    BY <2>3, <2>4, <2>5
  <2>6. CASE m < i - 1
    <3>1. Pow2[m] < Pow2[i - 1]
      BY <2>2, <2>6
    <3> QED
      BY <2>3, <2>4, <3>1
  <2> QED
    BY <2>2, <2>5, <2>6
<1> QED
  BY <1>1, <1>2, <1>3

\* Every number has a number of bits.
LEMMA BitLength ==
  ASSUME NEW y \in Nat
  PROVE  \E k \in Nat : y < Pow2[k] /\ (k = 0 \/ Pow2[k - 1] <= y)
<1> DEFINE T == {k \in Nat : y < Pow2[k]}
<1>1. y \in T
  BY Pow2Grows
<1>2. PICK k \in T : \A j \in T : k <= j
  BY <1>1, LeastElement
<1>3. k # 0 => k - 1 \in Nat /\ k - 1 \notin T
  BY <1>2
<1>4. k # 0 => Pow2[k - 1] <= y
  BY <1>3, Pow2Facts
<1> QED
  BY <1>4

-----------------------------------------------------------------------------
(* NextOfTwoSize.                                                          *)

LEMMA WidthRange == Width \in Nat /\ 1 <= Width /\ Width <= 32
  BY MessageAssumption

\* The bits of a number of k bits: the k-th is set and none above it.
LEMMA LeadingBit ==
  ASSUME NEW y \in Nat, NEW k \in 0 .. Width, y < Pow2[k], k = 0 \/ Pow2[k - 1] <= y
  PROVE  /\ Bits(y) \subseteq 0 .. k - 1
         /\ k # 0 => k - 1 \in Bits(y)
<1> USE WidthRange
<1>1. ASSUME NEW i \in 0 .. Width - 1, k <= i PROVE i \notin Bits(y)
  <2>0. i \in Nat /\ k \in Nat
    OBVIOUS
  <2>1. Pow2[k] <= Pow2[i] /\ Pow2[i] \in Nat /\ Pow2[k] \in Nat
    BY <1>1, <2>0, Pow2Grows, Pow2Facts
  <2>2. y \div Pow2[i] = 0
    BY <2>1
  <2> QED
    BY <2>2 DEF Bits
<1>2. Bits(y) \subseteq 0 .. k - 1
  <2> SUFFICES ASSUME NEW i \in Bits(y) PROVE i \in 0 .. k - 1
    OBVIOUS
  <2>1. i \in 0 .. Width - 1
    BY DEF Bits
  <2> QED
    BY <1>1, <2>1
<1>3. ASSUME k # 0 PROVE k - 1 \in Bits(y)
  <2>1. k - 1 \in Nat /\ Pow2[k - 1] \in Nat
    BY <1>3, Pow2Facts
  <2>2. Pow2[(k - 1) + 1] = 2 * Pow2[k - 1] /\ 1 <= Pow2[k - 1]
    BY <2>1, Pow2Facts, Pow2Grows
  <2>3. y < 2 * Pow2[k - 1] /\ Pow2[k - 1] <= y
    BY <1>3, <2>1, <2>2
  <2>4. y \div Pow2[k - 1] = 1
    BY <2>1, <2>2, <2>3
  <2>5. k - 1 \in 0 .. Width - 1
    BY <1>3
  <2> QED
    BY <2>4, <2>5 DEF Bits
<1> QED
  BY <1>2, <1>3

\* The top d bits of k bits are set, and none above them.
Top(B, k, d) == B \subseteq 0 .. k - 1 /\ \A i \in 0 .. k - 1 : k <= i + d => i \in B

LEMMA ShiftOrDoubles ==
  ASSUME NEW B, NEW k \in 0 .. Width, NEW d \in Nat, Top(B, k, d)
  PROVE  Top(ShiftOr(B, d), k, 2 * d)
<1> USE WidthRange
<1>1. ShiftOr(B, d) \subseteq 0 .. k - 1
  <2> SUFFICES ASSUME NEW i \in ShiftOr(B, d) PROVE i \in 0 .. k - 1
    OBVIOUS
  <2>1. i \in B \/ (i \in 0 .. Width - 1 /\ i + d \in B)
    BY DEF ShiftOr
  <2>2. CASE i \in B
    BY <2>2 DEF Top
  <2>3. CASE i \in 0 .. Width - 1 /\ i + d \in B
    <3>1. i \in Int /\ 0 <= i /\ i + d \in 0 .. k - 1
      BY <2>3 DEF Top
    <3> QED
      BY <3>1
  <2> QED
    BY <2>1, <2>2, <2>3
<1>2. ASSUME NEW i \in 0 .. k - 1, k <= i + 2 * d PROVE i \in ShiftOr(B, d)
  <2>1. CASE k <= i + d
    BY <2>1 DEF Top, ShiftOr
  <2>2. CASE i + d < k
    <3>1. i + d \in 0 .. k - 1 /\ k <= (i + d) + d
      BY <1>2, <2>2
    <3>2. i + d \in B /\ i \in 0 .. Width - 1
      BY <3>1 DEF Top
    <3> QED
      BY <3>2 DEF ShiftOr
  <2> QED
    BY <2>1, <2>2
<1> QED
  BY <1>1, <1>2 DEF Top

LEMMA SmearedFills ==
  ASSUME NEW y \in Nat, NEW k \in 0 .. Width, y < Pow2[k], k = 0 \/ Pow2[k - 1] <= y
  PROVE  Smeared(y) = 0 .. k - 1
<1>1. Top(Bits(y), k, 1)
  BY LeadingBit, WidthRange DEF Top
<1> DEFINE B1 == ShiftOr(Bits(y), 1)
           B2 == ShiftOr(B1, 2)
           B4 == ShiftOr(B2, 4)
           B8 == ShiftOr(B4, 8)
           B16 == ShiftOr(B8, 16)
<1>2. Smeared(y) = B16
  BY DEF Smeared
<1> HIDE DEF B1, B2, B4, B8, B16
<1>3. Top(B1, k, 2 * 1)
  BY <1>1, ShiftOrDoubles DEF B1
<1>4. Top(B2, k, 2 * 2)
  BY <1>3, ShiftOrDoubles DEF B2
<1>5. Top(B4, k, 2 * 4)
  BY <1>4, ShiftOrDoubles DEF B4
<1>6. Top(B8, k, 2 * 8)
  BY <1>5, ShiftOrDoubles DEF B8
<1>7. Top(B16, k, 2 * 16)
  BY <1>6, ShiftOrDoubles DEF B16
<1>8. B16 \subseteq 0 .. k - 1
  BY <1>7 DEF Top
<1>9. ASSUME NEW i \in 0 .. k - 1 PROVE i \in B16
  BY <1>7, WidthRange DEF Top
<1> QED
  BY <1>2, <1>8, <1>9
\* The sum that ValueOf adds up when the bits below the k-th are set.
LEMMA ValueOfOnes ==
  ASSUME NEW k \in 0 .. Width
  PROVE  ValueOf(0 .. k - 1) = Pow2[k] - 1
<1> USE WidthRange
<1> DEFINE B == 0 .. k - 1
           Adds(s) == s = [n \in 0 .. Width |->
                             IF n = 0 THEN 0
                             ELSE s[n - 1] + (IF n - 1 \in B THEN Pow2[n - 1] ELSE 0)]
           ones == [n \in 0 .. Width |-> IF n <= k THEN Pow2[n] - 1 ELSE Pow2[k] - 1]
<1>1. \A n \in 0 .. Width : Pow2[n] \in Nat /\ (n # 0 => Pow2[n] = 2 * Pow2[n - 1])
  <2> TAKE n \in 0 .. Width
  <2>1. Pow2[n] \in Nat
    BY Pow2Facts
  <2>2. ASSUME n # 0 PROVE Pow2[n] = 2 * Pow2[n - 1]
    <3>1. n - 1 \in Nat /\ n = (n - 1) + 1
      BY <2>2
    <3> QED
      BY <3>1, Pow2Facts
  <2> QED
    BY <2>1, <2>2
<1>2. Adds(ones)
  <2>1. ASSUME NEW n \in 0 .. Width
        PROVE  ones[n] = IF n = 0 THEN 0
                         ELSE ones[n - 1] + (IF n - 1 \in B THEN Pow2[n - 1] ELSE 0)
    <3>1. CASE n = 0
      BY <3>1, Pow2Facts
    <3>2. CASE n # 0 /\ n <= k
      <4>1. ones[n - 1] = Pow2[n - 1] - 1 /\ n - 1 \in B
        BY <3>2
      <4>2. Pow2[n] = 2 * Pow2[n - 1] /\ Pow2[n - 1] \in Nat
        BY <1>1, <3>2
      <4> QED
        BY <3>2, <4>1, <4>2
    <3>3. CASE k < n
      <4>1. ones[n - 1] = Pow2[k] - 1 /\ n - 1 \notin B /\ n # 0
        BY <3>3
      <4>2. Pow2[k] \in Nat
        BY <1>1
      <4> QED
        BY <3>3, <4>1, <4>2
    <3> QED
      BY <3>1, <3>2, <3>3
  <2> QED
    BY <2>1
<1>3. ASSUME NEW s, Adds(s) PROVE s[Width] = ones[Width]
  <2> DEFINE T == {n \in 0 .. Width : s[n] # ones[n]}
  <2> SUFFICES ASSUME T # {} PROVE FALSE
    OBVIOUS
  <2>1. T \subseteq Nat
    OBVIOUS
  <2>2. PICK n \in T : \A m \in T : n <= m
    BY <2>1, LeastElement
  <2> HIDE DEF ones
  <2>3. n # 0 => n - 1 \in 0 .. Width /\ n - 1 \notin T
    BY <2>2
  <2> QED
    BY <1>2, <1>3, <2>3
<1> DEFINE sum == CHOOSE s : Adds(s)
<1> HIDE DEF Adds, ones
<1>4. Adds(sum)
  BY <1>2, Zenon
<1>5. ValueOf(B) = sum[Width]
  BY Zenon DEF ValueOf, Adds
<1>6. ones[Width] = Pow2[k] - 1
  BY DEF ones
<1> QED
  BY <1>3, <1>4, <1>5, <1>6

LEMMA WordFacts ==
  /\ Width - 1 \in Nat /\ Word \in Nat /\ Pow2[Width - 1] \in Nat
  /\ Word = 2 * Pow2[Width - 1] /\ 1 <= Pow2[Width - 1]
<1>1. Width - 1 \in Nat /\ Width = (Width - 1) + 1
  BY WidthRange
<1>2. Pow2[Width - 1] \in Nat /\ 1 <= Pow2[Width - 1]
  BY <1>1, Pow2Facts, Pow2Grows
<1>3. Pow2[(Width - 1) + 1] = 2 * Pow2[Width - 1]
  BY <1>1, Pow2Facts
<1> QED
  BY <1>1, <1>2, <1>3 DEF Word

\* What NextOfTwoSize returns, up to the largest size that PrepareEncode asks for.
LEMMA NextOfTwoSizeValue ==
  ASSUME NEW x \in 1 .. Word
  PROVE  /\ x <= Pow2[Width - 1] =>
               \E k \in 0 .. Width - 1 :
                  /\ NextOfTwoSize(x) = Pow2[k] /\ x <= Pow2[k]
                  /\ \A j \in Nat : x <= Pow2[j] => Pow2[k] <= Pow2[j]
         /\ x > Pow2[Width - 1] => NextOfTwoSize(x) \in {0, 1}
<1> USE WidthRange
<1>1. /\ Width - 1 \in Nat /\ Word \in Nat /\ Pow2[Width - 1] \in Nat
      /\ Word = 2 * Pow2[Width - 1] /\ 1 <= Pow2[Width - 1]
  BY WordFacts
<1>2. CASE x = Word
  <2>1. x % Word = 0
    BY <1>1, <1>2
  <2> QED
    BY <1>1, <1>2, <2>1 DEF NextOfTwoSize
<1>3. CASE x < Word
  <2>1. x % Word = x /\ x # 0 /\ x \in Nat
    BY <1>1, <1>3
  <2>2. x - 1 \in Nat
    BY <2>1
  <2>3. PICK k \in Nat : x - 1 < Pow2[k] /\ (k = 0 \/ Pow2[k - 1] <= x - 1)
    BY <2>2, BitLength
  <2>4. Pow2[k] \in Nat /\ x <= Pow2[k]
    BY <2>1, <2>3, Pow2Facts
  <2>5. ASSUME NEW j \in Nat, x <= Pow2[j] PROVE k <= j /\ Pow2[k] <= Pow2[j]
    <3>1. CASE k <= j
      BY <3>1, Pow2Grows
    <3>2. CASE j < k
      <4>1. j <= k - 1 /\ k - 1 \in Nat /\ Pow2[k - 1] <= x - 1
        BY <2>3, <3>2
      <4>2. Pow2[j] <= Pow2[k - 1] /\ Pow2[j] \in Nat /\ Pow2[k - 1] \in Nat
        BY <4>1, Pow2Grows, Pow2Facts
      <4> QED
        BY <2>1, <2>5, <4>1, <4>2
    <3> QED
      BY <3>1, <3>2
  <2>6. k \in 0 .. Width
    BY <1>1, <1>3, <2>5 DEF Word
  <2>7. Smeared(x - 1) = 0 .. k - 1
    BY <2>2, <2>3, <2>6, SmearedFills
  <2>8. ValueOf(Smeared(x - 1)) = Pow2[k] - 1
    BY <2>6, <2>7, ValueOfOnes
  <2>9. NextOfTwoSize(x) = Pow2[k] % Word
    BY <2>1, <2>4, <2>8 DEF NextOfTwoSize
  <2>10. CASE x <= Pow2[Width - 1]
    <3>1. k \in 0 .. Width - 1
      BY <1>1, <2>5, <2>10
    <3>2. Pow2[k] <= Pow2[Width - 1]
      BY <1>1, <3>1, Pow2Grows
    <3>3. Pow2[k] % Word = Pow2[k]
      BY <1>1, <2>4, <3>2
    <3> QED
      BY <2>4, <2>5, <2>9, <2>10, <3>1, <3>3, <1>1
  <2>11. CASE x > Pow2[Width - 1]
    <3>1. k = Width
      <4>1. CASE k <= Width - 1
        <5>1. Pow2[k] <= Pow2[Width - 1]
          BY <1>1, <4>1, Pow2Grows
        <5> QED
          BY <1>1, <2>1, <2>4, <2>11, <5>1
      <4> QED
        BY <2>6, <4>1
    <3>2. Pow2[k] % Word = 0
      BY <1>1, <3>1 DEF Word
    <3> QED
      BY <2>9, <2>11, <3>2, <2>1, <1>1
  <2> QED
    BY <2>10, <2>11, <2>1, <1>1
<1> QED
  BY <1>1, <1>2, <1>3
-----------------------------------------------------------------------------
(* The buffer.                                                             *)

\* The buffer is empty or as long as some power of two of Width bits.
GrownInv == buffer = <<>> \/ \E k \in 0 .. Width - 1 : Len(buffer) = Pow2[k]

LEMMA BytesType ==
  ASSUME NEW v \in Values
  PROVE  /\ Size[v] \in Nat /\ 1 <= Size[v] /\ Size[v] <= Pow2[Width - 1]
         /\ Bytes(v) \in Seq(AllBytes) /\ Len(Bytes(v)) = Size[v]
         /\ \A j \in 1 .. Size[v] : Bytes(v)[j] = <<v, j>>
<1>1. Size[v] \in Nat /\ 1 <= Size[v] /\ Size[v] <= Pow2[Width - 1]
  BY MessageAssumption, WordFacts
<1>2. \A j \in 1 .. Size[v] : <<v, j>> \in AllBytes
  BY DEF AllBytes
<1>3. Bytes(v) \in [1 .. Size[v] -> AllBytes]
  BY <1>2 DEF Bytes
<1> QED
  BY <1>1, <1>3 DEF Bytes

LEMMA GrownLength ==
  ASSUME TypeOK, GrownInv
  PROVE  /\ Len(buffer) \in Nat /\ Len(buffer) <= Pow2[Width - 1]
         /\ buffer # <<>> => 1 <= Len(buffer)
<1>1. Len(buffer) \in Nat
  BY DEF TypeOK
<1>2. CASE buffer = <<>>
  BY <1>2, WordFacts
<1>3. ASSUME NEW k \in 0 .. Width - 1, Len(buffer) = Pow2[k]
      PROVE  Len(buffer) <= Pow2[Width - 1] /\ 1 <= Len(buffer)
  BY <1>3, WordFacts, WidthRange, Pow2Grows
<1> QED
  BY <1>1, <1>2, <1>3 DEF GrownInv

\* Resize is asked for more than there is, and gets it unless the width ends.
LEMMA Grows ==
  ASSUME TypeOK, GrownInv, NEW v \in Values
  PROVE  /\ Need(v) \in Nat /\ Len(buffer) < Need(v)
         /\ Need(v) <= Pow2[Width - 1] => ~ResizeShrinks(v)
         /\ ~ResizeShrinks(v) =>
               \E k \in 0 .. Width - 1 : /\ NextOfTwoSize(Need(v)) = Pow2[k]
                                         /\ Need(v) <= Pow2[k]
<1>1. /\ Need(v) \in 1 .. Word /\ Need(v) \in Nat /\ Len(buffer) < Need(v)
      /\ buffer = <<>> => Need(v) <= Pow2[Width - 1]
  BY GrownLength, BytesType, WordFacts DEF Need
<1>2. Need(v) <= Pow2[Width - 1] =>
         \E k \in 0 .. Width - 1 : /\ NextOfTwoSize(Need(v)) = Pow2[k]
                                   /\ Need(v) <= Pow2[k]
  BY <1>1, NextOfTwoSizeValue
<1>3. Need(v) > Pow2[Width - 1] => NextOfTwoSize(Need(v)) \in {0, 1}
  BY <1>1, NextOfTwoSizeValue
<1>4. Need(v) > Pow2[Width - 1] => ResizeShrinks(v)
  BY <1>1, <1>3, GrownLength, WordFacts DEF ResizeShrinks
<1>5. Need(v) <= Pow2[Width - 1] => ~ResizeShrinks(v)
  <2> SUFFICES ASSUME Need(v) <= Pow2[Width - 1] PROVE ~ResizeShrinks(v)
    OBVIOUS
  <2>1. PICK k \in 0 .. Width - 1 : /\ NextOfTwoSize(Need(v)) = Pow2[k]
                                    /\ Need(v) <= Pow2[k]
    BY <1>2
  <2>2. Pow2[k] \in Nat
    BY Pow2Facts
  <2> QED
    BY <1>1, <2>1, <2>2, GrownLength DEF ResizeShrinks
<1> QED
  BY <1>1, <1>2, <1>4, <1>5, WordFacts

\* What Encode does to the buffer: its length is a power of two with room for the
\* value, what was encoded before stays, and the value follows it.
LEMMA EncodeBuffer ==
  ASSUME TypeOK, GrownInv, NEW v \in Values, Encode(v)
  PROVE  /\ \E k \in 0 .. Width - 1 : Len(buffer') = Pow2[k]
         /\ buffer' \in Seq(AllBytes)
         /\ Len(buffer) <= Len(buffer') /\ data_length + Size[v] <= Len(buffer')
         /\ \A i \in 1 .. data_length : buffer'[i] = buffer[i]
         /\ \A j \in 1 .. Size[v] : buffer'[data_length + j] = <<v, j>>
<1>1. PICK k \in 0 .. Width - 1 : /\ NextOfTwoSize(Need(v)) = Pow2[k]
                                  /\ Need(v) <= Pow2[k]
  BY Grows DEF Encode
<1> DEFINE n == Pow2[k]
           room == Resized(n)
<1>2. n \in Nat /\ Need(v) \in Nat /\ Len(buffer) \in Nat /\ data_length \in Nat
  BY Pow2Facts, Grows DEF TypeOK
<1>3. Reserved(Need(v)) = room
  BY <1>1, <1>2, Grows DEF Reserved
<1>4. /\ room \in [1 .. n -> AllBytes] /\ Len(room) = n
      /\ \A i \in 1 .. n : i <= Len(buffer) => room[i] = buffer[i]
  <2>1. Junk \in AllBytes
    BY DEF AllBytes
  <2>2. \A i \in 1 .. Len(buffer) : buffer[i] \in AllBytes
    BY DEF TypeOK
  <2>3. room \in [1 .. n -> AllBytes]
    BY <1>2, <2>1, <2>2 DEF Resized
  <2> QED
    BY <1>2, <2>3 DEF Resized
<1>5. /\ data_length <= Len(buffer) /\ Size[v] \in Nat /\ 1 <= Size[v]
      /\ Len(buffer) + Size[v] <= n
  BY <1>1, <1>2, BytesType DEF TypeOK, Need
<1> HIDE DEF n, room
<1>6. buffer' = [i \in 1 .. n |->
                    IF data_length < i /\ i <= data_length + Size[v]
                    THEN Bytes(v)[i - data_length] ELSE room[i]]
  BY <1>3, <1>4, BytesType DEF Encode, Written
<1>7. buffer' \in [1 .. n -> AllBytes]
  <2>1. ASSUME NEW i \in 1 .. n, data_length < i, i <= data_length + Size[v]
        PROVE  Bytes(v)[i - data_length] \in AllBytes
    <3>1. i - data_length \in 1 .. Size[v]
      BY <1>2, <1>5, <2>1
    <3> QED
      BY <3>1, BytesType
  <2> QED
    BY <1>4, <1>6, <2>1
<1>8. Len(buffer') = n /\ buffer' \in Seq(AllBytes)
  BY <1>2, <1>7
<1>9. ASSUME NEW i \in 1 .. data_length PROVE buffer'[i] = buffer[i]
  <2>1. i \in 1 .. n /\ i <= Len(buffer) /\ ~(data_length < i)
    BY <1>2, <1>5
  <2> QED
    BY <1>4, <1>6, <2>1
<1>10. ASSUME NEW j \in 1 .. Size[v] PROVE buffer'[data_length + j] = <<v, j>>
  <2>1. /\ data_length + j \in 1 .. n /\ data_length < data_length + j
        /\ data_length + j <= data_length + Size[v]
        /\ (data_length + j) - data_length = j
    BY <1>2, <1>5
  <2>2. buffer'[data_length + j] = Bytes(v)[(data_length + j) - data_length]
    BY <1>6, <2>1
  <2> QED
    BY <2>1, <2>2, BytesType
<1> QED
  BY <1>2, <1>5, <1>8, <1>9, <1>10 DEF n
-----------------------------------------------------------------------------
(* The values.                                                             *)

\* p tells where each encoded value ends, and each is there, byte by byte.
EncodedEnds(p) ==
    /\ p \in [0 .. Len(encoded) -> Nat]
    /\ p[0] = 0 /\ p[Len(encoded)] = data_length
    /\ \A i \in 0 .. Len(encoded) : p[i] <= data_length
    /\ \A i \in 1 .. Len(encoded) :
          /\ p[i] = p[i - 1] + Size[encoded[i]]
          /\ \A j \in 1 .. Size[encoded[i]] : buffer[p[i - 1] + j] = <<encoded[i], j>>

\* q tells where each read since the last ResetRead ended.
DecodedEnds(q) ==
    /\ q \in [0 .. Len(decoded) -> Nat]
    /\ q[0] = 0 /\ q[Len(decoded)] = size_read
    /\ \A i \in 0 .. Len(decoded) : q[i] <= size_read
    /\ \A i \in 1 .. Len(decoded) : q[i] = q[i - 1] + Len(decoded[i].bytes)

\* The first i reads were of the types that were encoded.
Matching(i) ==
    /\ i <= Len(encoded) /\ i <= Len(decoded)
    /\ \A j \in 1 .. i : Len(decoded[j].bytes) = Size[encoded[j]]

\* Reader and writer agree on where the values end as long as their types match.
Aligned(p, q) == \A i \in 0 .. Len(decoded) : Matching(i) => q[i] = p[i]

\* A reader that has had every value reads nothing that was written.
BeyondInv ==
    Matching(Len(encoded)) =>
        \A i \in 1 .. Len(decoded) : Len(encoded) < i => ~decoded[i].written

ReadInv ==
    /\ \E p, q : EncodedEnds(p) /\ DecodedEnds(q) /\ Aligned(p, q)
    /\ BeyondInv

MessageInv ==
    TypeOK /\ GrownInv /\ AbortsOnlyAtWidth /\ ReadInv /\ DecodesWhatWasEncoded

LEMMA EncodeTypes ==
  ASSUME TypeOK, GrownInv, NEW v \in Values, Encode(v)
  PROVE  TypeOK' /\ GrownInv'
<1>1. data_length' = data_length + Size[v] /\ UNCHANGED <<aborted, size_read, decoded>>
      /\ encoded' = Append(encoded, v)
  BY DEF Encode
<1>2. data_length' \in 0 .. Len(buffer') /\ size_read' \in 0 .. Len(buffer')
  <2>1. /\ buffer' \in Seq(AllBytes) /\ Len(buffer) <= Len(buffer')
        /\ data_length + Size[v] <= Len(buffer')
    BY EncodeBuffer
  <2>2. Size[v] \in Nat
    BY BytesType
  <2>3. /\ buffer \in Seq(AllBytes)
        /\ data_length \in 0 .. Len(buffer) /\ size_read \in 0 .. Len(buffer)
    BY DEF TypeOK
  <2> QED
    BY <1>1, <2>1, <2>2, <2>3
<1>3. encoded' \in Seq(Values)
  BY <1>1 DEF TypeOK
<1> QED
  BY <1>1, <1>2, <1>3, EncodeBuffer DEF TypeOK, GrownInv

LEMMA EncodeReads ==
  ASSUME MessageInv, NEW v \in Values, Encode(v)
  PROVE  ReadInv' /\ DecodesWhatWasEncoded'
<1>0. PICK n, m : n = Len(encoded) /\ m = Len(decoded)
  OBVIOUS
<1>1. PICK p, q : EncodedEnds(p) /\ DecodedEnds(q) /\ Aligned(p, q)
  BY DEF MessageInv, ReadInv
<1>2. /\ encoded \in Seq(Values) /\ n \in Nat /\ m \in Nat /\ data_length \in Nat
      /\ Size[v] \in Nat /\ 1 <= Size[v]
  BY <1>0, BytesType DEF MessageInv, TypeOK
<1>3. /\ encoded' = Append(encoded, v) /\ UNCHANGED <<size_read, decoded>>
      /\ data_length' = data_length + Size[v] /\ Len(decoded') = m
  BY <1>0 DEF Encode
<1>4. /\ encoded' \in Seq(Values) /\ Len(encoded') = n + 1 /\ encoded'[n + 1] = v
      /\ \A i \in 1 .. n : encoded'[i] = encoded[i]
  BY <1>0, <1>2, <1>3
<1>5. /\ \A i \in 1 .. data_length : buffer'[i] = buffer[i]
      /\ \A j \in 1 .. Size[v] : buffer'[data_length + j] = <<v, j>>
  BY EncodeBuffer DEF MessageInv
<1>6. /\ p \in [0 .. n -> Nat] /\ p[0] = 0 /\ p[n] = data_length
      /\ \A i \in 0 .. n : p[i] <= data_length
      /\ \A i \in 1 .. n :
            /\ p[i] = p[i - 1] + Size[encoded[i]]
            /\ \A j \in 1 .. Size[encoded[i]] :
                  buffer[p[i - 1] + j] = <<encoded[i], j>>
  BY <1>0, <1>1 DEF EncodedEnds
<1> PICK r : r = [i \in 0 .. n + 1 |-> IF i = n + 1 THEN data_length + Size[v] ELSE p[i]]
  OBVIOUS
<1>7. /\ r \in [0 .. n + 1 -> Nat] /\ r[n + 1] = data_length + Size[v]
      /\ \A i \in 0 .. n : r[i] = p[i]
  BY <1>2, <1>6
<1>8. EncodedEnds(r)'
  <2>1. r[0] = 0 /\ r[n + 1] = data_length'
    BY <1>2, <1>3, <1>6, <1>7
  <2>3. ASSUME NEW i \in 0 .. n + 1 PROVE r[i] <= data_length'
    <3>1. CASE i = n + 1
      BY <1>2, <1>3, <1>7, <3>1
    <3>2. CASE i \in 0 .. n
      BY <1>2, <1>3, <1>6, <1>7, <3>2
    <3> QED
      BY <1>2, <3>1, <3>2
  <2>2. ASSUME NEW i \in 1 .. n + 1
        PROVE  /\ r[i] = r[i - 1] + Size[encoded'[i]]
               /\ \A j \in 1 .. Size[encoded'[i]] :
                     buffer'[r[i - 1] + j] = <<encoded'[i], j>>
    <3>1. CASE i = n + 1
      <4>1. r[i - 1] = data_length /\ encoded'[i] = v
        BY <1>2, <1>4, <1>6, <1>7, <3>1
      <4> QED
        BY <1>5, <1>7, <3>1, <4>1
    <3>2. CASE i # n + 1
      <4>1. i \in 1 .. n /\ i - 1 \in 0 .. n
        BY <1>2, <3>2
      <4>2. r[i] = p[i] /\ r[i - 1] = p[i - 1] /\ encoded'[i] = encoded[i]
        BY <1>4, <1>7, <4>1
      <4>3. ASSUME NEW j \in 1 .. Size[encoded[i]]
            PROVE  buffer'[p[i - 1] + j] = <<encoded[i], j>>
        <5>1. encoded[i] \in Values
          BY <1>0, <1>2, <4>1
        <5>2. /\ Size[encoded[i]] \in Nat /\ p[i - 1] \in Nat /\ p[i] \in Nat
              /\ p[i] <= data_length /\ p[i] = p[i - 1] + Size[encoded[i]]
          <6>1. i \in 0 .. n
            BY <1>2, <4>1
          <6> QED
            BY <1>6, <4>1, <5>1, <6>1, BytesType
        <5>3. p[i - 1] + j \in 1 .. data_length
          BY <1>2, <5>2
        <5> QED
          BY <1>5, <1>6, <4>1, <5>3
      <4> QED
        BY <1>6, <4>1, <4>2, <4>3
    <3> QED
      BY <3>1, <3>2
  <2> QED
    BY <1>4, <1>7, <2>1, <2>2, <2>3 DEF EncodedEnds
<1>9. DecodedEnds(q)'
  BY <1>1, <1>3 DEF DecodedEnds
<1>10. ASSUME NEW i \in 0 .. m, Matching(i)'
       PROVE  /\ i <= n => Matching(i)
              /\ i = n + 1 => Matching(n) /\ Len(decoded[i].bytes) = Size[v]
  <2>1. /\ i <= n + 1 /\ i <= m
        /\ \A j \in 1 .. i : Len(decoded[j].bytes) = Size[encoded'[j]]
    BY <1>3, <1>4, <1>10 DEF Matching
  <2>2. i <= n => Matching(i)
    BY <1>0, <1>2, <1>4, <2>1 DEF Matching
  <2>3. i = n + 1 => Matching(n)
    BY <1>0, <1>2, <1>4, <2>1 DEF Matching
  <2> QED
    BY <1>2, <1>4, <2>1, <2>2, <2>3
<1>11. Aligned(r, q)'
  <2> SUFFICES ASSUME NEW i \in 0 .. m, Matching(i)' PROVE q[i] = r[i]
    BY <1>3 DEF Aligned
  <2>1. i <= n + 1
    BY <1>4 DEF Matching
  <2>2. CASE i <= n
    BY <1>0, <1>1, <1>2, <1>7, <1>10, <2>2 DEF Aligned
  <2>3. CASE i = n + 1
    <3>1. n \in 0 .. m /\ q[n] = p[n] /\ i \in 1 .. m
      BY <1>0, <1>1, <1>2, <1>10, <2>3 DEF Aligned
    <3>2. q[i] = q[i - 1] + Len(decoded[i].bytes)
      BY <1>0, <1>1, <3>1 DEF DecodedEnds
    <3> QED
      BY <1>2, <1>6, <1>7, <1>10, <2>3, <3>1, <3>2
  <2> QED
    BY <1>2, <2>1, <2>2, <2>3
<1>12. BeyondInv'
  <2> SUFFICES ASSUME Matching(n + 1)', NEW i \in 1 .. m, n + 1 < i
               PROVE  ~decoded[i].written
    BY <1>3, <1>4 DEF BeyondInv
  <2>1. n + 1 \in 0 .. m
    BY <1>2, <1>3 DEF Matching
  <2>2. Matching(n)
    BY <1>10, <2>1
  <2> QED
    BY <1>0, <1>2, <2>2 DEF MessageInv, ReadInv, BeyondInv
<1>13. DecodesWhatWasEncoded'
  <2> SUFFICES ASSUME NEW i \in 1 .. m, decoded[i].written, i <= n + 1,
                      \A j \in 1 .. i : Len(decoded[j].bytes) = Size[encoded'[j]]
               PROVE  decoded[i].bytes = Bytes(encoded'[i])
    BY <1>3, <1>4 DEF DecodesWhatWasEncoded, Bytes
  <2>1. Matching(i)' /\ i \in 0 .. m
    BY <1>2, <1>3, <1>4 DEF Matching
  <2>2. CASE i <= n
    <3>1. \A j \in 1 .. i : Len(decoded[j].bytes) = Size[encoded[j]]
      BY <1>10, <2>1, <2>2 DEF Matching
    <3>2. decoded[i].bytes = Bytes(encoded[i])
      BY <1>0, <2>2, <3>1 DEF MessageInv, DecodesWhatWasEncoded
    <3> QED
      BY <1>2, <1>4, <2>2, <3>2
  <2>3. CASE i = n + 1
    <3>1. Matching(n)
      BY <1>10, <2>1, <2>3
    <3> QED
      BY <1>0, <1>2, <2>3, <3>1 DEF MessageInv, ReadInv, BeyondInv
  <2> QED
    BY <1>2, <2>2, <2>3
<1> QED
  BY <1>8, <1>9, <1>11, <1>12, <1>13 DEF ReadInv

LEMMA EncodeKeeps ==
  ASSUME MessageInv, NEW v \in Values, Encode(v)
  PROVE  MessageInv'
<1>1. AbortsOnlyAtWidth'
  BY DEF Encode, AbortsOnlyAtWidth
<1> QED
  BY <1>1, EncodeTypes, EncodeReads DEF MessageInv

\* Steps that leave the buffer and the histories alone keep what was read.
LEMMA ReadsStay ==
  ASSUME MessageInv, UNCHANGED <<buffer, data_length, size_read, encoded, decoded>>
  PROVE  ReadInv' /\ DecodesWhatWasEncoded'
<1>1. PICK p, q : EncodedEnds(p) /\ DecodedEnds(q) /\ Aligned(p, q)
  BY DEF MessageInv, ReadInv
<1>2. EncodedEnds(p)'
  BY <1>1 DEF EncodedEnds
<1>3. DecodedEnds(q)'
  BY <1>1 DEF DecodedEnds
<1>4. Aligned(p, q)'
  BY <1>1 DEF Aligned, Matching
<1>5. BeyondInv'
  BY DEF MessageInv, ReadInv, BeyondInv, Matching
<1>6. DecodesWhatWasEncoded'
  BY DEF MessageInv, DecodesWhatWasEncoded, Bytes
<1> QED
  BY <1>2, <1>3, <1>4, <1>5, <1>6 DEF ReadInv

\* Resize refuses only a size beyond the last power of two.
LEMMA AbortKeeps ==
  ASSUME MessageInv, NEW v \in Values, EncodeAborts(v)
  PROVE  MessageInv'
<1>1. aborted' = TRUE /\ UNCHANGED <<buffer, data_length, size_read, encoded, decoded>>
      /\ ResizeShrinks(v)
  BY DEF EncodeAborts
<1>2. Need(v) \in Nat /\ ~(Need(v) <= Pow2[Width - 1])
  BY <1>1, Grows DEF MessageInv
<1>3. Word \div 2 = Pow2[Width - 1]
  <2>1. ASSUME NEW n \in Nat PROVE (2 * n) \div 2 = n
    OBVIOUS
  <2> QED
    BY <2>1, WordFacts
<1>4. Need(v) > Word \div 2
  BY <1>2, <1>3, WordFacts
<1>5. AbortsOnlyAtWidth'
  BY <1>1, <1>4 DEF AbortsOnlyAtWidth, Need
<1>6. TypeOK' /\ GrownInv'
  BY <1>1 DEF MessageInv, TypeOK, GrownInv
<1>7. ReadInv' /\ DecodesWhatWasEncoded'
  BY <1>1, ReadsStay
<1> QED
  BY <1>5, <1>6, <1>7 DEF MessageInv

LEMMA ReadType ==
  ASSUME TypeOK, NEW n \in Nat
  PROVE  /\ Read(n) \in [bytes : Seq(AllBytes), written : BOOLEAN]
         /\ Len(Read(n).bytes) = n
         /\ Read(n).written = (size_read + n <= data_length)
         /\ \A i \in 1 .. n : size_read + i <= Len(buffer) =>
               Read(n).bytes[i] = buffer[size_read + i]
<1> DEFINE b == [i \in 1 .. n |-> IF size_read + i <= Len(buffer)
                                  THEN buffer[size_read + i] ELSE Junk]
<1>1. Junk \in AllBytes
  BY DEF AllBytes
<1>2. ASSUME NEW i \in 1 .. n, size_read + i <= Len(buffer)
      PROVE  buffer[size_read + i] \in AllBytes
  <2>1. size_read + i \in 1 .. Len(buffer)
    BY <1>2 DEF TypeOK
  <2> QED
    BY <2>1 DEF TypeOK
<1>3. b \in [1 .. n -> AllBytes]
  BY <1>1, <1>2
<1>4. b \in Seq(AllBytes) /\ Len(b) = n
  BY <1>3
<1>5. Read(n).bytes = b /\ Read(n).written = (size_read + n <= data_length)
      /\ Read(n) = [bytes |-> b, written |-> size_read + n <= data_length]
  BY DEF Read
<1> QED
  BY <1>4, <1>5

LEMMA DecodeKeeps ==
  ASSUME MessageInv, NEW v \in Values, Decode(Size[v])
  PROVE  MessageInv'
<1>0. PICK n, m, s, d : n = Len(encoded) /\ m = Len(decoded) /\ s = Size[v]
                        /\ d = Read(s)
  OBVIOUS
<1>1. PICK p, q : EncodedEnds(p) /\ DecodedEnds(q) /\ Aligned(p, q)
  BY DEF MessageInv, ReadInv
<1>2. /\ n \in Nat /\ m \in Nat /\ s \in Nat /\ 1 <= s
      /\ size_read \in Nat /\ data_length \in Nat /\ data_length <= Len(buffer)
      /\ encoded \in Seq(Values) /\ Len(buffer) \in Nat
      /\ decoded \in Seq([bytes : Seq(AllBytes), written : BOOLEAN])
  BY <1>0, BytesType DEF MessageInv, TypeOK
<1>3. /\ decoded' = Append(decoded, d) /\ size_read' = size_read + s
      /\ size_read + s <= Len(buffer)
      /\ UNCHANGED <<buffer, aborted, data_length, encoded>>
  BY <1>0 DEF Decode
<1>4. /\ d \in [bytes : Seq(AllBytes), written : BOOLEAN] /\ Len(d.bytes) = s
      /\ d.written = (size_read + s <= data_length)
      /\ \A i \in 1 .. s : size_read + i <= Len(buffer) =>
            d.bytes[i] = buffer[size_read + i]
  BY <1>0, <1>2, ReadType DEF MessageInv
<1>5. /\ Len(decoded') = m + 1 /\ decoded'[m + 1] = d
      /\ \A i \in 1 .. m : decoded'[i] = decoded[i]
      /\ decoded' \in Seq([bytes : Seq(AllBytes), written : BOOLEAN])
  BY <1>0, <1>2, <1>3, <1>4
<1>6. TypeOK' /\ GrownInv' /\ AbortsOnlyAtWidth'
  <2>1. size_read' \in 0 .. Len(buffer')
    BY <1>2, <1>3
  <2>2. GrownInv' /\ AbortsOnlyAtWidth'
    BY <1>3 DEF MessageInv, GrownInv, AbortsOnlyAtWidth, Need
  <2> QED
    BY <1>3, <1>5, <2>1, <2>2 DEF MessageInv, TypeOK
<1>7. /\ p \in [0 .. n -> Nat] /\ p[0] = 0 /\ p[n] = data_length
      /\ \A i \in 0 .. n : p[i] <= data_length
      /\ \A i \in 1 .. n :
            /\ p[i] = p[i - 1] + Size[encoded[i]]
            /\ \A j \in 1 .. Size[encoded[i]] :
                  buffer[p[i - 1] + j] = <<encoded[i], j>>
  BY <1>0, <1>1 DEF EncodedEnds
<1>8. /\ q \in [0 .. m -> Nat] /\ q[0] = 0 /\ q[m] = size_read
      /\ \A i \in 0 .. m : q[i] <= size_read
      /\ \A i \in 1 .. m : q[i] = q[i - 1] + Len(decoded[i].bytes)
  BY <1>0, <1>1 DEF DecodedEnds
<1> PICK r : r = [i \in 0 .. m + 1 |-> IF i = m + 1 THEN size_read + s ELSE q[i]]
  OBVIOUS
<1>9. /\ r \in [0 .. m + 1 -> Nat] /\ r[m + 1] = size_read + s
      /\ \A i \in 0 .. m : r[i] = q[i]
  BY <1>2, <1>8
<1>10. EncodedEnds(p)'
  BY <1>1, <1>3 DEF EncodedEnds
<1>11. DecodedEnds(r)'
  <2>1. r[0] = 0 /\ r[m + 1] = size_read'
    BY <1>2, <1>3, <1>8, <1>9
  <2>2. ASSUME NEW i \in 0 .. m + 1 PROVE r[i] <= size_read'
    <3>1. CASE i = m + 1
      BY <1>2, <1>3, <1>9, <3>1
    <3>2. CASE i \in 0 .. m
      BY <1>2, <1>3, <1>8, <1>9, <3>2
    <3> QED
      BY <1>2, <3>1, <3>2
  <2>3. ASSUME NEW i \in 1 .. m + 1
        PROVE  r[i] = r[i - 1] + Len(decoded'[i].bytes)
    <3>1. CASE i = m + 1
      <4>1. r[i - 1] = size_read
        BY <1>2, <1>8, <1>9, <3>1
      <4> QED
        BY <1>4, <1>5, <1>9, <3>1, <4>1
    <3>2. CASE i # m + 1
      <4>1. i \in 1 .. m /\ i - 1 \in 0 .. m /\ i \in 0 .. m
        BY <1>2, <3>2
      <4> QED
        BY <1>5, <1>8, <1>9, <4>1
    <3> QED
      BY <3>1, <3>2
  <2> QED
    BY <1>5, <1>9, <2>1, <2>2, <2>3 DEF DecodedEnds
\* The reads before this one match as they did.
<1>12. ASSUME NEW i \in 0 .. m + 1, Matching(i)'
       PROVE  /\ i <= n
              /\ i <= m => Matching(i)
              /\ i = m + 1 => Matching(m) /\ s = Size[encoded[m + 1]]
  <2>1. /\ i <= n /\ i <= m + 1
        /\ \A j \in 1 .. i : Len(decoded'[j].bytes) = Size[encoded[j]]
    BY <1>0, <1>3, <1>5, <1>12 DEF Matching
  <2>2. i <= m => Matching(i)
    BY <1>0, <1>2, <1>5, <2>1 DEF Matching
  <2>3. i = m + 1 => Matching(m)
    BY <1>0, <1>2, <1>5, <2>1 DEF Matching
  <2>4. i = m + 1 => s = Size[encoded[m + 1]]
    BY <1>2, <1>4, <1>5, <2>1
  <2> QED
    BY <2>1, <2>2, <2>3, <2>4
\* A read of the next encoded value's type starts where that value does.
<1>13. ASSUME Matching(m + 1)'
       PROVE  /\ m + 1 \in 1 .. n /\ q[m] = p[m] /\ s = Size[encoded[m + 1]]
              /\ p[m + 1] = size_read + s
  <2>1. m + 1 <= n /\ Matching(m) /\ s = Size[encoded[m + 1]]
    BY <1>2, <1>12, <1>13
  <2>2. q[m] = p[m]
    BY <1>0, <1>1, <1>2, <2>1 DEF Aligned
  <2>3. m + 1 \in 1 .. n
    BY <1>2, <2>1
  <2>4. p[m + 1] = p[(m + 1) - 1] + Size[encoded[m + 1]]
    BY <1>7, <2>3
  <2> QED
    BY <1>2, <1>8, <2>1, <2>2, <2>3, <2>4
<1>14. Aligned(p, r)'
  <2> SUFFICES ASSUME NEW i \in 0 .. m + 1, Matching(i)' PROVE r[i] = p[i]
    BY <1>5 DEF Aligned
  <2>1. CASE i \in 0 .. m
    BY <1>0, <1>1, <1>2, <1>9, <1>12, <2>1 DEF Aligned
  <2>2. CASE i = m + 1
    BY <1>9, <1>13, <2>2
  <2> QED
    BY <1>2, <2>1, <2>2
<1>15. BeyondInv'
  <2> SUFFICES ASSUME Matching(n)', NEW i \in 1 .. m + 1, n < i
               PROVE  ~decoded'[i].written
    BY <1>0, <1>3, <1>5 DEF BeyondInv
  <2>1. n <= m /\ n \in 0 .. m + 1 /\ n \in 0 .. m
    BY <1>2
  <2>2. Matching(n)
    BY <1>12, <2>1
  <2>3. CASE i = m + 1
    <3>1. q[n] = p[n]
      BY <1>0, <1>1, <2>1, <2>2 DEF Aligned
    <3>2. data_length <= size_read
      BY <1>2, <1>7, <1>8, <2>1, <3>1
    <3>3. ~(size_read + s <= data_length)
      BY <1>2, <3>2
    <3> QED
      BY <1>4, <1>5, <2>3, <3>3
  <2>4. CASE i \in 1 .. m
    BY <1>0, <1>5, <2>2, <2>4 DEF MessageInv, ReadInv, BeyondInv
  <2> QED
    BY <1>2, <2>3, <2>4
<1>16. DecodesWhatWasEncoded'
  <2>0. Len(decoded') = m + 1 /\ Len(encoded') = n /\ encoded' = encoded
    BY <1>0, <1>3, <1>5
  <2> SUFFICES ASSUME NEW i \in 1 .. m + 1, decoded'[i].written, i <= n,
                      \A j \in 1 .. i : Len(decoded'[j].bytes) = Size[encoded[j]]
               PROVE  decoded'[i].bytes = Bytes(encoded[i])
    BY <2>0 DEF DecodesWhatWasEncoded, Bytes
  <2>1. CASE i \in 1 .. m
    <3>1. ASSUME NEW j \in 1 .. i PROVE Len(decoded[j].bytes) = Size[encoded[j]]
      <4>1. j \in 1 .. m
        BY <1>2, <2>1
      <4>2. decoded'[j] = decoded[j] /\ Len(decoded'[j].bytes) = Size[encoded[j]]
        BY <1>5, <4>1
      <4> QED
        BY <4>2
    <3> QED
      BY <1>0, <1>5, <2>1, <3>1 DEF MessageInv, DecodesWhatWasEncoded
  <2>2. CASE i = m + 1
    <3>1. Matching(m + 1)'
      BY <1>0, <1>2, <1>3, <1>5, <2>2 DEF Matching
    <3>2. /\ m + 1 \in 1 .. n /\ p[m] = size_read /\ s = Size[encoded[m + 1]]
      BY <1>8, <1>13, <3>1
    <3>3. encoded[m + 1] \in Values
      BY <1>0, <1>2, <3>2
    <3>4. ASSUME NEW j \in 1 .. s PROVE d.bytes[j] = <<encoded[m + 1], j>>
      <4>1. size_read + j <= Len(buffer)
        BY <1>2, <1>3
      <4>2. d.bytes[j] = buffer[size_read + j]
        BY <1>4, <4>1
      <4>3. (m + 1) - 1 = m
        BY <1>2
      <4>4. buffer[p[m] + j] = <<encoded[m + 1], j>>
        <5>1. \A l \in 1 .. Size[encoded[m + 1]] :
                 buffer[p[(m + 1) - 1] + l] = <<encoded[m + 1], l>>
          BY <1>7, <3>2
        <5> QED
          BY <3>2, <4>3, <5>1
      <4> QED
        BY <3>2, <4>2, <4>4
    <3>5. d.bytes \in [1 .. s -> AllBytes]
      BY <1>4
    <3>6. d.bytes = [j \in 1 .. s |-> <<encoded[m + 1], j>>]
      BY <3>4, <3>5
    <3> QED
      BY <1>5, <2>2, <3>2, <3>6 DEF Bytes
  <2> QED
    BY <1>2, <2>1, <2>2
<1> QED
  BY <1>6, <1>10, <1>11, <1>14, <1>15, <1>16 DEF MessageInv, ReadInv

LEMMA ResetKeeps ==
  ASSUME MessageInv, ResetRead
  PROVE  MessageInv'
<1>1. /\ size_read' = 0 /\ decoded' = <<>> /\ Len(decoded') = 0
      /\ UNCHANGED <<buffer, aborted, data_length, encoded>>
  BY DEF ResetRead
<1>2. TypeOK' /\ GrownInv' /\ AbortsOnlyAtWidth'
  <2>1. size_read' \in 0 .. Len(buffer')
    BY <1>1 DEF MessageInv, TypeOK
  <2>2. GrownInv' /\ AbortsOnlyAtWidth'
    BY <1>1 DEF MessageInv, GrownInv, AbortsOnlyAtWidth, Need
  <2> QED
    BY <1>1, <2>1, <2>2 DEF MessageInv, TypeOK
<1>3. PICK p, q : EncodedEnds(p) /\ DecodedEnds(q) /\ Aligned(p, q)
  BY DEF MessageInv, ReadInv
<1>4. PICK r : r = [i \in 0 .. 0 |-> 0]
  OBVIOUS
<1>5. r \in [0 .. 0 -> Nat] /\ r[0] = 0
  BY <1>4
<1>6. EncodedEnds(p)'
  <2>1. EncodedEnds(p) /\ UNCHANGED <<buffer, data_length, encoded>>
    BY <1>1, <1>3
  <2> QED
    BY <2>1 DEF EncodedEnds
<1>7. DecodedEnds(r)'
  BY <1>1, <1>5 DEF DecodedEnds
<1>8. Aligned(p, r)'
  BY <1>1, <1>5, <1>6 DEF Aligned, EncodedEnds
<1>9. BeyondInv' /\ DecodesWhatWasEncoded'
  BY <1>1 DEF BeyondInv, DecodesWhatWasEncoded
<1> QED
  BY <1>2, <1>6, <1>7, <1>8, <1>9 DEF MessageInv, ReadInv

LEMMA InitKeeps == Init => MessageInv
<1> SUFFICES ASSUME Init PROVE MessageInv
  OBVIOUS
<1>1. TypeOK
  <2>1. Len(buffer) = 0 /\ buffer \in Seq(AllBytes) /\ encoded \in Seq(Values)
    BY DEF Init
  <2>2. decoded \in Seq([bytes : Seq(AllBytes), written : BOOLEAN])
    BY DEF Init
  <2>3. data_length = 0 /\ size_read = 0 /\ aborted \in BOOLEAN
    BY Zenon DEF Init
  <2>4. data_length \in 0 .. Len(buffer) /\ size_read \in 0 .. Len(buffer)
    BY <2>1, <2>3
  <2> QED
    BY <2>1, <2>2, <2>3, <2>4 DEF TypeOK
<1>5. GrownInv /\ AbortsOnlyAtWidth
  BY DEF Init, GrownInv, AbortsOnlyAtWidth
<1>2. PICK r : r = [i \in 0 .. 0 |-> 0]
  OBVIOUS
<1>3. EncodedEnds(r) /\ DecodedEnds(r)
  BY <1>2 DEF Init, EncodedEnds, DecodedEnds
<1>4. Aligned(r, r) /\ BeyondInv /\ DecodesWhatWasEncoded
  BY DEF Init, Aligned, BeyondInv, DecodesWhatWasEncoded
<1> QED
  BY <1>1, <1>3, <1>4, <1>5 DEF MessageInv, ReadInv

LEMMA MessageStep == MessageInv /\ [Next]_vars => MessageInv'
<1> SUFFICES ASSUME MessageInv, [Next]_vars PROVE MessageInv'
  OBVIOUS
<1>1. ASSUME NEW v \in Values, Encode(v) PROVE MessageInv'
  BY <1>1, EncodeKeeps
<1>2. ASSUME NEW v \in Values, EncodeAborts(v) PROVE MessageInv'
  BY <1>2, AbortKeeps
<1>3. ASSUME NEW v \in Values, Decode(Size[v]) PROVE MessageInv'
  BY <1>3, DecodeKeeps
<1>4. CASE ResetRead
  BY <1>4, ResetKeeps
<1>5. CASE UNCHANGED vars
  <2>1. TypeOK' /\ GrownInv' /\ AbortsOnlyAtWidth'
    BY <1>5 DEF vars, MessageInv, TypeOK, GrownInv, AbortsOnlyAtWidth, Need
  <2>2. ReadInv' /\ DecodesWhatWasEncoded'
    BY <1>5, ReadsStay DEF vars
  <2> QED
    BY <2>1, <2>2 DEF MessageInv
<1> QED
  BY <1>1, <1>2, <1>3, <1>4, <1>5 DEF Next

LEMMA MessageInvAlways == Spec => []MessageInv
  BY InitKeeps, MessageStep, PTL DEF Spec

-----------------------------------------------------------------------------
(* The theorems.                                                           *)

\* The data and the read position stay inside the buffer, whatever Reserve made
\* of it, for values of any sizes (message.cpp:40-92).
THEOREM MessageTypeCorrect == Spec => []TypeOK
<1>1. MessageInv => TypeOK
  BY DEF MessageInv
<1> QED
  BY <1>1, MessageInvAlways, PTL

\* FF_DCHECK(size > buffer_length_) of Resize holds as long as what is reserved
\* has a power of two of Width bits above it (message.cpp:61).
THEOREM AbortsAtWidth == Spec => []AbortsOnlyAtWidth
<1>1. MessageInv => AbortsOnlyAtWidth
  BY DEF MessageInv
<1> QED
  BY <1>1, MessageInvAlways, PTL

\* Decode returns what Encode was given when the types come in the same order,
\* through every move of the buffer and every ResetRead (message.h:42-67).
THEOREM RoundTrip == Spec => []DecodesWhatWasEncoded
<1>1. MessageInv => DecodesWhatWasEncoded
  BY DEF MessageInv
<1> QED
  BY <1>1, MessageInvAlways, PTL

\* NextOfTwoSize, by smearing the bits of its argument, returns the least power
\* of two that is not smaller, for every width up to 32 (message.cpp:7-21).
THEOREM NextOfTwoIsLeast == Spec => []NextOfTwoSizeIsLeast
<1>1. MessageInv => NextOfTwoSizeIsLeast
  <2> SUFFICES ASSUME MessageInv, NEW x \in Len(buffer) .. Word \div 2
               PROVE  /\ \E k \in 0 .. Width - 1 : NextOfTwoSize(x) = Pow2[k]
                      /\ x <= NextOfTwoSize(x)
                      /\ \A k \in 0 .. Width - 1 :
                            x <= Pow2[k] => NextOfTwoSize(x) <= Pow2[k]
    BY DEF NextOfTwoSizeIsLeast
  <2>1. Word \div 2 = Pow2[Width - 1]
    <3>1. ASSUME NEW n \in Nat PROVE (2 * n) \div 2 = n
      OBVIOUS
    <3> QED
      BY <3>1, WordFacts
  <2>2. x \in Nat /\ x <= Pow2[Width - 1]
    BY <2>1, WordFacts DEF MessageInv, TypeOK
  <2>3. CASE x = 0
    <3>1. x % Word = 0
      BY <2>3, WordFacts
    <3>2. NextOfTwoSize(x) = 1 /\ Pow2[0] = 1
      BY <3>1, Pow2Facts DEF NextOfTwoSize
    <3>3. \A k \in 0 .. Width - 1 : 1 <= Pow2[k]
      BY Pow2Grows, WidthRange
    <3> QED
      BY <2>3, <3>2, <3>3, WidthRange
  <2>4. CASE x # 0
    <3>1. x \in 1 .. Word
      BY <2>2, <2>4, WordFacts
    <3> QED
      BY <2>2, <3>1, NextOfTwoSizeValue, WidthRange
  <2> QED
    BY <2>3, <2>4
<1> QED
  BY <1>1, MessageInvAlways, PTL
=============================================================================
