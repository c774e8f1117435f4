---------------------------- MODULE Sha256_proofs ----------------------------
(***************************************************************************)
(* Proofs about Sha256, for every block size that has room for the         *)
(* padding, every size of a byte, and messages of any length cut into      *)
(* chunks of any lengths.                                                  *)
(***************************************************************************)
EXTENDS Sha256, SequenceTheorems, TLAPS

-----------------------------------------------------------------------------
(* Arithmetic.                                                             *)

LEMMA BlockSizeType == BlockSize \in Nat /\ BlockSize >= 9
  BY Sha256Assumption

LEMMA ProductType ==
  ASSUME NEW a \in Nat, NEW b \in Nat
  PROVE  a * b \in Nat /\ b * a = a * b /\ (1 <= a => b <= a * b)
<1>1. a * b \in Nat /\ b * a = a * b
  OBVIOUS
<1>2. 1 <= a => b <= a * b
  OBVIOUS
<1> QED
  BY <1>1, <1>2

LEMMA Distributes ==
  ASSUME NEW a \in Int, NEW b \in Int, NEW d \in Int
  PROVE  (a + b) * d = a * d + b * d
  OBVIOUS

LEMMA DivMod ==
  ASSUME NEW n \in Nat, NEW d \in Nat, d >= 1
  PROVE  /\ n \div d \in Nat /\ n % d \in Nat /\ n % d < d
         /\ n = (n \div d) * d + (n % d)
  OBVIOUS

LEMMA DivOf ==
  ASSUME NEW k \in Nat, NEW r \in Nat, NEW d \in Nat, r < d
  PROVE  (k * d + r) \div d = k /\ (k * d + r) % d = r
  OBVIOUS

LEMMA SmallMod ==
  ASSUME NEW n \in Nat, NEW d \in Nat, n < d
  PROVE  n % d = n /\ n \div d = 0
  OBVIOUS

-----------------------------------------------------------------------------
(* The bytes of a number.                                                  *)

LEMMA PlaceUnfolds ==
  Place = [i \in 0 .. 7 |-> IF i = 0 THEN 1 ELSE ByteValues * Place[i - 1]]
<1>1. PICK b1, b2, b3, b4, b5, b6, b7 :
         /\ b1 = ByteValues * 1 /\ b2 = ByteValues * b1 /\ b3 = ByteValues * b2
         /\ b4 = ByteValues * b3 /\ b5 = ByteValues * b4 /\ b6 = ByteValues * b5
         /\ b7 = ByteValues * b6
  BY Zenon
<1> DEFINE f == [i \in 0 .. 7 |-> IF i = 0 THEN 1 ELSE IF i = 1 THEN b1
                   ELSE IF i = 2 THEN b2 ELSE IF i = 3 THEN b3
                   ELSE IF i = 4 THEN b4 ELSE IF i = 5 THEN b5
                   ELSE IF i = 6 THEN b6 ELSE b7]
<1>2. ASSUME NEW i \in 0 .. 7
      PROVE  f[i] = IF i = 0 THEN 1 ELSE ByteValues * f[i - 1]
  <2>1. /\ f[0] = 1 /\ f[1] = b1 /\ f[2] = b2 /\ f[3] = b3 /\ f[4] = b4
        /\ f[5] = b5 /\ f[6] = b6 /\ f[7] = b7
    OBVIOUS
  <2> HIDE DEF f
  <2>2. i \in {0, 1, 2, 3, 4, 5, 6, 7}
    OBVIOUS
  <2>3. 1 - 1 = 0 /\ 2 - 1 = 1 /\ 3 - 1 = 2 /\ 4 - 1 = 3 /\ 5 - 1 = 4
        /\ 6 - 1 = 5 /\ 7 - 1 = 6
    OBVIOUS
  <2>4. i = 0 \/ i = 1 \/ i = 2 \/ i = 3 \/ i = 4 \/ i = 5 \/ i = 6 \/ i = 7
    BY <2>2
  <2> QED
    BY <1>1, <2>1, <2>3, <2>4
<1>3. f = [i \in 0 .. 7 |-> IF i = 0 THEN 1 ELSE ByteValues * f[i - 1]]
  BY <1>2
<1> HIDE DEF f
<1> QED
  BY <1>3, Zenon DEF Place

LEMMA PlaceStep ==
  /\ Place[0] = 1
  /\ \A i \in 1 .. 7 : Place[i] = ByteValues * Place[i - 1]
<1>1. ASSUME NEW i \in 1 .. 7 PROVE Place[i] = ByteValues * Place[i - 1]
  <2>1. i \in 0 .. 7 /\ i # 0
    OBVIOUS
  <2> QED
    BY <2>1, PlaceUnfolds
<1> QED
  BY <1>1, PlaceUnfolds

\* The places are positive and do not shrink.
LEMMA PlaceGrows ==
  /\ \A i \in 0 .. 7 : Place[i] \in Nat /\ 1 <= Place[i]
  /\ \A i \in 4 .. 7 : Modulus <= Place[i]
<1>1. ASSUME NEW i \in 1 .. 7, Place[i - 1] \in Nat, 1 <= Place[i - 1]
      PROVE  Place[i] \in Nat /\ Place[i - 1] <= Place[i] /\ 1 <= Place[i]
  <2>1. Place[i] = ByteValues * Place[i - 1] /\ ByteValues \in Nat /\ 1 <= ByteValues
    BY PlaceStep, Sha256Assumption
  <2>2. ByteValues * Place[i - 1] \in Nat /\ Place[i - 1] <= ByteValues * Place[i - 1]
    BY <1>1, <2>1, ProductType
  <2> QED
    BY <1>1, <2>1, <2>2
<1>2. 1 - 1 = 0 /\ 2 - 1 = 1 /\ 3 - 1 = 2 /\ 4 - 1 = 3 /\ 5 - 1 = 4 /\ 6 - 1 = 5
      /\ 7 - 1 = 6
  OBVIOUS
<1>3. Place[0] \in Nat /\ 1 <= Place[0]
  BY PlaceStep
<1>4. Place[1] \in Nat /\ 1 <= Place[1]
  BY <1>1, <1>2, <1>3
<1>5. Place[2] \in Nat /\ 1 <= Place[2]
  BY <1>1, <1>2, <1>4
<1>6. Place[3] \in Nat /\ 1 <= Place[3]
  BY <1>1, <1>2, <1>5
<1>7. Place[4] \in Nat /\ 1 <= Place[4]
  BY <1>1, <1>2, <1>6
<1>8. Place[5] \in Nat /\ 1 <= Place[5] /\ Place[4] <= Place[5]
  BY <1>1, <1>2, <1>7
<1>9. Place[6] \in Nat /\ 1 <= Place[6] /\ Place[5] <= Place[6]
  BY <1>1, <1>2, <1>8
<1>10. Place[7] \in Nat /\ 1 <= Place[7] /\ Place[6] <= Place[7]
  BY <1>1, <1>2, <1>9
<1>11. ASSUME NEW i \in 0 .. 7 PROVE Place[i] \in Nat /\ 1 <= Place[i]
  <2>1. i \in {0, 1, 2, 3, 4, 5, 6, 7}
    OBVIOUS
  <2> QED
    BY <2>1, <1>3, <1>4, <1>5, <1>6, <1>7, <1>8, <1>9, <1>10
<1>12. ASSUME NEW i \in 4 .. 7 PROVE Modulus <= Place[i]
  <2>1. i \in {4, 5, 6, 7}
    OBVIOUS
  <2>2. Place[4] <= Place[4] /\ Place[4] <= Place[6] /\ Place[4] <= Place[7]
    BY <1>7, <1>8, <1>9, <1>10
  <2> QED
    BY <2>1, <2>2, <1>8 DEF Modulus
<1> QED
  BY <1>11, <1>12

LEMMA ModulusType == Modulus \in Nat /\ 1 <= Modulus
  BY PlaceGrows DEF Modulus

LEMMA UnsignedType ==
  ASSUME NEW n \in Nat
  PROVE  /\ Unsigned(n) \in Nat /\ Unsigned(n) \in 0 .. Modulus - 1
         /\ n < Modulus => Unsigned(n) = n
  BY ModulusType, DivMod, SmallMod DEF Unsigned

LEMMA ByteOfType ==
  ASSUME NEW n \in Nat, NEW i \in 0 .. 7
  PROVE  /\ ByteOf(n, i) \in 0 .. ByteValues - 1
         /\ n < Modulus /\ 4 <= i => ByteOf(n, i) = 0
<1>1. Place[i] \in Nat /\ 1 <= Place[i] /\ ByteValues \in Nat /\ 1 <= ByteValues
  BY PlaceGrows, Sha256Assumption
<1>2. PICK d \in Nat : d = n \div Place[i]
  BY <1>1, DivMod
<1>3. d % ByteValues \in Nat /\ d % ByteValues < ByteValues
  BY <1>1, DivMod
<1>4. ASSUME n < Modulus, 4 <= i PROVE ByteOf(n, i) = 0
  <2>1. i \in 4 .. 7
    BY <1>4
  <2>2. n < Place[i]
    BY <1>1, <1>4, <2>1, PlaceGrows, ModulusType
  <2>3. n \div Place[i] = 0
    BY <1>1, <2>2, SmallMod
  <2>4. 0 % ByteValues = 0
    BY <1>1, SmallMod
  <2> QED
    BY <2>3, <2>4 DEF ByteOf
<1> QED
  BY <1>1, <1>2, <1>3, <1>4 DEF ByteOf

-----------------------------------------------------------------------------
(* What memcpy and transform are given.                                    *)

\* m_block, and the blocks that transform compresses.
Buffer == [0 .. 2 * BlockSize - 1 -> Byte]
Block == [1 .. BlockSize -> Byte]

LEMMA StateTypes ==
  ASSUME TypeOK
  PROVE  /\ m_len \in Nat /\ m_len < BlockSize /\ length \in Nat /\ length <= MaxLength
         /\ m_tot_len \in Nat /\ m_block \in Buffer /\ m_h \in Seq(Block)
         /\ Len(m_h) \in Nat /\ MaxLength \in Nat /\ digest \in BOOLEAN
<1>1. m_h \in Seq(Block) /\ m_block \in Buffer
  BY Zenon DEF TypeOK, Block, Buffer
<1>2. Len(m_h) \in Nat
  BY <1>1
<1>3. digest \in BOOLEAN
  BY Zenon DEF TypeOK
<1> QED
  BY <1>1, <1>2, <1>3, BlockSizeType, ModulusType, Sha256Assumption DEF TypeOK

LEMMA ByteTypes ==
  /\ Stale \in Byte /\ Value(128) \in Byte
  /\ \A i \in 1 .. MaxLength : MessageByte(i) \in Byte
  /\ \A v \in 0 .. ByteValues - 1 : Value(v) \in Byte
  BY DEF Byte

\* memcpy inside the two blocks changes what it is told to and nothing else.
LEMMA CopiedType ==
  ASSUME TypeOK, NEW block \in Buffer,
         NEW at \in Nat, NEW skip \in Nat, NEW n \in Nat,
         at + n <= 2 * BlockSize, length + skip + n <= MaxLength
  PROVE  /\ Copied(block, at, skip, n) \in Buffer
         /\ \A i \in 0 .. 2 * BlockSize - 1 :
               /\ at <= i /\ i < at + n =>
                     Copied(block, at, skip, n)[i]
                        = MessageByte(length + skip + i - at + 1)
               /\ i < at \/ at + n <= i => Copied(block, at, skip, n)[i] = block[i]
<1> USE StateTypes, BlockSizeType
<1>1. 0 .. 2 * BlockSize - 1 \cup at .. at + n - 1 = 0 .. 2 * BlockSize - 1
  OBVIOUS
<1>2. DOMAIN block = 0 .. 2 * BlockSize - 1
  BY DEF Buffer
<1>3. Copied(block, at, skip, n) =
        [i \in 0 .. 2 * BlockSize - 1 |->
           IF i \in at .. at + n - 1 THEN MessageByte(length + skip + i - at + 1)
           ELSE block[i]]
  BY <1>1, <1>2, Zenon DEF Copied
<1>4. ASSUME NEW i \in 0 .. 2 * BlockSize - 1, i \in at .. at + n - 1
      PROVE  MessageByte(length + skip + i - at + 1) \in Byte
  <2>1. length + skip + i - at + 1 \in 1 .. MaxLength
    BY <1>4
  <2> QED
    BY <2>1, ByteTypes
<1>5. Copied(block, at, skip, n) \in [0 .. 2 * BlockSize - 1 -> Byte]
  BY <1>3, <1>4 DEF Buffer
<1> QED
  BY <1>3, <1>5 DEF Buffer

LEMMA BlocksType ==
  ASSUME NEW block \in Buffer, NEW n \in 1 .. 2
  PROVE  /\ Blocks(block, n) \in Seq(Block) /\ Len(Blocks(block, n)) = n
         /\ \A k \in 1 .. n, j \in 1 .. BlockSize :
               Blocks(block, n)[k][j] = block[(k - 1) * BlockSize + j - 1]
<1> USE BlockSizeType
<1>1. ASSUME NEW k \in 1 .. n, NEW j \in 1 .. BlockSize
      PROVE  block[(k - 1) * BlockSize + j - 1] \in Byte
  <2>1. (k - 1) * BlockSize = 0 \/ (k - 1) * BlockSize = BlockSize
    <3>1. k = 1 \/ k = 2
      OBVIOUS
    <3> QED
      BY <3>1
  <2>2. (k - 1) * BlockSize + j - 1 \in 0 .. 2 * BlockSize - 1
    BY <2>1
  <2> QED
    BY <2>2 DEF Buffer
<1>2. ASSUME NEW k \in 1 .. n
      PROVE  [j \in 1 .. BlockSize |-> block[(k - 1) * BlockSize + j - 1]] \in Block
  BY <1>1 DEF Block
<1>3. Blocks(block, n) \in [1 .. n -> Block]
  BY <1>2 DEF Blocks
<1>4. Blocks(block, n) \in Seq(Block) /\ Len(Blocks(block, n)) = n
  BY <1>3
<1>5. ASSUME NEW k \in 1 .. n, NEW j \in 1 .. BlockSize
      PROVE  Blocks(block, n)[k][j] = block[(k - 1) * BlockSize + j - 1]
  BY Zenon DEF Blocks
<1> QED
  BY <1>4, <1>5

LEMMA MessageBlocksType ==
  ASSUME TypeOK, NEW skip \in Nat, NEW n \in Nat,
         length + skip + n * BlockSize <= MaxLength
  PROVE  /\ MessageBlocks(skip, n) \in Seq(Block) /\ Len(MessageBlocks(skip, n)) = n
         /\ \A k \in 1 .. n, j \in 1 .. BlockSize :
               MessageBlocks(skip, n)[k][j]
                  = MessageByte(length + skip + (k - 1) * BlockSize + j)
<1> USE StateTypes, BlockSizeType
<1>1. ASSUME NEW k \in 1 .. n, NEW j \in 1 .. BlockSize
      PROVE  MessageByte(length + skip + (k - 1) * BlockSize + j) \in Byte
  <2>1. PICK a \in Nat, b \in Nat : a = (k - 1) * BlockSize /\ b = (n - k) * BlockSize
    <3>1. k - 1 \in Nat /\ n - k \in Nat
      OBVIOUS
    <3> QED
      BY <3>1, ProductType
  <2>2. n * BlockSize = a + b + BlockSize
    <3>1. n = (k - 1) + ((n - k) + 1) /\ 1 * BlockSize = BlockSize
      OBVIOUS
    <3>2. n * BlockSize = (k - 1) * BlockSize + ((n - k) + 1) * BlockSize
      BY <3>1, Distributes
    <3>3. ((n - k) + 1) * BlockSize = (n - k) * BlockSize + 1 * BlockSize
      BY Distributes
    <3> QED
      BY <2>1, <3>1, <3>2, <3>3
  <2>3. length + skip + a + j \in 1 .. MaxLength
    BY <2>2
  <2> QED
    BY <2>1, <2>3, ByteTypes
<1>2. ASSUME NEW k \in 1 .. n
      PROVE  [j \in 1 .. BlockSize |->
                MessageByte(length + skip + (k - 1) * BlockSize + j)] \in Block
  BY <1>1 DEF Block
<1>3. MessageBlocks(skip, n) \in [1 .. n -> Block]
  BY <1>2 DEF MessageBlocks
<1>4. MessageBlocks(skip, n) \in Seq(Block) /\ Len(MessageBlocks(skip, n)) = n
  BY <1>3
<1>5. ASSUME NEW k \in 1 .. n, NEW j \in 1 .. BlockSize
      PROVE  MessageBlocks(skip, n)[k][j] = MessageByte(length + skip + (k - 1) * BlockSize + j)
  BY Zenon DEF MessageBlocks
<1> QED
  BY <1>4, <1>5

LEMMA RemLenType ==
  ASSUME TypeOK, NEW len \in Nat
  PROVE  /\ RemLen(len) \in Nat /\ RemLen(len) <= len
         /\ m_len + RemLen(len) <= BlockSize
         /\ m_len + len < BlockSize => RemLen(len) = len
         /\ m_len + len >= BlockSize => RemLen(len) = BlockSize - m_len
  BY StateTypes, BlockSizeType DEF RemLen

\* The parts that a chunk is cut into when it fills the block: the bytes that
\* fill it, nb whole blocks and the rest.
Parts(len, rem, nb, filled) ==
    /\ rem = RemLen(len) /\ filled = Copied(m_block, m_len, 0, rem)
    /\ len = rem + nb * BlockSize + m_len'
    /\ m_h' = m_h \o Blocks(filled, 1) \o MessageBlocks(rem, nb)
    /\ m_block' = Copied(filled, 0, rem + nb * BlockSize, m_len')
    /\ m_tot_len' = Unsigned(m_tot_len + (nb + 1) * BlockSize)

LEMMA Compresses ==
  ASSUME TypeOK, NEW len \in Nat, length + len <= MaxLength, updateCompresses(len)
  PROVE  /\ m_len' \in Nat /\ m_len' < BlockSize
         /\ \E rem, nb \in Nat, filled \in Buffer : Parts(len, rem, nb, filled)
<1>0. /\ m_len \in Nat /\ length \in Nat /\ MaxLength \in Nat /\ m_block \in Buffer
      /\ BlockSize \in Nat /\ BlockSize >= 1
  BY StateTypes, BlockSizeType
<1>1. PICK rem \in Nat : rem = RemLen(len) /\ rem <= len /\ m_len + rem <= BlockSize
  BY RemLenType
<1>2. PICK new \in Nat : new = len - rem
  BY <1>1
<1>3. PICK nb \in Nat : nb = new \div BlockSize
  <2>1. new \div BlockSize \in Nat
    BY <1>0, DivMod
  <2> QED
    BY <2>1, Zenon
<1>4. PICK filled : filled = Copied(m_block, m_len, 0, rem)
  OBVIOUS
<1>5. filled \in Buffer
  <2>1. m_len + rem <= 2 * BlockSize /\ length + 0 + rem <= MaxLength
    BY <1>0, <1>1
  <2> QED
    BY <1>0, <1>4, <2>1, CopiedType
<1>6. /\ m_h' = m_h \o Blocks(filled, 1) \o MessageBlocks(rem, nb)
      /\ m_len' = new % BlockSize
      /\ m_block' = Copied(filled, 0, rem + nb * BlockSize, m_len')
      /\ m_tot_len' = Unsigned(m_tot_len + (nb + 1) * BlockSize)
  BY <1>1, <1>2, <1>3, <1>4, Zenon DEF updateCompresses
<1>7. m_len' \in Nat /\ m_len' < BlockSize /\ new = nb * BlockSize + m_len'
  <2>1. /\ new % BlockSize \in Nat /\ new % BlockSize < BlockSize
        /\ new = (new \div BlockSize) * BlockSize + (new % BlockSize)
    BY <1>0, DivMod
  <2> QED
    BY <1>3, <1>6, <2>1, Zenon
<1>8. len = rem + nb * BlockSize + m_len'
  <2>1. PICK a : a \in Nat /\ a = nb * BlockSize
    BY <1>0, ProductType
  <2>2. new = a + m_len'
    BY <1>7, <2>1, Zenon
  <2>3. len = rem + a + m_len'
    BY <1>1, <1>2, <1>7, <2>1, <2>2
  <2> QED
    BY <2>1, <2>3, Zenon
<1>9. Parts(len, rem, nb, filled)
  BY <1>1, <1>4, <1>6, <1>8, Zenon DEF Parts
<1> QED
  BY <1>5, <1>7, <1>9

\* The blocks after a chunk that filled one: those before it, the one it filled
\* and the whole ones in it.
LEMMA CompressedBlocks ==
  ASSUME TypeOK, NEW len \in Nat, length + len <= MaxLength, m_len' \in Nat,
         NEW rem \in Nat, NEW nb \in Nat, NEW filled \in Buffer,
         Parts(len, rem, nb, filled)
  PROVE  /\ m_h' \in Seq(Block) /\ Len(m_h') = Len(m_h) + 1 + nb
         /\ \A k \in 1 .. Len(m_h) : m_h'[k] = m_h[k]
         /\ m_h'[Len(m_h) + 1] = Blocks(filled, 1)[1]
         /\ \A k \in 1 .. nb : m_h'[Len(m_h) + 1 + k] = MessageBlocks(rem, nb)[k]
<1>1. PICK b : b = Blocks(filled, 1) /\ b \in Seq(Block) /\ Len(b) = 1
  BY BlocksType
<1>2. length + rem + nb * BlockSize <= MaxLength
  <2>1. PICK a : a \in Nat /\ a = nb * BlockSize
    BY BlockSizeType, ProductType
  <2>2. len = rem + a + m_len'
    BY <2>1, Zenon DEF Parts
  <2>3. length \in Nat /\ MaxLength \in Nat
    BY StateTypes
  <2>4. length + rem + a <= MaxLength
    BY <2>1, <2>2, <2>3
  <2> QED
    BY <2>1, <2>4, Zenon
<1>3. PICK c : c = MessageBlocks(rem, nb) /\ c \in Seq(Block) /\ Len(c) = nb
  BY <1>2, MessageBlocksType
<1>4. PICK n, h : n = Len(m_h) /\ h = m_h \o b
  BY Zenon
<1>5. m_h \in Seq(Block) /\ n \in Nat
  BY <1>4, StateTypes
<1>6. h \in Seq(Block) /\ Len(h) = n + 1
  <2>1. m_h \o b \in Seq(Block) /\ Len(m_h \o b) = Len(m_h) + Len(b)
    BY <1>1, <1>5, ConcatProperties, Zenon
  <2> QED
    BY <1>1, <1>4, <2>1, Zenon
<1>7. (\A k \in 1 .. n : h[k] = m_h[k]) /\ h[n + 1] = b[1]
  BY <1>1, <1>4, <1>5
<1>8. m_h' = h \o c
  BY <1>1, <1>3, <1>4, Zenon DEF Parts
<1>9. m_h' \in Seq(Block) /\ Len(m_h') = n + 1 + nb
  <2>1. h \o c \in Seq(Block) /\ Len(h \o c) = Len(h) + Len(c)
    BY <1>3, <1>6, ConcatProperties, Zenon
  <2> QED
    BY <1>3, <1>6, <1>8, <2>1, Zenon
<1>10. \A k \in 1 .. n + 1 : m_h'[k] = h[k]
  BY <1>3, <1>5, <1>6, <1>8
<1>11. \A k \in 1 .. nb : m_h'[n + 1 + k] = c[k]
  BY <1>3, <1>5, <1>6, <1>8
<1>12. \A k \in 1 .. n : m_h'[k] = m_h[k]
  BY <1>5, <1>7, <1>10
<1>13. m_h'[n + 1] = b[1]
  BY <1>5, <1>7, <1>10
<1> QED
  BY <1>1, <1>3, <1>4, <1>9, <1>11, <1>12, <1>13, Zenon

LEMMA UpdateTypes ==
  ASSUME TypeOK, NEW len \in Chunks, update(len)
  PROVE  TypeOK'
<1>0. /\ m_len \in Nat /\ m_len < BlockSize /\ length \in Nat /\ MaxLength \in Nat
      /\ m_tot_len \in Nat /\ m_block \in Buffer /\ BlockSize \in Nat
  BY StateTypes, BlockSizeType
<1>1. len \in Nat /\ length + len <= MaxLength /\ length' = length + len
  BY Sha256Assumption DEF update
<1>2. length' \in 0 .. MaxLength /\ digest' \in BOOLEAN
  <2>1. digest' \in BOOLEAN
    BY Zenon DEF update, TypeOK
  <2> QED
    BY <1>0, <1>1, <2>1
<1>3. CASE updateBuffers(len)
  <2>1. PICK rem \in Nat : rem = RemLen(len) /\ rem <= len /\ m_len + rem <= BlockSize
    BY <1>1, RemLenType
  <2>2. m_len + rem <= 2 * BlockSize /\ length + 0 + rem <= MaxLength
    BY <1>0, <1>1, <2>1
  <2>3. m_block' = Copied(m_block, m_len, 0, rem)
    BY <1>3, <2>1, Zenon DEF updateBuffers
  <2>4. m_block' \in Buffer
    BY <1>0, <2>2, <2>3, CopiedType
  <2>5. PICK u \in Nat : u = Unsigned(m_len + len)
    <3>1. m_len + len \in Nat
      BY <1>0, <1>1
    <3> QED
      BY <3>1, UnsignedType
  <2>6. m_len' = u /\ u < BlockSize
    BY <1>3, <2>5, Zenon DEF updateBuffers, Fits
  <2>7. m_len' \in 0 .. BlockSize - 1
    BY <1>0, <2>6
  <2>8. UNCHANGED <<m_tot_len, m_h>>
    BY <1>3 DEF updateBuffers
  <2> QED
    BY <1>2, <2>4, <2>7, <2>8 DEF TypeOK, Buffer
<1>4. CASE updateCompresses(len)
  <2>1. m_len' \in Nat /\ m_len' < BlockSize
    BY <1>1, <1>4, Compresses
  <2>2. PICK rem \in Nat, nb \in Nat, filled \in Buffer : Parts(len, rem, nb, filled)
    BY <1>1, <1>4, Compresses
  <2>3. PICK b : b \in Nat /\ b = nb * BlockSize
    BY <1>0, ProductType
  <2>4. len = rem + b + m_len' /\ m_block' = Copied(filled, 0, rem + b, m_len')
    BY <2>2, <2>3, Zenon DEF Parts
  <2>5. m_block' \in Buffer
    <3>1. PICK l \in Nat : l = m_len'
      BY <2>1
    <3>2. m_block' = Copied(filled, 0, rem + b, l)
      BY <2>4, <3>1, Zenon
    <3>3. b \in Nat /\ len = rem + b + l /\ l < BlockSize
      BY <2>1, <2>3, <2>4, <3>1, Zenon
    <3>4. 0 + l <= 2 * BlockSize
      BY <3>3, BlockSizeType
    <3>5. rem + b \in Nat /\ length + (rem + b) + l <= MaxLength
      BY <1>0, <1>1, <3>3
    <3> QED
      BY <3>2, <3>4, <3>5, CopiedType
  <2>6. m_tot_len' \in 0 .. Modulus - 1
    <3>1. (nb + 1) * BlockSize \in Nat
      BY <1>0, ProductType
    <3>2. m_tot_len + (nb + 1) * BlockSize \in Nat
      BY <1>0, <3>1
    <3> QED
      BY <2>2, <3>2, UnsignedType, Zenon DEF Parts
  <2>7. m_h' \in Seq(Block)
    BY <1>1, <2>1, <2>2, CompressedBlocks
  <2>8. m_len' \in 0 .. BlockSize - 1
    BY <1>0, <2>1
  <2> QED
    BY <1>2, <2>5, <2>6, <2>7, <2>8, Zenon DEF TypeOK, Buffer, Block
<1> QED
  BY <1>3, <1>4 DEF update

\* What final writes, behind the fill bytes of the block, in pm bytes.
Finished(fb, pm, len_b) ==
    /\ fb = FinalBlocks /\ len_b = Unsigned((m_tot_len + m_len) * 8)
    /\ \/ fb = 1 /\ pm = BlockSize /\ m_len + 9 <= BlockSize
       \/ fb = 2 /\ pm = 2 * BlockSize /\ BlockSize < m_len + 9
    /\ m_h' = m_h \o Blocks(m_block', fb)
    /\ \A i \in 0 .. 2 * BlockSize - 1 :
          /\ i < m_len => m_block'[i] = m_block[i]
          /\ i = m_len => m_block'[i] = Value(128)
          /\ m_len < i /\ i < pm - 4 => m_block'[i] = Value(0)
          /\ pm - 4 <= i /\ i < pm => m_block'[i] = Value(ByteOf(len_b, pm - 1 - i))

LEMMA FinalWrites ==
  ASSUME TypeOK, final
  PROVE  /\ m_block' \in Buffer
         /\ \E fb \in 1 .. 2, pm \in Nat, len_b \in Nat : Finished(fb, pm, len_b)
<1>0. /\ m_len \in Nat /\ m_len < BlockSize /\ m_block \in Buffer /\ m_tot_len \in Nat
      /\ BlockSize \in Nat /\ BlockSize >= 9
  BY StateTypes, BlockSizeType
<1>1. PICK len_b \in Nat : len_b = Unsigned((m_tot_len + m_len) * 8)
  <2>1. (m_tot_len + m_len) * 8 \in Nat
    BY <1>0
  <2> QED
    BY <2>1, UnsignedType
<1>2. m_len % BlockSize = m_len
  BY <1>0, SmallMod
<1>3. PICK fb \in 1 .. 2 : fb = FinalBlocks
  BY DEF FinalBlocks
<1>4. \/ fb = 1 /\ m_len + 9 <= BlockSize
      \/ fb = 2 /\ BlockSize < m_len + 9
  <2>1. fb = IF BlockSize - 9 < m_len THEN 2 ELSE 1
    BY <1>2, <1>3, Zenon DEF FinalBlocks
  <2> QED
    BY <1>0, <2>1
<1>5. PICK pm \in Nat : /\ pm = FinalBlocks * BlockSize
                        /\ \/ fb = 1 /\ pm = BlockSize /\ m_len + 9 <= BlockSize
                           \/ fb = 2 /\ pm = 2 * BlockSize /\ BlockSize < m_len + 9
  BY <1>0, <1>3, <1>4
<1>6. /\ m_block' = [i \in DOMAIN m_block |->
             CASE i \in (FinalBlocks * BlockSize) - 4 .. (FinalBlocks * BlockSize) - 1
                    -> Value(ByteOf(Unsigned((m_tot_len + m_len) * 8),
                                    (FinalBlocks * BlockSize) - 1 - i))
               [] i = m_len -> Value(128)
               [] i > m_len /\ i < (FinalBlocks * BlockSize) - 4 -> Value(0)
               [] OTHER -> m_block[i]]
      /\ m_h' = m_h \o Blocks(m_block', FinalBlocks)
  BY Zenon DEF final
<1>7. DOMAIN m_block = 0 .. 2 * BlockSize - 1
  BY <1>0 DEF Buffer
<1>8. m_len + 9 <= pm /\ pm <= 2 * BlockSize
  BY <1>0, <1>5
<1>9. ASSUME NEW i \in 0 .. 2 * BlockSize - 1
      PROVE  /\ i < m_len => m_block'[i] = m_block[i]
             /\ i = m_len => m_block'[i] = Value(128)
             /\ m_len < i /\ i < pm - 4 => m_block'[i] = Value(0)
             /\ pm - 4 <= i /\ i < pm => m_block'[i] = Value(ByteOf(len_b, pm - 1 - i))
             /\ pm <= i => m_block'[i] = m_block[i]
  <2>1. m_block'[i] =
           CASE i \in pm - 4 .. pm - 1 -> Value(ByteOf(len_b, pm - 1 - i))
             [] i = m_len -> Value(128)
             [] i > m_len /\ i < pm - 4 -> Value(0)
             [] OTHER -> m_block[i]
    BY <1>1, <1>5, <1>6, <1>7, Zenon
  <2>2. /\ i < m_len => ~(i \in pm - 4 .. pm - 1) /\ ~(i = m_len) /\ ~(i > m_len)
        /\ i = m_len => ~(i \in pm - 4 .. pm - 1) /\ ~(i > m_len)
        /\ m_len < i /\ i < pm - 4 =>
              ~(i \in pm - 4 .. pm - 1) /\ ~(i = m_len) /\ i > m_len
        /\ pm - 4 <= i /\ i < pm =>
              i \in pm - 4 .. pm - 1 /\ ~(i = m_len) /\ ~(i < pm - 4)
        /\ pm <= i => ~(i \in pm - 4 .. pm - 1) /\ ~(i = m_len) /\ ~(i < pm - 4)
    BY <1>0, <1>8
  <2> QED
    BY <2>1, <2>2
<1>10. m_block' \in Buffer
  <2>1. ASSUME NEW i \in 0 .. 2 * BlockSize - 1 PROVE m_block'[i] \in Byte
    <3>1. m_block[i] \in Byte
      BY <1>0 DEF Buffer
    <3>2. ASSUME pm - 4 <= i, i < pm PROVE Value(ByteOf(len_b, pm - 1 - i)) \in Byte
      <4>1. pm - 1 - i \in 0 .. 7
        BY <1>0, <3>2
      <4>2. ByteOf(len_b, pm - 1 - i) \in 0 .. ByteValues - 1
        BY <4>1, ByteOfType
      <4> QED
        BY <4>2, ByteTypes
    <3>3. Value(0) \in Byte /\ Value(128) \in Byte
      <4>1. 0 \in 0 .. ByteValues - 1
        BY Sha256Assumption
      <4> QED
        BY <4>1, ByteTypes
    <3>4. i < m_len \/ i = m_len \/ (m_len < i /\ i < pm - 4)
          \/ (pm - 4 <= i /\ i < pm) \/ pm <= i
      BY <1>0
    <3> QED
      BY <1>9, <3>1, <3>2, <3>3, <3>4, Zenon
  <2>2. m_block' = [i \in 0 .. 2 * BlockSize - 1 |-> m_block'[i]]
    BY <1>6, <1>7
  <2> QED
    BY <2>1, <2>2 DEF Buffer
<1>11. Finished(fb, pm, len_b)
  BY <1>1, <1>3, <1>5, <1>6, <1>9, Zenon DEF Finished
<1> QED
  BY <1>10, <1>11

LEMMA FinalTypes ==
  ASSUME TypeOK, final
  PROVE  TypeOK'
<1>1. PICK fb \in 1 .. 2, pm \in Nat, len_b \in Nat : Finished(fb, pm, len_b)
  BY FinalWrites
<1>2. Blocks(m_block', fb) \in Seq(Block) /\ m_h \in Seq(Block)
  BY FinalWrites, BlocksType, StateTypes
<1>3. m_h' = m_h \o Blocks(m_block', fb)
  BY <1>1 DEF Finished
<1>4. m_h' \in Seq(Block)
  BY <1>2, <1>3, ConcatProperties, Zenon
<1>5. UNCHANGED <<m_tot_len, m_len, length>> /\ digest' \in BOOLEAN
  BY Zenon DEF final
<1> QED
  BY <1>4, <1>5, FinalWrites, Zenon DEF TypeOK, Buffer, Block

-----------------------------------------------------------------------------
(* What has been taken of the message.                                     *)

\* The first n bytes are compressed, block by block, and the rest is in m_block.
Taken(n) ==
    /\ length = n + m_len /\ m_tot_len = n
    /\ \A k \in 1 .. Len(m_h), j \in 1 .. BlockSize :
          m_h[k][j] = MessageByte((k - 1) * BlockSize + j)
    /\ \A i \in 0 .. m_len - 1 : m_block[i] = MessageByte(n + i + 1)

\* Until final, as long as the length in bits fits an unsigned int.
Progress == ~digest /\ 8 * length < Modulus => Taken(Len(m_h) * BlockSize)

ShaInv == TypeOK /\ Progress /\ HashesPaddedMessage

LEMMA BuffersTaken ==
  ASSUME TypeOK, NEW len \in Nat, length + len <= MaxLength, 8 * (length + len) < Modulus,
         length' = length + len, updateBuffers(len), NEW n \in Nat, Taken(n)
  PROVE  Taken(n)'
<1>0. /\ m_len \in Nat /\ m_len < BlockSize /\ length \in Nat /\ MaxLength \in Nat
      /\ m_block \in Buffer /\ BlockSize \in Nat /\ Modulus \in Nat
  BY StateTypes, BlockSizeType, ModulusType
<1>1. length = n + m_len /\ m_tot_len = n
  BY DEF Taken
<1>2. m_len + len \in Nat /\ m_len + len < Modulus
  BY <1>0, <1>1
<1>3. Unsigned(m_len + len) = m_len + len
  BY <1>2, UnsignedType
<1>4. m_len' = m_len + len /\ m_len + len < BlockSize /\ UNCHANGED <<m_tot_len, m_h>>
  BY <1>3, Zenon DEF updateBuffers, Fits
<1>5. RemLen(len) = len
  BY <1>4, RemLenType
<1>6. m_block' = Copied(m_block, m_len, 0, len)
  BY <1>5, Zenon DEF updateBuffers
<1>7. m_len + len <= 2 * BlockSize /\ length + 0 + len <= MaxLength
  <2>1. m_len + len < BlockSize
    BY <1>4
  <2> QED
    BY <1>0, <2>1
<1>8. length' = n + m_len'
  BY <1>0, <1>1, <1>4
<1>9. ASSUME NEW i \in 0 .. (m_len + len) - 1
      PROVE  m_block'[i] = MessageByte(n + i + 1)
  <2>1. i \in 0 .. 2 * BlockSize - 1 /\ i \in Nat
    BY <1>0, <1>7
  <2>2. CASE i < m_len
    <3>1. m_block'[i] = m_block[i]
      BY <1>0, <1>6, <1>7, <2>1, <2>2, CopiedType
    <3>2. i \in 0 .. m_len - 1
      BY <1>0, <2>1, <2>2
    <3> QED
      BY <3>1, <3>2 DEF Taken
  <2>3. CASE m_len <= i
    <3>1. i < m_len + len
      BY <1>0
    <3>2. m_block'[i] = MessageByte(length + 0 + i - m_len + 1)
      BY <1>0, <1>6, <1>7, <2>1, <2>3, <3>1, CopiedType
    <3>3. length + 0 + i - m_len + 1 = n + i + 1
      BY <1>0, <1>1, <2>1
    <3> QED
      BY <3>2, <3>3, Zenon
  <2> QED
    BY <1>0, <2>1, <2>2, <2>3
<1>10. \A i \in 0 .. m_len' - 1 : m_block'[i] = MessageByte(n + i + 1)
  BY <1>4, <1>9, Zenon
<1>11. m_tot_len' = n /\ m_h' = m_h
  BY <1>1, <1>4
<1>12. \A k \in 1 .. Len(m_h'), j \in 1 .. BlockSize :
          m_h'[k][j] = MessageByte((k - 1) * BlockSize + j)
  BY <1>11, Zenon DEF Taken
<1> QED
  BY <1>8, <1>10, <1>11, <1>12, Zenon DEF Taken, MessageByte

LEMMA CompressesTaken ==
  ASSUME TypeOK, NEW len \in Nat, length + len <= MaxLength, 8 * (length + len) < Modulus,
         length' = length + len, updateCompresses(len),
         Taken(Len(m_h) * BlockSize)
  PROVE  Taken(Len(m_h) * BlockSize)'
<1>0. /\ m_len \in Nat /\ m_len < BlockSize /\ length \in Nat /\ MaxLength \in Nat
      /\ m_block \in Buffer /\ BlockSize \in Nat /\ Modulus \in Nat /\ Len(m_h) \in Nat
  BY StateTypes, BlockSizeType, ModulusType
<1>1. m_len' \in Nat /\ m_len' < BlockSize
  BY Compresses
<1>2. PICK rem \in Nat, nb \in Nat, filled \in Buffer : Parts(len, rem, nb, filled)
  BY Compresses
<1>3. PICK n \in Nat, b \in Nat : n = Len(m_h) * BlockSize /\ b = nb * BlockSize
  BY <1>0, ProductType
<1>4. Taken(n)
  BY <1>3, Zenon
<1>5. length = n + m_len /\ m_tot_len = n
  BY <1>4 DEF Taken
<1>6. m_len + len \in Nat /\ m_len + len < Modulus
  BY <1>0, <1>5
<1>7. ~(m_len + len < BlockSize)
  BY <1>6, UnsignedType, Zenon DEF updateCompresses, Fits
<1>8. rem = BlockSize - m_len
  <2>1. m_len + len >= BlockSize
    BY <1>0, <1>7
  <2>2. RemLen(len) = BlockSize - m_len
    BY <2>1, RemLenType
  <2> QED
    BY <1>2, <2>2, Zenon DEF Parts
<1>9. PICK l \in Nat : l = m_len'
  BY <1>1
<1>10. len = rem + b + l /\ l < BlockSize
  BY <1>1, <1>2, <1>3, <1>9, Zenon DEF Parts
\* The counters.
<1>11. (nb + 1) * BlockSize = b + BlockSize
  <2>1. (nb + 1) * BlockSize = nb * BlockSize + 1 * BlockSize /\ 1 * BlockSize = BlockSize
    BY <1>0, Distributes
  <2> QED
    BY <1>3, <2>1, Zenon
<1>12. (Len(m_h) + 1 + nb) * BlockSize = n + b + BlockSize
  <2>1. PICK N \in Nat : N = Len(m_h)
    BY <1>0
  <2>2. N + 1 + nb = N + (nb + 1)
    BY <1>0
  <2>3. (N + (nb + 1)) * BlockSize = N * BlockSize + (nb + 1) * BlockSize
    BY <1>0, Distributes
  <2>4. (N + 1 + nb) * BlockSize = n + (b + BlockSize)
    BY <1>3, <1>11, <2>1, <2>2, <2>3, Zenon
  <2>5. n + (b + BlockSize) = n + b + BlockSize
    BY <1>0
  <2> QED
    BY <2>1, <2>4, <2>5, Zenon
<1>13. length' = n + b + BlockSize + m_len'
  <2>1. length + len = n + b + BlockSize + l
    BY <1>0, <1>5, <1>8, <1>10
  <2> QED
    BY <1>9, <2>1, Zenon
<1>14. m_tot_len' = n + b + BlockSize
  <2>1. n + (b + BlockSize) \in Nat /\ n + (b + BlockSize) < Modulus
        /\ n + (b + BlockSize) = n + b + BlockSize
    BY <1>0, <1>5, <1>8, <1>10
  <2>2. m_tot_len' = Unsigned(n + (b + BlockSize))
    BY <1>2, <1>5, <1>11, Zenon DEF Parts
  <2> QED
    BY <2>1, <2>2, UnsignedType, Zenon
\* The block that was filled.
<1>15. m_len + rem <= 2 * BlockSize /\ length + 0 + rem <= MaxLength
  BY <1>0, <1>8, <1>10
<1>16. filled = Copied(m_block, m_len, 0, rem)
  BY <1>2 DEF Parts
<1>17. ASSUME NEW i \in 0 .. BlockSize - 1 PROVE filled[i] = MessageByte(n + i + 1)
  <2>1. i \in 0 .. 2 * BlockSize - 1 /\ i \in Nat
    BY <1>0
  <2>2. CASE i < m_len
    <3>1. filled[i] = m_block[i]
      BY <1>0, <1>15, <1>16, <2>1, <2>2, CopiedType
    <3>2. i \in 0 .. m_len - 1
      BY <1>0, <2>1, <2>2
    <3> QED
      BY <1>4, <3>1, <3>2 DEF Taken
  <2>3. CASE m_len <= i
    <3>1. i < m_len + rem
      BY <1>0, <1>8
    <3>2. filled[i] = MessageByte(length + 0 + i - m_len + 1)
      BY <1>0, <1>15, <1>16, <2>1, <2>3, <3>1, CopiedType
    <3>3. length + 0 + i - m_len + 1 = n + i + 1
      BY <1>0, <1>5, <2>1
    <3> QED
      BY <3>2, <3>3, Zenon
  <2> QED
    BY <1>0, <2>1, <2>2, <2>3
\* The blocks.
<1>18. PICK N \in Nat : N = Len(m_h)
  BY <1>0
<1>19. /\ Len(m_h') = N + 1 + nb
       /\ \A k \in 1 .. N : m_h'[k] = m_h[k]
       /\ m_h'[N + 1] = Blocks(filled, 1)[1]
       /\ \A k \in 1 .. nb : m_h'[N + 1 + k] = MessageBlocks(rem, nb)[k]
  <2>1. /\ Len(m_h') = Len(m_h) + 1 + nb
        /\ \A k \in 1 .. Len(m_h) : m_h'[k] = m_h[k]
        /\ m_h'[Len(m_h) + 1] = Blocks(filled, 1)[1]
        /\ \A k \in 1 .. nb : m_h'[Len(m_h) + 1 + k] = MessageBlocks(rem, nb)[k]
    <3>1. m_len' \in Nat /\ Parts(len, rem, nb, filled)
      BY <1>1, <1>2
    <3> QED
      BY <3>1, CompressedBlocks
  <2> QED
    BY <1>18, <2>1, Zenon
<1>20. ASSUME NEW k \in 1 .. N + 1 + nb, NEW j \in 1 .. BlockSize
       PROVE  m_h'[k][j] = MessageByte((k - 1) * BlockSize + j)
  <2>1. CASE k \in 1 .. N
    <3>1. m_h[k][j] = MessageByte((k - 1) * BlockSize + j)
      BY <1>4, <1>18, <2>1 DEF Taken
    <3> QED
      BY <1>19, <2>1, <3>1, Zenon
  <2>2. CASE k = N + 1
    <3>1. 1 \in 1 .. 1 /\ j - 1 \in 0 .. BlockSize - 1 /\ (1 - 1) * BlockSize + j - 1 = j - 1
      BY <1>0
    <3>2. Blocks(filled, 1)[1][j] = filled[(1 - 1) * BlockSize + j - 1]
      BY <3>1, BlocksType
    <3>3. n + (j - 1) + 1 = n + j /\ (N + 1) - 1 = N
      BY <1>0
    <3>4. filled[j - 1] = MessageByte(n + (j - 1) + 1)
      BY <1>17, <3>1
    <3>5. (k - 1) * BlockSize = n
      BY <1>3, <1>18, <2>2, <3>3, Zenon
    <3> QED
      BY <1>19, <2>2, <3>1, <3>2, <3>3, <3>4, <3>5, Zenon
  <2>3. CASE k \notin 1 .. N + 1
    <3>1. PICK q \in 1 .. nb : q = k - (N + 1)
      BY <1>0, <2>3
    <3>2. k = N + 1 + q /\ k - 1 = N + (1 + (q - 1)) /\ q - 1 \in Nat
      BY <1>0, <3>1
    <3>3. m_h'[k] = MessageBlocks(rem, nb)[q]
      BY <1>19, <3>2, Zenon
    <3>4. length + rem + b <= MaxLength
      BY <1>0, <1>10
    <3>5. length + rem + nb * BlockSize <= MaxLength
      BY <1>3, <3>4, Zenon
    <3>6. MessageBlocks(rem, nb)[q][j] = MessageByte(length + rem + (q - 1) * BlockSize + j)
      BY <3>5, MessageBlocksType
    <3>7. PICK c \in Nat : c = (q - 1) * BlockSize
      BY <1>0, <3>2, ProductType
    <3>8. (k - 1) * BlockSize = n + (BlockSize + c)
      <4>1. (N + (1 + (q - 1))) * BlockSize = N * BlockSize + (1 + (q - 1)) * BlockSize
        BY <1>0, <3>2, Distributes
      <4>2. (1 + (q - 1)) * BlockSize = 1 * BlockSize + (q - 1) * BlockSize
            /\ 1 * BlockSize = BlockSize
        BY <1>0, <3>2, Distributes
      <4> QED
        BY <1>3, <1>18, <3>2, <3>7, <4>1, <4>2, Zenon
    <3>9. length + rem + c + j = n + (BlockSize + c) + j
      BY <1>0, <1>5, <1>8
    <3> QED
      BY <3>3, <3>6, <3>7, <3>8, <3>9, Zenon
  <2> QED
    BY <1>0, <2>1, <2>2, <2>3
\* The rest of the chunk.
<1>21. ASSUME NEW i \in 0 .. l - 1
       PROVE  m_block'[i] = MessageByte((n + b + BlockSize) + i + 1)
  <2>1. m_block' = Copied(filled, 0, rem + b, l)
    BY <1>2, <1>3, <1>9, Zenon DEF Parts
  <2>2. /\ 0 + l <= 2 * BlockSize /\ rem + b \in Nat /\ length + (rem + b) + l <= MaxLength
        /\ i \in 0 .. 2 * BlockSize - 1 /\ 0 <= i /\ i < 0 + l
    BY <1>0, <1>10
  <2>3. m_block'[i] = MessageByte(length + (rem + b) + i - 0 + 1)
    BY <2>1, <2>2, CopiedType
  <2>4. length + (rem + b) + i - 0 + 1 = (n + b + BlockSize) + i + 1
    BY <1>0, <1>5, <1>8
  <2> QED
    BY <2>3, <2>4, Zenon
<1>22. PICK t : t = n + b + BlockSize
  BY Zenon
<1>23. /\ length' = t + m_len' /\ m_tot_len' = t
       /\ \A i \in 0 .. m_len' - 1 : m_block'[i] = MessageByte(t + i + 1)
       /\ Len(m_h') * BlockSize = t
  BY <1>9, <1>12, <1>13, <1>14, <1>18, <1>19, <1>21, <1>22, Zenon
<1>24. \A k \in 1 .. Len(m_h'), j \in 1 .. BlockSize :
          m_h'[k][j] = MessageByte((k - 1) * BlockSize + j)
  BY <1>19, <1>20, Zenon
<1> QED
  BY <1>23, <1>24, Zenon DEF Taken, MessageByte

-----------------------------------------------------------------------------
(* The padded message.                                                     *)

LEMMA PaddedBytes ==
  ASSUME NEW n \in Nat, NEW size \in Nat, n + 9 <= size,
         size = BlockSize * ((n + 9 + BlockSize - 1) \div BlockSize)
  PROVE  /\ Len(Padded(n)) = size
         /\ \A i \in 1 .. size :
               /\ i <= n => Padded(n)[i] = MessageByte(i)
               /\ i = n + 1 => Padded(n)[i] = Value(128)
               /\ n + 1 < i /\ i <= size - 8 => Padded(n)[i] = Value(0)
               /\ size - 8 < i => Padded(n)[i] = Value(ByteOf(8 * n, size - i))
<1>1. Padded(n) = [i \in 1 .. BlockSize * ((n + 9 + BlockSize - 1) \div BlockSize) |->
          CASE i <= n    -> MessageByte(i)
            [] i = n + 1 -> Value(128)
            [] i > BlockSize * ((n + 9 + BlockSize - 1) \div BlockSize) - 8
                 -> Value(ByteOf(8 * n,
                          BlockSize * ((n + 9 + BlockSize - 1) \div BlockSize) - i))
            [] OTHER     -> Value(0)]
  BY Zenon DEF Padded
<1>2. DOMAIN Padded(n) = 1 .. size
  BY <1>1, Zenon
<1>3. Len(Padded(n)) = size
  <2>1. PICK e : e = [i \in 1 .. size |-> Padded(n)[i]]
    BY Zenon
  <2>2. Len(e) = size
    BY <2>1
  <2>3. Padded(n) = e
    BY <1>1, <2>1, Zenon
  <2> QED
    BY <2>2, <2>3, Zenon
<1>4. ASSUME NEW i \in 1 .. size
      PROVE  /\ i <= n => Padded(n)[i] = MessageByte(i)
             /\ i = n + 1 => Padded(n)[i] = Value(128)
             /\ n + 1 < i /\ i <= size - 8 => Padded(n)[i] = Value(0)
             /\ size - 8 < i => Padded(n)[i] = Value(ByteOf(8 * n, size - i))
  <2>1. Padded(n)[i] =
          CASE i <= n       -> MessageByte(i)
            [] i = n + 1    -> Value(128)
            [] i > size - 8 -> Value(ByteOf(8 * n, size - i))
            [] OTHER        -> Value(0)
    BY <1>1, Zenon
  <2>2. /\ i <= n => ~(i = n + 1) /\ ~(i > size - 8)
        /\ i = n + 1 => ~(i <= n) /\ ~(i > size - 8)
        /\ n + 1 < i /\ i <= size - 8 => ~(i <= n) /\ ~(i = n + 1) /\ ~(i > size - 8)
        /\ size - 8 < i => ~(i <= n) /\ ~(i = n + 1) /\ i > size - 8
    OBVIOUS
  <2> QED
    BY <2>1, <2>2
<1> QED
  BY <1>3, <1>4

LEMMA FinalHashes ==
  ASSUME TypeOK, final, 8 * length < Modulus, Taken(Len(m_h) * BlockSize)
  PROVE  /\ Len(m_h') * BlockSize = Len(Padded(length))
         /\ \A k \in 1 .. Len(m_h'), j \in 1 .. BlockSize :
               m_h'[k][j] = Padded(length)[(k - 1) * BlockSize + j]
<1>0. /\ m_len \in Nat /\ m_len < BlockSize /\ length \in Nat
      /\ BlockSize \in Nat /\ BlockSize >= 9 /\ Modulus \in Nat
  BY StateTypes, BlockSizeType, ModulusType
<1>1. PICK N \in Nat : N = Len(m_h)
  BY StateTypes
<1>2. PICK n \in Nat : n = N * BlockSize
  BY <1>0, ProductType
<1>3. Taken(n)
  BY <1>1, <1>2, Zenon
<1>4. length = n + m_len /\ m_tot_len = n
  BY <1>3 DEF Taken
<1>5. PICK fb \in 1 .. 2, pm \in Nat, len_b \in Nat : Finished(fb, pm, len_b)
  BY FinalWrites
<1>6. \/ fb = 1 /\ pm = BlockSize /\ m_len + 9 <= BlockSize
      \/ fb = 2 /\ pm = 2 * BlockSize /\ BlockSize < m_len + 9
  BY <1>5 DEF Finished
<1>7. len_b = 8 * length
  <2>1. (m_tot_len + m_len) * 8 = 8 * length /\ 8 * length \in Nat
    BY <1>0, <1>4
  <2>2. len_b = Unsigned((m_tot_len + m_len) * 8)
    BY <1>5 DEF Finished
  <2> QED
    BY <2>1, <2>2, UnsignedType, Zenon
\* As many blocks as the standard asks for.
<1>8. (N + fb) * BlockSize = n + pm /\ fb * BlockSize = pm
  <2>1. fb * BlockSize = pm
    BY <1>0, <1>6
  <2>2. (N + fb) * BlockSize = N * BlockSize + fb * BlockSize
    BY <1>0, Distributes
  <2> QED
    BY <1>2, <2>1, <2>2, Zenon
<1>9. BlockSize * ((length + 9 + BlockSize - 1) \div BlockSize) = n + pm
  <2>1. PICK r \in Nat : r = m_len + 8 + BlockSize - pm /\ r < BlockSize
    BY <1>0, <1>6
  <2>2. length + 9 + BlockSize - 1 = (n + pm) + r
    BY <1>0, <1>4, <2>1
  <2>3. ((N + fb) * BlockSize + r) \div BlockSize = N + fb
    <3>1. N + fb \in Nat
      OBVIOUS
    <3> QED
      BY <1>0, <2>1, <3>1, DivOf
  <2>4. (length + 9 + BlockSize - 1) \div BlockSize = N + fb
    BY <1>8, <2>2, <2>3, Zenon
  <2>5. BlockSize * (N + fb) = (N + fb) * BlockSize
    BY <1>0, ProductType
  <2> QED
    BY <1>8, <2>4, <2>5, Zenon
<1>10. PICK size \in Nat : size = n + pm
  OBVIOUS
<1>11. /\ length + 9 <= size
       /\ size = BlockSize * ((length + 9 + BlockSize - 1) \div BlockSize)
  <2>1. length + 9 <= size
    BY <1>0, <1>4, <1>6, <1>10
  <2> QED
    BY <1>9, <1>10, <2>1, Zenon
<1>12. Len(Padded(length)) = size
  BY <1>0, <1>11, PaddedBytes
\* Block by block.
<1>13. PICK blk : blk = Blocks(m_block', fb)
  BY Zenon
<1>14. /\ blk \in Seq(Block) /\ Len(blk) = fb
       /\ \A k \in 1 .. fb, j \in 1 .. BlockSize :
             blk[k][j] = m_block'[(k - 1) * BlockSize + j - 1]
  BY <1>13, FinalWrites, BlocksType
<1>15. m_h \in Seq(Block) /\ m_h' = m_h \o blk
  BY <1>5, <1>13, StateTypes, Zenon DEF Finished
<1>16. Len(m_h') = N + fb
  BY <1>1, <1>14, <1>15, ConcatProperties, Zenon
<1>17. \A k \in 1 .. N + fb : m_h'[k] = IF k <= N THEN m_h[k] ELSE blk[k - N]
  BY <1>1, <1>14, <1>15, ConcatProperties, Zenon
<1>18. ASSUME NEW i \in 0 .. pm - 1
       PROVE  m_block'[i] = Padded(length)[n + i + 1]
  <2>1. n + i + 1 \in 1 .. size /\ i \in 0 .. 2 * BlockSize - 1 /\ i \in Nat
    BY <1>0, <1>6, <1>10
  <2>2. CASE i < m_len
    <3>1. m_block'[i] = m_block[i]
      BY <1>5, <2>1, <2>2 DEF Finished
    <3>2. i \in 0 .. m_len - 1 /\ n + i + 1 <= length
      BY <1>0, <1>4, <2>1, <2>2
    <3>3. m_block[i] = MessageByte(n + i + 1)
      BY <1>3, <3>2 DEF Taken
    <3>4. Padded(length)[n + i + 1] = MessageByte(n + i + 1)
      BY <1>0, <1>11, <2>1, <3>2, PaddedBytes
    <3> QED
      BY <3>1, <3>3, <3>4, Zenon
  <2>3. CASE i = m_len
    <3>1. m_block'[i] = Value(128)
      BY <1>5, <2>1, <2>3 DEF Finished
    <3>2. n + i + 1 = length + 1
      BY <1>0, <1>4, <2>1, <2>3
    <3>3. Padded(length)[n + i + 1] = Value(128)
      BY <1>0, <1>11, <2>1, <3>2, PaddedBytes
    <3> QED
      BY <3>1, <3>3, Zenon
  <2>4. CASE m_len < i /\ i < pm - 4
    <3>1. m_block'[i] = Value(0)
      BY <1>5, <2>1, <2>4 DEF Finished
    <3>2. length + 1 < n + i + 1
      BY <1>0, <1>4, <2>1, <2>4
    <3>3. CASE n + i + 1 <= size - 8
      <4>1. Padded(length)[n + i + 1] = Value(0)
        BY <1>0, <1>11, <2>1, <3>2, <3>3, PaddedBytes
      <4> QED
        BY <3>1, <4>1, Zenon
    <3>4. CASE size - 8 < n + i + 1
      <4>1. Padded(length)[n + i + 1] = Value(ByteOf(8 * length, size - (n + i + 1)))
        BY <1>0, <1>11, <2>1, <3>4, PaddedBytes
      <4>2. /\ size - (n + i + 1) \in 0 .. 7 /\ 4 <= size - (n + i + 1)
            /\ 8 * length \in Nat
        BY <1>0, <1>10, <2>1, <2>4, <3>4
      <4>3. ByteOf(8 * length, size - (n + i + 1)) = 0
        BY <4>2, ByteOfType
      <4> QED
        BY <3>1, <4>1, <4>3, Zenon
    <3> QED
      BY <2>1, <3>3, <3>4
  <2>5. CASE pm - 4 <= i
    <3>1. i < pm
      BY <2>1
    <3>2. m_block'[i] = Value(ByteOf(len_b, pm - 1 - i))
      BY <1>5, <2>1, <2>5, <3>1 DEF Finished
    <3>3. size - 8 < n + i + 1 /\ size - (n + i + 1) = pm - 1 - i
      BY <1>10, <2>1, <2>5
    <3>4. Padded(length)[n + i + 1] = Value(ByteOf(8 * length, size - (n + i + 1)))
      BY <1>0, <1>11, <2>1, <3>3, PaddedBytes
    <3> QED
      BY <1>7, <3>2, <3>3, <3>4, Zenon
  <2> QED
    BY <1>0, <2>1, <2>2, <2>3, <2>4, <2>5
<1>19. ASSUME NEW k \in 1 .. N + fb, NEW j \in 1 .. BlockSize
       PROVE  m_h'[k][j] = Padded(length)[(k - 1) * BlockSize + j]
  <2>1. CASE k <= N
    <3>1. m_h'[k] = m_h[k] /\ k \in 1 .. N
      BY <1>17, <2>1
    <3>2. m_h[k][j] = MessageByte((k - 1) * BlockSize + j)
      BY <1>1, <1>3, <3>1 DEF Taken
    <3>3. PICK a \in Nat, b \in Nat : a = (k - 1) * BlockSize /\ b = (N - k) * BlockSize
      <4>1. k - 1 \in Nat /\ N - k \in Nat
        BY <2>1
      <4> QED
        BY <1>0, <4>1, ProductType
    <3>4. n = a + (b + BlockSize)
      <4>1. N = (k - 1) + ((N - k) + 1) /\ 1 * BlockSize = BlockSize
        BY <1>0
      <4>2. ((k - 1) + ((N - k) + 1)) * BlockSize
               = (k - 1) * BlockSize + ((N - k) + 1) * BlockSize
        BY <1>0, Distributes
      <4>3. ((N - k) + 1) * BlockSize = (N - k) * BlockSize + 1 * BlockSize
        BY <1>0, Distributes
      <4> QED
        BY <1>2, <3>3, <4>1, <4>2, <4>3, Zenon
    <3>5. a + j \in 1 .. size /\ a + j <= length
      BY <1>0, <1>4, <1>10, <3>4
    <3>6. Padded(length)[a + j] = MessageByte(a + j)
      BY <1>0, <1>11, <3>5, PaddedBytes
    <3> QED
      BY <3>1, <3>2, <3>3, <3>6, Zenon
  <2>2. CASE ~(k <= N)
    <3>1. PICK l \in 1 .. fb : l = k - N
      BY <2>2
    <3>2. m_h'[k] = blk[l]
      BY <1>17, <2>2, <3>1, Zenon
    <3>3. blk[l][j] = m_block'[(l - 1) * BlockSize + j - 1]
      BY <1>14
    <3>4. PICK c \in Nat : c = (l - 1) * BlockSize
      <4>1. l - 1 \in Nat
        OBVIOUS
      <4> QED
        BY <1>0, <4>1, ProductType
    <3>5. c + BlockSize <= pm
      <4>1. \/ l = 1 /\ (l - 1) * BlockSize = 0
            \/ l = 2 /\ fb = 2 /\ (l - 1) * BlockSize = BlockSize
        <5>1. l = 1 \/ (l = 2 /\ fb = 2)
          OBVIOUS
        <5> QED
          BY <1>0, <5>1
      <4>2. c = 0 \/ (c = BlockSize /\ fb = 2)
        BY <3>4, <4>1, Zenon
      <4> QED
        BY <1>0, <1>6, <4>2
    <3>6. (k - 1) * BlockSize = n + c
      <4>1. k - 1 = N + (l - 1)
        BY <3>1
      <4>2. (N + (l - 1)) * BlockSize = N * BlockSize + (l - 1) * BlockSize
        BY <1>0, Distributes
      <4> QED
        BY <1>2, <3>4, <4>1, <4>2, Zenon
    <3>7. c + j - 1 \in 0 .. pm - 1 /\ n + (c + j - 1) + 1 = n + c + j
      BY <1>0, <3>5
    <3>8. m_block'[c + j - 1] = Padded(length)[n + (c + j - 1) + 1]
      BY <1>18, <3>7
    <3> QED
      BY <3>2, <3>3, <3>4, <3>6, <3>7, <3>8, Zenon
  <2> QED
    BY <2>1, <2>2
<1> QED
  BY <1>8, <1>10, <1>12, <1>16, <1>19, Zenon

-----------------------------------------------------------------------------
(* The invariant.                                                          *)

LEMMA ShaInit == Init => ShaInv
<1> SUFFICES ASSUME Init PROVE ShaInv
  OBVIOUS
<1>1. TypeOK
  <2>1. m_len \in 0 .. BlockSize - 1 /\ length \in 0 .. MaxLength
    BY BlockSizeType, Sha256Assumption DEF Init
  <2>2. m_tot_len \in 0 .. Modulus - 1
    BY ModulusType DEF Init
  <2>3. m_block \in [0 .. 2 * BlockSize - 1 -> Byte]
    BY ByteTypes DEF Init
  <2>4. m_h \in Seq([1 .. BlockSize -> Byte])
    BY DEF Init
  <2>5. digest \in BOOLEAN
    BY Zenon DEF Init
  <2> QED
    BY <2>1, <2>2, <2>3, <2>4, <2>5, Zenon DEF TypeOK
<1>2. Len(m_h) = 0 /\ length = 0 /\ m_len = 0 /\ m_tot_len = 0
  BY DEF Init
<1>3. Progress
  <2>1. Len(m_h) * BlockSize = 0
    BY <1>2, BlockSizeType
  <2>2. Taken(0)
    BY <1>2 DEF Taken
  <2> QED
    BY <2>1, <2>2, Zenon DEF Progress
<1>4. HashesPaddedMessage
  BY Zenon DEF Init, HashesPaddedMessage
<1> QED
  BY <1>1, <1>3, <1>4 DEF ShaInv

\* init, on an object in any state.
LEMMA InitAgain ==
  ASSUME ShaInv, init
  PROVE  ShaInv'
<1>1. TypeOK'
  <2>1. m_len' \in 0 .. BlockSize - 1 /\ length' \in 0 .. MaxLength
    BY BlockSizeType, Sha256Assumption DEF init
  <2>2. m_tot_len' \in 0 .. Modulus - 1
    BY ModulusType DEF init
  <2>3. m_block' \in [0 .. 2 * BlockSize - 1 -> Byte]
    <3>1. DOMAIN m_block = 0 .. 2 * BlockSize - 1
      BY StateTypes DEF ShaInv, Buffer
    <3>2. m_block' = [i \in 0 .. 2 * BlockSize - 1 |-> Stale]
      BY <3>1, Zenon DEF init
    <3> QED
      BY <3>2, ByteTypes
  <2>4. m_h' \in Seq([1 .. BlockSize -> Byte])
    BY DEF init
  <2>5. digest' \in BOOLEAN
    BY Zenon DEF init
  <2> QED
    BY <2>1, <2>2, <2>3, <2>4, <2>5, Zenon DEF TypeOK
<1>2. Len(m_h') = 0 /\ length' = 0 /\ m_len' = 0 /\ m_tot_len' = 0
  BY DEF init
<1>3. Progress'
  <2>1. Len(m_h') * BlockSize = 0
    BY <1>2, BlockSizeType
  <2>2. Taken(0)'
    BY <1>2 DEF Taken
  <2>3. Taken(Len(m_h) * BlockSize)'
    BY <2>1, <2>2, Zenon DEF Taken
  <2> QED
    BY <2>3, Zenon DEF Progress
<1>4. HashesPaddedMessage'
  BY Zenon DEF init, HashesPaddedMessage
<1> QED
  BY <1>1, <1>3, <1>4 DEF ShaInv

LEMMA UpdateKeeps ==
  ASSUME ShaInv, NEW len \in Chunks, update(len)
  PROVE  ShaInv'
<1>1. TypeOK'
  BY UpdateTypes DEF ShaInv
<1>2. /\ len \in Nat /\ length + len <= MaxLength /\ length' = length + len
      /\ length \in Nat /\ Modulus \in Nat
  BY Sha256Assumption, StateTypes, ModulusType DEF update, ShaInv
<1>3. ~digest /\ ~digest'
  BY Zenon DEF update
<1>4. ASSUME 8 * length' < Modulus PROVE Taken(Len(m_h) * BlockSize)'
  <2>1. 8 * (length + len) < Modulus
    BY <1>2, <1>4, Zenon
  <2>2. 8 * length < Modulus
    BY <1>2, <2>1
  <2>3. Taken(Len(m_h) * BlockSize)
    BY <1>3, <2>2, Zenon DEF ShaInv, Progress
  <2>4. CASE updateBuffers(len)
    <3>1. PICK n \in Nat : n = Len(m_h) * BlockSize
      BY StateTypes, BlockSizeType, ProductType DEF ShaInv
    <3>2. Taken(n)
      BY <2>3, <3>1, Zenon
    <3>3. Taken(n)'
      BY <1>2, <2>1, <2>4, <3>2, BuffersTaken DEF ShaInv
    <3>4. m_h' = m_h
      BY <2>4 DEF updateBuffers
    <3>5. n = Len(m_h') * BlockSize
      BY <3>1, <3>4, Zenon
    <3> QED
      BY <3>3, <3>5, Zenon DEF Taken
  <2>5. CASE updateCompresses(len)
    BY <1>2, <2>1, <2>3, <2>5, CompressesTaken DEF ShaInv
  <2> QED
    BY <2>4, <2>5 DEF update
<1>5. Progress'
  BY <1>4, Zenon DEF Progress
<1>6. HashesPaddedMessage'
  BY <1>3, Zenon DEF HashesPaddedMessage
<1> QED
  BY <1>1, <1>5, <1>6 DEF ShaInv

LEMMA FinalKeeps ==
  ASSUME ShaInv, final
  PROVE  ShaInv'
<1>1. TypeOK'
  BY FinalTypes DEF ShaInv
<1>2. ~digest /\ digest' /\ length' = length
  BY Zenon DEF final
<1>3. Progress'
  BY <1>2, Zenon DEF Progress
<1>4. ASSUME 8 * length < Modulus
      PROVE  /\ Len(m_h') * BlockSize = Len(Padded(length))
             /\ \A k \in 1 .. Len(m_h'), j \in 1 .. BlockSize :
                   m_h'[k][j] = Padded(length)[(k - 1) * BlockSize + j]
  <2>1. Taken(Len(m_h) * BlockSize)
    BY <1>2, <1>4, Zenon DEF ShaInv, Progress
  <2> QED
    BY <1>4, <2>1, FinalHashes DEF ShaInv
<1>5. DOMAIN m_h' = 1 .. Len(m_h')
  BY <1>1 DEF TypeOK
<1>6. HashesPaddedMessage'
  <2> SUFFICES ASSUME 8 * length' < Modulus
               PROVE  /\ Len(m_h') * BlockSize = Len(Padded(length'))
                      /\ \A k \in DOMAIN m_h', j \in 1 .. BlockSize :
                            m_h'[k][j] = Padded(length')[(k - 1) * BlockSize + j]
    BY Zenon DEF HashesPaddedMessage
  <2> QED
    BY <1>2, <1>4, <1>5, Zenon
<1> QED
  BY <1>1, <1>3, <1>6 DEF ShaInv

LEMMA ShaStep == ShaInv /\ [Next]_vars => ShaInv'
<1> SUFFICES ASSUME ShaInv, [Next]_vars PROVE ShaInv'
  OBVIOUS
<1>1. CASE init
  BY <1>1, InitAgain
<1>2. CASE final
  BY <1>2, FinalKeeps
<1>3. ASSUME NEW len \in Chunks, update(len) PROVE ShaInv'
  BY <1>3, UpdateKeeps
<1>4. CASE UNCHANGED vars
  <2>1. TypeOK'
    BY <1>4, Zenon DEF ShaInv, TypeOK, vars
  <2>2. Progress'
    BY <1>4, Zenon DEF ShaInv, Progress, Taken, vars
  <2>3. HashesPaddedMessage'
    BY <1>4, Zenon DEF ShaInv, HashesPaddedMessage, vars
  <2> QED
    BY <2>1, <2>2, <2>3 DEF ShaInv
<1> QED
  BY <1>1, <1>2, <1>3, <1>4 DEF Next

LEMMA ShaInvAlways == Spec => []ShaInv
  BY ShaInit, ShaStep, PTL DEF Spec

-----------------------------------------------------------------------------
(* The theorems.                                                           *)

\* update leaves room in the first block and neither update nor final writes
\* outside m_block, for chunks of any lengths, even when the sum of the lengths
\* wraps around (sha256.cpp:104-142).
THEOREM ShaTypeCorrect == Spec => []TypeOK
<1>1. ShaInv => TypeOK
  BY DEF ShaInv
<1> QED
  BY <1>1, ShaInvAlways, PTL

\* What transform has been given when final returns is the padded message of the
\* standard, however it was cut into chunks, as long as its length in bits fits
\* an unsigned int (sha256.cpp:104-142).
THEOREM HashesMessage == Spec => []HashesPaddedMessage
<1>1. ShaInv => HashesPaddedMessage
  BY DEF ShaInv
<1> QED
  BY <1>1, ShaInvAlways, PTL
=============================================================================
