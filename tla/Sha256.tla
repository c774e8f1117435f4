------------------------------- MODULE Sha256 -------------------------------
(***************************************************************************)
(* How SHA256 (source/utils/sha256.cpp) cuts a message that arrives in     *)
(* chunks into blocks and pads the last one.  The code never looks at the  *)
(* bytes, so a byte of the message is the number of its place; the other   *)
(* bytes are the values that final writes and whatever m_block held        *)
(* before.  transform is abstracted to the blocks it was given: m_h is the *)
(* sequence of the blocks compressed so far.                               *)
(*                                                                         *)
(* A byte has ByteValues values here and an unsigned int four bytes, which *)
(* SHA2_UNPACK32 writes; the standard's length field has eight.            *)
(***************************************************************************)
EXTENDS Integers, Sequences

CONSTANTS
    BlockSize,      \* SHA224_256_BLOCK_SIZE
    ByteValues,     \* how many values a byte has
    Chunks,         \* lengths that update is called with
    MaxLength       \* bound: bytes of a message

ASSUME Sha256Assumption ==
    /\ BlockSize \in Nat /\ BlockSize >= 9
    /\ ByteValues \in Nat /\ ByteValues >= 1
    /\ Chunks \subseteq Nat /\ MaxLength \in Nat

VARIABLES
    m_tot_len, m_len,
    m_block,        \* two blocks, indexed from 0 as in the code
    m_h,
    length,         \* bytes that update was given since init
    digest          \* final has been called

vars == <<m_tot_len, m_len, m_block, m_h, length, digest>>

\* What the i-th byte of a number counts, the least significant being the 0th.
Place[i \in 0 .. 7] == IF i = 0 THEN 1 ELSE ByteValues * Place[i - 1]

Modulus == Place[4]

Unsigned(n) == n % Modulus

Stale == <<"stale", 0>>
MessageByte(i) == <<"message", i>>
Value(v) == <<"value", v>>

ByteOf(n, i) == (n \div Place[i]) % ByteValues

Byte ==
    {Stale} \cup {MessageByte(i) : i \in 1 .. MaxLength}
            \cup {Value(v) : v \in {128} \cup 0 .. ByteValues - 1}

\* update always leaves room in the first block, and m_block is never written
\* outside its two blocks.
TypeOK ==
    /\ m_len \in 0 .. BlockSize - 1
    /\ m_tot_len \in 0 .. Modulus - 1
    /\ m_block \in [0 .. 2 * BlockSize - 1 -> Byte]
    /\ m_h \in Seq([1 .. BlockSize -> Byte])
    /\ length \in 0 .. MaxLength
    /\ digest \in BOOLEAN

-----------------------------------------------------------------------------
\* memcpy of n bytes of the message, those after the first skip of this chunk.
Copied(block, at, skip, n) ==
    [i \in DOMAIN block \cup at .. at + n - 1 |->
        IF i \in at .. at + n - 1 THEN MessageByte(length + skip + i - at + 1)
        ELSE block[i]]

\* transform(m_block, n)
Blocks(block, n) ==
    [k \in 1 .. n |-> [j \in 1 .. BlockSize |-> block[(k - 1) * BlockSize + j - 1]]]

\* transform(shifted_message, n)
MessageBlocks(skip, n) ==
    [k \in 1 .. n |->
        [j \in 1 .. BlockSize |-> MessageByte(length + skip + (k - 1) * BlockSize + j)]]

\* The object may have been used before.
init ==
    /\ m_len' = 0 /\ m_tot_len' = 0 /\ m_h' = <<>>
    /\ m_block' = [i \in DOMAIN m_block |-> Stale]
    /\ length' = 0 /\ digest' = FALSE

\* Mutant: a chunk that fills the block exactly stays in it.
FitsInclusive(len) == Unsigned(m_len + len) <= BlockSize

Fits(len) == Unsigned(m_len + len) < BlockSize

RemLen(len) == IF len < BlockSize - m_len THEN len ELSE BlockSize - m_len

updateBuffers(len) ==
    /\ Fits(len)
    /\ m_block' = Copied(m_block, m_len, 0, RemLen(len))
    /\ m_len' = Unsigned(m_len + len)
    /\ UNCHANGED <<m_tot_len, m_h>>

updateCompresses(len) ==
    /\ ~Fits(len)
    /\ LET rem_len  == RemLen(len)
           filled   == Copied(m_block, m_len, 0, rem_len)
           new_len  == len - rem_len
           block_nb == new_len \div BlockSize
       IN /\ m_h' = m_h \o Blocks(filled, 1) \o MessageBlocks(rem_len, block_nb)
          /\ m_len' = new_len % BlockSize
          /\ m_block' = Copied(filled, 0, rem_len + block_nb * BlockSize, m_len')
          /\ m_tot_len' = Unsigned(m_tot_len + (block_nb + 1) * BlockSize)

update(len) ==
    /\ ~digest /\ length + len <= MaxLength
    /\ updateBuffers(len) \/ updateCompresses(len)
    /\ length' = length + len
    /\ UNCHANGED digest

\* Mutant: a second block only when the length itself does not fit.
FinalBlocksLate == IF BlockSize - 8 < m_len % BlockSize THEN 2 ELSE 1

FinalBlocks == IF BlockSize - 9 < m_len % BlockSize THEN 2 ELSE 1

\* memset, 0x80, and SHA2_UNPACK32 of the length in bits.
final ==
    /\ ~digest
    /\ LET pm_len == FinalBlocks * BlockSize
           len_b  == Unsigned((m_tot_len + m_len) * 8)
       IN m_block' = [i \in DOMAIN m_block |->
             CASE i \in pm_len - 4 .. pm_len - 1 -> Value(ByteOf(len_b, pm_len - 1 - i))
               [] i = m_len -> Value(128)
               [] i > m_len /\ i < pm_len - 4 -> Value(0)
               [] OTHER -> m_block[i]]
    /\ m_h' = m_h \o Blocks(m_block', FinalBlocks)
    /\ digest' = TRUE
    /\ UNCHANGED <<m_tot_len, m_len, length>>

Init ==
    /\ m_len = 0 /\ m_tot_len = 0 /\ m_h = <<>>
    /\ m_block = [i \in 0 .. 2 * BlockSize - 1 |-> Stale]
    /\ length = 0 /\ digest = FALSE

Next == init \/ final \/ \E len \in Chunks : update(len)

Spec == Init /\ [][Next]_vars

-----------------------------------------------------------------------------
(* Properties                                                              *)

\* The padded message of FIPS 180-4, section 5.1.1: n bytes, a byte 0x80, as few
\* zeros as fill a block, and the length in bits in eight bytes.
Padded(n) ==
    LET size == BlockSize * ((n + 9 + BlockSize - 1) \div BlockSize)
    IN [i \in 1 .. size |->
          CASE i <= n       -> MessageByte(i)
            [] i = n + 1    -> Value(128)
            [] i > size - 8 -> Value(ByteOf(8 * n, size - i))
            [] OTHER        -> Value(0)]

\* However a message was cut into chunks, and whatever the object was used for
\* before, what has been compressed when final returns is the padded message,
\* block by block, as long as its length in bits fits an unsigned int
\* (sha256.cpp:104-142).
HashesPaddedMessage ==
    digest /\ 8 * length < Modulus =>
        LET padded == Padded(length)
        IN /\ Len(m_h) * BlockSize = Len(padded)
           /\ \A k \in DOMAIN m_h, j \in 1 .. BlockSize :
                m_h[k][j] = padded[(k - 1) * BlockSize + j]
=============================================================================
