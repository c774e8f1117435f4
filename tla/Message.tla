------------------------------ MODULE Message ------------------------------
(***************************************************************************)
(* Message (source/base/messageloop/message.{h,cpp}): a growing buffer     *)
(* that trivially copyable values are encoded into and decoded from.       *)
(*                                                                         *)
(* buffer is what buffer_ points to, its length is buffer_length_ and it   *)
(* is empty while buffer_ is null.  A byte is the value it belongs to and  *)
(* its index in it, or Junk before anything was written there.  An         *)
(* allocation that fails makes Encode return false and changes nothing, so *)
(* it is a stuttering step.  FF_DCHECK is FF_CHECK in every build of the   *)
(* repository (none defines DEBUG): a check that fails aborts.             *)
(***************************************************************************)
EXTENDS Integers, Sequences

CONSTANTS
    Values,         \* the values that may be encoded
    Size,           \* sizeof of each value's type
    Width,          \* the number of bits of NextOfTwoSize's uint32_t
    Junk,           \* a byte nobody wrote
    MaxValues       \* bound: how many values are encoded

\* The powers of two, as a function that can be reasoned about.
Pow2[n \in Nat] == IF n = 0 THEN 1 ELSE 2 * Pow2[n - 1]

\* The shifts of NextOfTwoSize reach 32 bits.
ASSUME MessageAssumption ==
    /\ Width \in 1 .. 32
    /\ Size \in [Values -> 1 .. Pow2[Width - 1]]
    /\ MaxValues \in Nat

VARIABLES
    buffer,
    aborted,        \* FF_DCHECK(size > buffer_length_) has failed
    data_length,    \* data_length_
    size_read,      \* size_read_
    encoded,        \* history: the values encoded
    decoded         \* history: what was decoded since the last ResetRead, and
                    \* whether all of it had been written

vars == <<buffer, aborted, data_length, size_read, encoded, decoded>>

Bytes(v) == [i \in 1 .. Size[v] |-> <<v, i>>]

AllBytes == {Junk} \cup UNION {{<<v, i>> : i \in 1 .. Size[v]} : v \in Values}

\* Every variable has its type, and the data and the read position stay in the
\* buffer, however it was grown (message.cpp:75, 85).
TypeOK ==
    /\ buffer \in Seq(AllBytes) /\ aborted \in BOOLEAN
    /\ data_length \in 0 .. Len(buffer)
    /\ size_read \in 0 .. Len(buffer)
    /\ encoded \in Seq(Values)
    /\ decoded \in Seq([bytes : Seq(AllBytes), written : BOOLEAN])

-----------------------------------------------------------------------------
(* NextOfTwoSize, on unsigned numbers of Width bits.                       *)

Word == Pow2[Width]

Bits(x) == {i \in 0 .. Width - 1 : (x \div Pow2[i]) % 2 = 1}

\* x |= x >> k, for x given by its bits.
ShiftOr(B, k) == B \cup {i \in 0 .. Width - 1 : i + k \in B}

ValueOf(B) ==
    LET sum[n \in 0 .. Width] ==
          IF n = 0 THEN 0
          ELSE sum[n - 1] + (IF n - 1 \in B THEN Pow2[n - 1] ELSE 0)
    IN  sum[Width]

Smeared(x) ==
    ShiftOr(ShiftOr(ShiftOr(ShiftOr(ShiftOr(Bits(x), 1), 2), 4), 8), 16)

\* Mutant: x is not decremented first.
NextOfTwoSizeNoDecrement(size) ==
    LET x == size % Word
    IN  IF x = 0 THEN 1 ELSE (ValueOf(Smeared(x)) + 1) % Word

\* Mutant: the bits below the leading one are filled and 1 is not added.
NextOfTwoSizeNoIncrement(size) ==
    LET x == size % Word
    IN  IF x = 0 THEN 1 ELSE ValueOf(Smeared(x - 1))

\* The size_t argument is cut to Width bits, and so is the result.
NextOfTwoSize(size) ==
    LET x == size % Word
    IN  IF x = 0 THEN 1 ELSE (ValueOf(Smeared(x - 1)) + 1) % Word

-----------------------------------------------------------------------------
\* Mutant: the old contents are not copied.
ResizedFresh(size) == [i \in 1 .. size |-> Junk]

\* malloc or realloc: the old contents as far as they fit.
Resized(size) == [i \in 1 .. size |-> IF i <= Len(buffer) THEN buffer[i] ELSE Junk]

\* Reserve(size), when the allocation succeeds.
Reserved(size) == IF Len(buffer) >= size THEN buffer ELSE Resized(NextOfTwoSize(size))

\* Mutant: room is reserved for the value alone.
NeedValueOnly(v) == Size[v]

\* What PrepareEncode reserves: the value's size beyond the whole buffer.
Need(v) == Len(buffer) + Size[v]

\* memcpy; what would lie beyond the buffer is not in it.
Written(b, bytes) ==
    [i \in 1 .. Len(b) |->
        IF data_length < i /\ i <= data_length + Len(bytes)
        THEN bytes[i - data_length] ELSE b[i]]

\* FF_DCHECK in Resize: the size that NextOfTwoSize returned for a buffer that
\* is too short is not larger, because it was cut to Width bits.
ResizeShrinks(v) ==
    /\ buffer # <<>>
    /\ Len(buffer) < Need(v) /\ NextOfTwoSize(Need(v)) <= Len(buffer)

Encode(v) ==
    LET room == Reserved(Need(v))
    IN  /\ ~aborted /\ Len(encoded) < MaxValues
        /\ ~ResizeShrinks(v) /\ room # <<>>
        /\ buffer' = Written(room, Bytes(v))
        /\ data_length' = data_length + Size[v]
        /\ encoded' = Append(encoded, v)
        /\ UNCHANGED <<aborted, size_read, decoded>>

EncodeAborts(v) ==
    /\ ~aborted /\ Len(encoded) < MaxValues
    /\ ResizeShrinks(v)
    /\ aborted' = TRUE
    /\ UNCHANGED <<buffer, data_length, size_read, encoded, decoded>>

\* The n bytes at the read position.
Read(n) ==
    [bytes |-> [i \in 1 .. n |-> IF size_read + i <= Len(buffer)
                                 THEN buffer[size_read + i] ELSE Junk],
     written |-> size_read + n <= data_length]

\* Decode of a type of n bytes, which PrepareDecode refuses when the buffer
\* (not the data in it) is too short.
Decode(n) ==
    /\ ~aborted
    /\ size_read + n <= Len(buffer)
    /\ decoded' = Append(decoded, Read(n))
    /\ size_read' = size_read + n
    /\ UNCHANGED <<buffer, aborted, data_length, encoded>>

ResetRead ==
    /\ ~aborted
    /\ size_read' = 0 /\ decoded' = <<>>
    /\ UNCHANGED <<buffer, aborted, data_length, encoded>>

Init ==
    /\ buffer = <<>> /\ aborted = FALSE
    /\ data_length = 0 /\ size_read = 0
    /\ encoded = <<>> /\ decoded = <<>>

Next ==
    \/ \E v \in Values : Encode(v) \/ EncodeAborts(v) \/ Decode(Size[v])
    \/ ResetRead

Spec == Init /\ [][Next]_vars

-----------------------------------------------------------------------------
(* Properties.                                                             *)

\* Encode aborts only when what it reserves has no power of two of Width bits
\* above it; until then every resize grows, as Resize checks (message.cpp:61).
AbortsOnlyAtWidth == aborted => \E v \in Values : Need(v) > Word \div 2

\* Decoding with the types that were encoded, in their order, returns the
\* values that were encoded, however often the buffer was moved in between and
\* whenever the reader started again.  Decoding beyond the data is another
\* matter: PrepareDecode lets the reader go on to the end of the buffer.
DecodesWhatWasEncoded ==
    \A i \in 1 .. Len(decoded) :
        (/\ decoded[i].written /\ i <= Len(encoded)
         /\ \A j \in 1 .. i : Len(decoded[j].bytes) = Size[encoded[j]])
            => decoded[i].bytes = Bytes(encoded[i])

\* NextOfTwoSize against its name: for every size Reserve could ask for, as long
\* as one exists in Width bits, the least power of two that is not smaller.
NextOfTwoSizeIsLeast ==
    \A x \in Len(buffer) .. Word \div 2 :
        /\ \E k \in 0 .. Width - 1 : NextOfTwoSize(x) = Pow2[k]
        /\ x <= NextOfTwoSize(x)
        /\ \A k \in 0 .. Width - 1 : x <= Pow2[k] => NextOfTwoSize(x) <= Pow2[k]
=============================================================================
