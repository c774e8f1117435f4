----------------------------- MODULE MCMessage -----------------------------
(***************************************************************************)
(* A small instance of Message: a one-byte and a three-byte type.          *)
(***************************************************************************)
EXTENDS Message

CONSTANTS a, b

CharAndStruct == {a, b}
SizeOf == [v \in CharAndStruct |-> IF v = a THEN 1 ELSE 3]
=============================================================================
