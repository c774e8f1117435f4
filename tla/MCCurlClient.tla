---------------------------- MODULE MCCurlClient ----------------------------
(***************************************************************************)
(* Small instances of CurlClient: three requests of which two share a      *)
(* hash, the two that share it, one request alone.                         *)
(***************************************************************************)
EXTENDS CurlClient

CONSTANTS a, b, c, h1, h2

OneRequest == {a}
TwoRequests == {a, b}
ThreeRequests == {a, b, c}
TwoHashes == {h1, h2}
Alone == [r \in OneRequest |-> h1]
SameKey == [r \in TwoRequests |-> h1]
TwoOfOneKey == [r \in ThreeRequests |-> IF r = c THEN h2 ELSE h1]
=============================================================================
