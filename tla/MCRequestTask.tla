--------------------------- MODULE MCRequestTask ---------------------------
EXTENDS RequestTask, TLC

CONSTANTS c1, c2, none

MCTokens == [v \in {"a"} |-> {"Accept"}]
MCRequests ==
    {[url |-> "u", method |-> "GET", headers |-> <<>>, body |-> 1],
     [url |-> "u", method |-> "HEAD", body |-> NoBody,
      headers |-> ("Range" :> "a") @@ ("Accept" :> "a")]}
MCLines ==
    {[key |-> "", rest |-> <<>>],
     [key |-> "Server", rest |-> <<" ", "x", "crlf">>]}
=============================================================================
