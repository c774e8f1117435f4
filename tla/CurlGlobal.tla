----------------------------- MODULE CurlGlobal -----------------------------
(***************************************************************************)
(* ConfigCurlGlobalState (source/net/curl_client.cpp): the constructor and *)
(* the destructor of every CurlClient count the clients and initialise or  *)
(* clean up libcurl for the first and the last.  The mutex it takes is one *)
(* it has just created, so clients of two threads are not kept apart: the  *)
(* load of curl_clients_active, the store and the call of libcurl are      *)
(* steps, and the test of the new count sees the value stored or, in a     *)
(* build that loads it again, whatever is there by then.                   *)
(***************************************************************************)
EXTENDS Naturals

CONSTANT Clients

VARIABLES
    active,         \* curl_clients_active
    previous,       \* previous_curl_clients_active of each client
    life,           \* where each client is in its life
    inits,          \* external: how often libcurl is initialised
    overlapped      \* history: two clients were in the function at once

globalVars == <<active, previous, life, inits, overlapped>>

Configuring == {"load", "store", "unload", "unstore"}

GlobalTypeOK ==
    /\ active \in Nat /\ inits \in Nat
    /\ previous \in [Clients -> Nat]
    /\ life \in [Clients -> {"none", "alive", "gone"} \cup Configuring]
    /\ overlapped \in BOOLEAN

GlobalInit ==
    /\ active = 0 /\ inits = 0
    /\ previous = [c \in Clients |-> 0]
    /\ life = [c \in Clients |-> "none"]
    /\ overlapped = FALSE

Added(c) == life[c] \in {"load", "store"}

\* ConfigCurlGlobalState is entered by the constructor or the destructor.
ConfigLoad(c) ==
    /\ life[c] \in {"none", "alive"}
    /\ life' = [life EXCEPT ![c] = IF life[c] = "none" THEN "load" ELSE "unload"]
    /\ previous' = [previous EXCEPT ![c] = active]
    /\ overlapped' = (overlapped \/ \E d \in Clients : life[d] \in Configuring)
    /\ UNCHANGED <<active, inits>>

\* Mutant: a client that goes is not counted down.
CountNeverDown(c) == previous[c] + 1

Count(c) == IF Added(c) THEN previous[c] + 1
            ELSE IF previous[c] # 0 THEN previous[c] - 1 ELSE 0

ConfigStore(c) ==
    /\ life[c] \in {"load", "unload"}
    /\ active' = Count(c)
    /\ life' = [life EXCEPT ![c] = IF Added(c) THEN "store" ELSE "unstore"]
    /\ UNCHANGED <<previous, inits, overlapped>>

\* The test, curl_global_init or curl_global_cleanup, and the return.
ConfigApply(c) ==
    /\ life[c] \in {"store", "unstore"}
    /\ \E now \in {Count(c), active} :
         inits' = CASE previous[c] = 0 /\ now = 1 -> inits + 1
                    [] previous[c] = 1 /\ now = 0 /\ inits > 0 -> inits - 1
                    [] OTHER -> inits
    /\ life' = [life EXCEPT ![c] = IF Added(c) THEN "alive" ELSE "gone"]
    /\ UNCHANGED <<active, previous, overlapped>>

\* libcurl is initialised, once, while a client lives, and cleaned up when none
\* does, unless two clients were created or destroyed at the same time
\* (curl_client.cpp:17-34).
InitialisedWhileUsed ==
    \/ overlapped
    \/ \E c \in Clients : life[c] \in Configuring
    \/ inits = IF \E c \in Clients : life[c] = "alive" THEN 1 ELSE 0
=============================================================================
