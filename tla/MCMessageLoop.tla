--------------------------- MODULE MCMessageLoop ---------------------------
(***************************************************************************)
(* Small instances of MessageLoop: two closures and one that terminates    *)
(* the loop, or one of each kind.                                          *)
(***************************************************************************)
EXTENDS MessageLoop

CONSTANTS a, b, q

Closures == {a, b, q}
Quit == {q}
TaskAndQuit == {a, q}
=============================================================================
