------------------------------ MODULE MCThreads -----------------------------
(* Two application threads and two connections of a ThreadedSocketAcceptor. *)
EXTENDS ThreadedAcceptor

CONSTANTS a1, a2, c1, c2
=============================================================================
