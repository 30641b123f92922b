------------------------- MODULE MCSessionPairFair -------------------------
(* Instances of SessionPairFair for TLC; the .cfg files give the bounds.   *)
EXTENDS SessionPairFair
=============================================================================
