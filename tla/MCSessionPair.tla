--------------------------- MODULE MCSessionPair ---------------------------
(* Instances of SessionPair for TLC; the .cfg files give the bounds.       *)
EXTENDS SessionPair
=============================================================================
