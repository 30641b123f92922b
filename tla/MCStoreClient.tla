--------------------------- MODULE MCStoreClient ---------------------------
(* Two texts of different length, so that a text can be read at the wrong  *)
(* place or with the wrong size.                                           *)
EXTENDS StoreClient

TwoTexts == {"short", "long"}
Lengths == [m \in TwoTexts |-> IF m = "short" THEN 1 ELSE 2]
=============================================================================
