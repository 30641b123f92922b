------------------------------ MODULE MCAdapter ------------------------------
(* The frame adapter on small numbers; the bounds are in the cfg files.    *)
EXTENDS FrameAdapter
=============================================================================
