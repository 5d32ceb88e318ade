--------------------------- MODULE MCBitrateQueue ---------------------------
(* Values of the constants of BitrateQueue for TLC: messages of no byte, below,
   at and above the window. *)
EXTENDS BitrateQueue

SomeLens == {0, 2, 3}
=============================================================================
