--------------------------- MODULE MCInterleaving ---------------------------
(* Instances of Interleaving for TLC.                                      *)
EXTENDS Interleaving

CONSTANTS i1, i2, i3, i4, i5

FiveIds == <<i1, i2, i3, i4, i5>>
=============================================================================
