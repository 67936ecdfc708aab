--------------------------- MODULE MCDescriptors ---------------------------
(***************************************************************************)
(* Descriptors on small instances: two or three transfers.                 *)
(***************************************************************************)
EXTENDS Descriptors, TLC

CONSTANTS t1, t2, t3

Two == {t1, t2}
Three == {t1, t2, t3}
Symmetry == Permutations(Three)
=============================================================================
