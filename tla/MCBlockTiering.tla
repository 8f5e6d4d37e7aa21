--------------------------- MODULE MCBlockTiering ---------------------------
(***************************************************************************)
(* Instance of BlockTiering for TLC.  Digests and readers are only         *)
(* compared, so their model values are symmetric.                          *)
(***************************************************************************)
EXTENDS BlockTiering, TLC

Symmetry == Permutations(Digests) \cup Permutations(Readers)
=============================================================================
