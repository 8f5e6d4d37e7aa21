---------------------------- MODULE MCChunkRefs -----------------------------
(***************************************************************************)
(* Instance of ChunkRefs for TLC.  Chunk and digest identities are only    *)
(* compared, so both sets of model values are symmetric.                   *)
(***************************************************************************)
EXTENDS ChunkRefs, TLC

Symmetry == Permutations(Files) \cup Permutations(Digests)
=============================================================================
