------------------------- MODULE MCDirectoryListing -------------------------
(***************************************************************************)
(* Instance of DirectoryListing for TLC.                                   *)
(***************************************************************************)
EXTENDS DirectoryListing

HandleSymmetry == Permutations(DirHandles)
=============================================================================
