--------------------------- MODULE MCFileContent ----------------------------
(***************************************************************************)
(* Instance of FileContent for TLC: chunks of two bytes, files of up to    *)
(* five, so that the last chunk is a short one, and one non-zero byte      *)
(* beside a second one to tell old bytes from new.                         *)
(***************************************************************************)
EXTENDS FileContent, TLC

Symmetry == Permutations(Threads)
=============================================================================
