--------------------------- MODULE MCAfterCommit ----------------------------
(***************************************************************************)
(* Instance of AfterCommit for TLC.  Liveness is checked, so no symmetry.  *)
(***************************************************************************)
EXTENDS AfterCommit
=============================================================================
