-------------------------- MODULE MCAdvisoryLocks ---------------------------
(***************************************************************************)
(* Instance of AdvisoryLocks for TLC: two owners and files of four bytes,  *)
(* so that a lock is split in its middle and a piece is split again.       *)
(***************************************************************************)
EXTENDS AdvisoryLocks, TLC

Symmetry == Permutations(Owners)
=============================================================================
