------------------------------- MODULE MCFsck -------------------------------
(***************************************************************************)
(* Instance of Fsck for TLC.  Digests meet only in the rollback of a run,  *)
(* which Kill brings about at any step, so one digest shows every repair.  *)
(***************************************************************************)
EXTENDS Fsck
=============================================================================
