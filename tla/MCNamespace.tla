---------------------------- MODULE MCNamespace -----------------------------
(***************************************************************************)
(* Instance of Namespace for TLC.  Names and handles are only compared, so *)
(* their model values are symmetric.                                       *)
(***************************************************************************)
EXTENDS Namespace, TLC

Symmetry == Permutations(Names) \cup Permutations(Handles)
=============================================================================
