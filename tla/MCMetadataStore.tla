-------------------------- MODULE MCMetadataStore ---------------------------
(***************************************************************************)
(* Instance of MetadataStore for TLC.  Liveness is checked, so no symmetry. *)
(***************************************************************************)
EXTENDS MetadataStore
=============================================================================
