---------------------------- MODULE MCMappedNode ----------------------------
(***************************************************************************)
(* The values of the constants for the model-checking runs.                *)
(***************************************************************************)
EXTENDS MappedNode

Lists == {<<"x", "y">>, <<>>}
=============================================================================
