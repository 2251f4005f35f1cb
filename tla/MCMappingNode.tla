--------------------------- MODULE MCMappingNode ---------------------------
(* Small instances of MappingNode for TLC; the .cfg files give the bounds. *)
EXTENDS MappingNode
=============================================================================
