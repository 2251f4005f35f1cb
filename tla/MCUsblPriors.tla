---------------------------- MODULE MCUsblPriors ----------------------------
(* Small instances of UsblPriors for TLC; the .cfg files give the bounds. *)
EXTENDS UsblPriors
=============================================================================
