-------------------------- MODULE MCLoopClosure ---------------------------
(* A small instance of LoopClosure for TLC; the .cfg files give the bounds. *)
EXTENDS LoopClosure
=============================================================================
