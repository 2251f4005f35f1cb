----------------------------- MODULE MCMapStore -----------------------------
(* Small instances of MapStore for TLC; the .cfg files give the bounds. *)
EXTENDS MapStore
=============================================================================
