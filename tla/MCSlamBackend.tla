--------------------------- MODULE MCSlamBackend ---------------------------
(* Small instances of SlamBackend for TLC; the .cfg files give the bounds. *)
EXTENDS SlamBackend
=============================================================================
