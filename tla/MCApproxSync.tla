---------------------------- MODULE MCApproxSync ----------------------------
(* Small instances of ApproxSync for TLC; the .cfg files give the bounds.  *)
EXTENDS ApproxSync
=============================================================================
