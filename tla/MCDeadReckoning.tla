-------------------------- MODULE MCDeadReckoning --------------------------
(* Small instances of DeadReckoning for TLC; the .cfg files give the bounds. *)
EXTENDS DeadReckoning
=============================================================================
