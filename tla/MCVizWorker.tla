---------------------------- MODULE MCVizWorker ----------------------------
(* Small instances of VizWorker for TLC; the .cfg files give the bounds.   *)
EXTENDS VizWorker
=============================================================================
