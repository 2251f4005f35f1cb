----------------------------- MODULE MCMapCache -----------------------------
(* Small instances of MapCache for TLC; the .cfg files give the bounds. *)
EXTENDS MapCache, TLC

Symmetry == Permutations(Consumers) \cup Permutations(Addresses)
              \cup Permutations(Patterns)
=============================================================================
