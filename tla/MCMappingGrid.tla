--------------------------- MODULE MCMappingGrid ---------------------------
(***************************************************************************)
(* Small instances of MappingGrid for TLC: a fan of three pixels, two of   *)
(* them in one cell, and poses that leave a 2 x 3 grid on every side.      *)
(***************************************************************************)
EXTENDS MappingGrid

ThreePixels  == <<<<0, 0>>, <<0, 1>>, <<0, 1>>>>
AllAround    == {<<0, 0>>, <<-2, 2>>, <<2, -3>>}
TwoByThree   == <<2, 3>>
OffCentre    == <<0, -1>>
=============================================================================
