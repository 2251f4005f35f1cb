--------------------------- MODULE MCFeatureNode ---------------------------
(* A small instance of FeatureNode for TLC; the .cfg file gives the bounds. *)
EXTENDS FeatureNode

\* In tenths: Ntc and Ngc are 2, the rank is -1.
MCStartup ==
  [Ntc |-> 20, Ngc |-> 20, Pfa |-> "solvable", rank |-> -10, alg |-> "SOCA",
   skip |-> 0]

\* One for every way a request is taken or refused: a detector that grows, by
\* a decimal that is cut, or loses its guard cells, an odd window, a rank that
\* fits only the larger window, alone and together with it, one that is the
\* median until it is cut to 0, a rate without a root, an algorithm that is
\* known or not, with a parameter that is not to stay.
MCRequests ==
  { [Ntc |-> 49], [Ntc |-> 30], [Ngc |-> 0], [rank |-> 30],
    [Ntc |-> 40, rank |-> 39], [rank |-> -5], [Ntc |-> 20, Pfa |-> "unsolvable"],
    [alg |-> "OS"], [alg |-> "CA", skip |-> 29], [alg |-> "unknown", rank |-> 0],
    [alg |-> "GOCA"] }
=============================================================================
