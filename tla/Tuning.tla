------------------------------- MODULE Tuning -------------------------------
(***************************************************************************)
(* Live tuning of the feature node, src/nodes/feature_extraction_node.cpp: *)
(* the callback that rclcpp asks before it stores parameters.  A request   *)
(* is one parameter, or several that are set together or not at all.       *)
(*                                                                         *)
(* Of the filter's parameters only skip is kept; the others are treated    *)
(* alike.  A numeric parameter counts tenths: a decimal is taken for any   *)
(* of them, those of an int member included.                               *)
(***************************************************************************)
EXTENDS Integers

CONSTANTS
  Startup,   \* the parameters the node is launched with
  Requests,  \* parameters that are set, by name
  MaxSets    \* bound on requests

Names == {"Ntc", "Ngc", "Pfa", "rank", "alg", "skip"}

VARIABLES
  members,   \* ntc_, ngc_, pfa_, rank_, alg_, skip_
  detector,  \* detector_: the window and the rank it was built for
  declared,  \* the parameters as set, which rclcpp stores
  sets       \* requests so far

tuningVars == <<members, detector, declared, sets>>

\* static_cast<int> of a number of tenths: the decimals are cut off.
AsInt(v) == IF v >= 0 THEN v \div 10 ELSE -((-v) \div 10)

\* The members that stand for parameters p.
AsMembers(p) ==
  [n \in DOMAIN p |-> IF n \in {"Ntc", "Ngc", "rank", "skip"} THEN AsInt(p[n])
                                                             ELSE p[n]]

\* p with the values of a request in place of its own.
Overlay(request, p) ==
  [n \in Names |-> IF n \in DOMAIN request THEN request[n] ELSE p[n]]

\* The members once a request is read into them.
Staged(request) == Overlay(AsMembers(request), members)

\* A negative rank is the median.
RankOf(p) == IF p.rank < 0 THEN p.Ntc \div 2 ELSE p.rank

\* What the constructor of CFAR refuses.
Buildable(p) ==
  /\ p.Ntc % 2 = 0 /\ p.Ngc % 2 = 0
  /\ RankOf(p) \in 0 .. p.Ntc - 1
  /\ p.Pfa = "solvable"

Built(p) == [Ntc |-> p.Ntc, Ngc |-> p.Ngc, rank |-> RankOf(p)]

\* Only these are baked into the detector.
Rebuilds(request) == DOMAIN request \cap {"Ntc", "Ngc", "Pfa", "rank"} # {}

\* A request is taken unless it names an unknown algorithm or a detector that
\* cannot be built.
Accepted(request) ==
  /\ "alg" \in DOMAIN request => request["alg"] # "unknown"
  /\ Rebuilds(request) => Buildable(Staged(request))

\* A node whose parameters make no detector does not come up.
ASSUME TuningAssumption ==
  /\ DOMAIN Startup = Names /\ Startup = [n \in Names |-> Startup[n]]
  /\ Buildable(AsMembers(Startup))
  /\ \A request \in Requests : DOMAIN request \subseteq Names
  /\ MaxSets \in Nat

TuningInit ==
  /\ members = AsMembers(Startup) /\ declared = Startup
  /\ detector = Built(members)
  /\ sets = 0

\* Mutant: every member is assigned as its parameter is read.
SetParametersUnstaged(request) ==
  /\ sets < MaxSets /\ sets' = sets + 1
  /\ members' = Staged(request)
  /\ IF Accepted(request)
     THEN /\ detector' = IF Rebuilds(request) THEN Built(members') ELSE detector
          /\ declared' = Overlay(request, declared)
     ELSE UNCHANGED <<detector, declared>>

\* Everything is staged; the detector is built before the first assignment.
\* rclcpp then stores the request as it was made.
SetParameters(request) ==
  /\ sets < MaxSets /\ sets' = sets + 1
  /\ IF Accepted(request)
     THEN /\ members'  = Staged(request)
          /\ detector' = IF Rebuilds(request) THEN Built(members') ELSE detector
          /\ declared' = Overlay(request, declared)
     ELSE UNCHANGED <<members, detector, declared>>

\* After any sequence of requests, refused ones included, the node works with
\* what a relaunch with the stored parameters would work with: each member is
\* its parameter, cut to an int where it is one, and the detector is the one
\* the members describe.
TuningIsAtomic == members = AsMembers(declared) /\ detector = Built(members)
=============================================================================
