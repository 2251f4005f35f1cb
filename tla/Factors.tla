------------------------------ MODULE Factors ------------------------------
(***************************************************************************)
(* The factors of the pose graph, as src/core/slam_core.cpp builds them.   *)
(* A factor is known by what it constrains, never by its numbers: its      *)
(* kind, the newest keyframe it names, and ref, which is the target of a   *)
(* loop closure or the serial number of an absolute fix.                   *)
(***************************************************************************)
EXTENDS Integers, Sequences

CONSTANT MaxKeys  \* bound on keyframes.size()

Key    == 0 .. MaxKeys - 1
Kinds  == {"prior", "link", "unary", "anchor", "loop", "manual", "fix"}
Factor == [kind : Kinds, key : Key, ref : Nat]

\* A null entry of a factor graph (NonlinearFactorGraph::remove).
Hole == [kind |-> "hole", key |-> 0, ref |-> 0]

Make(kind, k, r) == [kind |-> kind, key |-> k, ref |-> r]
Prior(k)     == Make("prior", k, 0)   \* add_prior, the graph's anchor
Link(k)      == Make("link", k, 0)    \* between k - 1 and k
Unary(k)     == Make("unary", k, 0)   \* add_state_unary
Anchor(k)    == Make("anchor", k, 0)  \* the prior relocalize adds
Loop(s, t)   == Make("loop", s, t)    \* a loop closure from s onto t
Manual(k, n) == Make("manual", k, n)  \* the n-th hand correction
Fix(k, n)    == Make("fix", k, n)     \* the n-th USBL position prior

FactorsOf(s) == {s[i] : i \in DOMAIN s} \ {Hole}

\* The chain load_map rebuilds for the n keyframes of a map file: each key is
\* anchored or linked to its predecessor, then given its unary.
LoadedChain(n) ==
  [i \in 1 .. 2 * n |-> IF i = 1 THEN Prior(0)
                        ELSE IF i % 2 = 0 THEN Unary(i \div 2 - 1)
                        ELSE Link(i \div 2)]
=============================================================================
