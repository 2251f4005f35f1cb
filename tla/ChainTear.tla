----------------------------- MODULE ChainTear -----------------------------
(***************************************************************************)
(* The chain-tear check of Slam::update_factor_graph.  After every round   *)
(* that inserted loop closures each link between consecutive keyframes is  *)
(* compared with what its factor measured; a round that tore a link is     *)
(* reverted.  A link that an absolute fix stretched must not veto every    *)
(* later round, so it is judged by a baseline kept across rounds.          *)
(*                                                                         *)
(* A tear is the ratio link_error_ratio computes, in units of which Bound, *)
(* Gate and Jitter are multiples.  What a solve makes of the links is a    *)
(* free choice.  A round that throws leaves everything as it was           *)
(* (SlamBackend has how) and is left out.                                  *)
(***************************************************************************)
EXTENDS Integers, Sequences

CONSTANTS
  LoadedKeys,  \* loaded_key_count_
  MaxLinks,    \* bound: the links of the chain that are followed
  MaxTear,     \* bound on the ratio of a link
  Bound,       \* post_loop_max_link_error_sigma
  Gate,        \* growth allowed beyond the bound (0.25 * Bound)
  Jitter       \* tear_jitter_eps

ASSUME TearAssumption ==
  /\ MaxLinks \in Nat /\ LoadedKeys \in 0 .. MaxLinks /\ MaxTear \in Nat
  /\ Bound \in Nat \ {0} /\ Gate \in Nat /\ Jitter \in Nat

VARIABLES
  tear,      \* link_error_ratio of the links; link k joins keys k - 1 and k
  baseline,  \* tear_baseline_, by link
  stretch    \* history: the worst a round without loops stretched the link to,
             \* since a converge-hard round last left it within the bound

tearVars == <<tear, baseline, stretch>>

TearLink == 1 .. MaxLinks
Within   == -1           \* the baseline of a link that has none

Larger(a, b) == IF a >= b THEN a ELSE b

\* A loaded map has no measured links, nor has the seam behind it.
Recorded(k) == k > LoadedKeys

\* What a solve can make of a chain of n links.
Estimates(n) ==
  {[k \in 1 .. n |-> IF Recorded(k) THEN t[k] ELSE 0] :
     t \in [(LoadedKeys + 1) .. n -> 0 .. MaxTear]}

\* relocalize has still to anchor the session in the loaded map.
Unlocated == Len(tear) < LoadedKeys

TearInit ==
  /\ tear = [k \in 1 .. Larger(LoadedKeys - 1, 0) |-> 0]
  /\ baseline = [k \in TearLink |-> Within]
  /\ stretch = [k \in TearLink |-> 0]

----------------------------------------------------------------------------
(* The rounds without loop closures: never judged.                         *)

\* Only a round that leaves a link worse than it was stretched it.
Stretched(est) ==
  [k \in TearLink |->
     IF k \in DOMAIN est /\ (k \in DOMAIN tear => est[k] > tear[k])
     THEN Larger(stretch[k], est[k]) ELSE stretch[k]]

\* A keyframe joins the chain, whose links behind the last one followed are
\* left out: one pass of the solver, no baseline is kept.
FrameRound ==
  /\ ~Unlocated
  /\ \E est \in Estimates(IF Len(tear) < MaxLinks THEN Len(tear) + 1
                           ELSE Len(tear)) :
       tear' = est /\ stretch' = Stretched(est)
  /\ UNCHANGED baseline

\* add_position_prior: it does not ask to converge hard, so no baseline is
\* kept either.
FixRound ==
  /\ ~Unlocated
  /\ \E est \in Estimates(Len(tear)) :
       tear' = est /\ stretch' = Stretched(est)
  /\ UNCHANGED baseline

\* The baseline after a converge-hard round: taken where a link is first
\* seen beyond the bound, dropped where it is back within it.
Maintained(est) ==
  [k \in TearLink |-> IF k \notin DOMAIN est \/ ~Recorded(k) THEN baseline[k]
                      ELSE IF est[k] <= Bound THEN Within
                      ELSE IF baseline[k] = Within THEN est[k] ELSE baseline[k]]

\* Links that a converge-hard round leaves within the bound start afresh.
Healed(s, est) ==
  [k \in TearLink |-> IF k \in DOMAIN est /\ est[k] <= Bound THEN 0 ELSE s[k]]

\* add_manual_correction, undo_manual_correction, and relocalize, which adds
\* the seam.
CorrectionRound ==
  \E est \in Estimates(IF Unlocated THEN LoadedKeys ELSE Len(tear)) :
    /\ tear' = est /\ baseline' = Maintained(est)
    /\ stretch' = Healed(Stretched(est), est)

----------------------------------------------------------------------------
(* A round with loop closures.                                             *)

\* Mutant: each round is judged against the one before.
ReferenceLast(k) == tear[k]

\* The tear a link is compared with.
Reference(k) == IF baseline[k] # Within THEN baseline[k] ELSE tear[k]

\* The links a solve tore.
Torn(est) ==
  {k \in DOMAIN est :
     /\ Recorded(k) /\ est[k] > Bound
     /\ est[k] > Reference(k) + (IF Reference(k) > Bound THEN Gate ELSE Jitter)}

\* The post-loop verification passes.
LoopsAccepted ==
  /\ ~Unlocated
  /\ \E est \in Estimates(Len(tear)) :
       /\ Torn(est) = {}
       /\ tear' = est /\ baseline' = Maintained(est)
       /\ stretch' = Healed(stretch, est)

\* The compass check or the chain-tear check fails: the poses are put back.
LoopsReverted == ~Unlocated /\ UNCHANGED tearVars

OtherRound == FrameRound \/ FixRound \/ CorrectionRound

LoopRound == LoopsAccepted \/ LoopsReverted

TearNext == OtherRound \/ LoopRound

TearSpec == TearInit /\ [][TearNext]_tearVars

----------------------------------------------------------------------------
(* Properties.                                                             *)

\* Every variable keeps its type.
TearTypeOK ==
  /\ tear \in Seq(Nat) /\ Len(tear) <= MaxLinks
  /\ baseline \in [TearLink -> Nat \cup {Within}]
  /\ stretch \in [TearLink -> Nat]

\* Aliases that each stay under the gate cannot ratchet the graph: however
\* many loop rounds are accepted, together they add at most two gates to what
\* other rounds stretched a link to, or a jitter and a gate to the bound.
RatchetBounded ==
  \A k \in DOMAIN tear :
    tear[k] <= Larger(Bound + Jitter, stretch[k] + Gate) + Gate

\* "a link is this round's fault only if it both breaks the bound AND is worse
\* than it already was" (update_factor_graph, above the check).
BlamedOnlyIfWorse ==
  \A est \in Estimates(Len(tear)) : \A k \in Torn(est) : est[k] > tear[k]
=============================================================================
