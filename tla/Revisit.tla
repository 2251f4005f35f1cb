------------------------------ MODULE Revisit ------------------------------
(***************************************************************************)
(* Which earlier keyframes a loop closure is registered against            *)
(* (Slam::initialize_nonsequential_scan_matching).  The keyframes in the   *)
(* sonar fan of the newest one are mostly its own recent trail; tied to    *)
(* that, a pass is never tied to an earlier one.  And the clouds of two    *)
(* earlier visits must not be merged: they are as far out of register as   *)
(* the closure is to find out.                                             *)
(*                                                                         *)
(* near[k] is the number of points of keyframe k in the padded fan; what   *)
(* the global search and the overlap make of them is a free choice.        *)
(***************************************************************************)
EXTENDS Integers, FiniteSetsExt

CONSTANTS
  MinStSep,        \* nssm_params.min_st_sep
  MinRevisitSep,   \* nssm_params.min_revisit_sep
  RevisitGap,      \* kRevisitGap
  CandidatePoints, \* a candidate has more points than this in the fan (10)
  MinPoints,       \* nssm_params.min_points
  Initialization   \* nssm_params.initialization

ASSUME RevisitAssumption ==
  /\ MinStSep \in Nat \ {0} /\ MinRevisitSep \in Nat /\ RevisitGap \in Nat \ {0}
  /\ CandidatePoints \in Nat /\ MinPoints \in Nat /\ Initialization \in BOOLEAN

\* Every keyframe but the exclusion zone around the newest one.
TargetFrames(source) == 0 .. source - MinStSep

Points(near, frames) == MapThenSumSet(LAMBDA k : near[k], frames)

CandidateFrames(near) == {k \in DOMAIN near : near[k] > CandidatePoints}

\* The floor: candidates that are not the trail of this pass.
RevisitFrames(source, near) ==
  {k \in CandidateFrames(near) : source - k >= MinRevisitSep}

\* The first of each run of frames that no gap separates.
Begins(frames) ==
  {b \in frames : ~\E k \in frames : k < b /\ b - k <= RevisitGap}

Run(frames, b) ==
  {k \in frames : b <= k /\ ~\E c \in Begins(frames) : b < c /\ c <= k}

\* Mutant: the earlier form, which drops the newest run and merges the others.
EpisodesMerged(near, frames) ==
  LET old == Begins(frames) \ {Max(Begins(frames))}
  IN  IF old = {} THEN frames ELSE UNION {Run(frames, b) : b \in old}

\* The episode kept: of all runs but the newest, unless that is the only one,
\* the one with the most points in the fan, the oldest among equals.
Episode(near, frames) ==
  LET newest == Max(Begins(frames))
      begins == IF Begins(frames) = {newest} THEN {newest}
                ELSE Begins(frames) \ {newest}
      seen(b) == Points(near, Run(frames, b))
      most   == Max({seen(b) : b \in begins})
  IN  Run(frames, Min({b \in begins : seen(b) = most}))

\* The keyframe the factor may be attached to: the one with the most points
\* in the fan, or, after the global search, the one with the most overlap.
Targets(near, frames) ==
  IF Initialization THEN frames
  ELSE {Min({k \in frames : \A j \in frames : near[j] <= near[k]})}

\* The submaps and targets a search can come back with; none if it fails.
Found(source, near) ==
  LET revisits == RevisitFrames(source, near)
      episode  == Episode(near, revisits)
  IN  IF Points(near, DOMAIN near) < MinPoints \/ revisits = {} THEN {}
      ELSE IF Points(near, episode) < MinPoints THEN {}
      ELSE {[frames |-> episode, target |-> t] : t \in Targets(near, episode)}

----------------------------------------------------------------------------
(* What the selection promises, said of the frames and not of how they are *)
(* picked.                                                                 *)

\* Between two frames of an episode there is no gap.
Unbroken(frames) ==
  \A a, b \in frames :
    a < b => \E k \in frames : a < k /\ k <= a + RevisitGap

\* The submap is one earlier visit, whole: unbroken, no candidate left out
\* that belongs to it, not the tail of this pass when there is another, and
\* the factor goes to a frame of it that is old enough.
IsOneEpisode(source, near, found) ==
  LET revisits == RevisitFrames(source, near)
      newer(k) == \A f \in found.frames : k - f > RevisitGap
  IN  /\ found.frames # {} /\ found.frames \subseteq revisits
      /\ Unbroken(found.frames)
      /\ \A k \in revisits \ found.frames, f \in found.frames :
           k - f > RevisitGap \/ f - k > RevisitGap
      /\ found.frames # revisits => \E k \in revisits : newer(k)
      /\ found.target \in found.frames
      /\ source - found.target >= MinRevisitSep
=============================================================================
