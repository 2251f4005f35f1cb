----------------------------- MODULE UsblPriors -----------------------------
(***************************************************************************)
(* How SlamNode attaches an absolute position fix to a keyframe            *)
(* (src/nodes/slam_node.cpp, usbl_callback and dr_pose_at), on the times   *)
(* that Slam::is_keyframe admits keyframes at.                             *)
(*                                                                         *)
(* A pass counts the backward jumps of the clock (a replayed bag that      *)
(* loops), which the code does not see.  The factor that a fix adds and    *)
(* the round that solves it are PositionPrior of SlamBackend; here a prior *)
(* is which keyframe the fix was put on, and which keyframes its motion    *)
(* correction was interpolated from.  No map is loaded.                    *)
(***************************************************************************)
EXTENDS Integers, Sequences

CONSTANTS
  MaxDelta,     \* usbl_max_stamp_delta_
  KeyDuration,  \* keyframe_duration
  MaxLate,      \* frames and fixes arrive at most MaxLate after their stamp
  Horizon,      \* bound on stamps
  MaxKeys,      \* bound on keyframes
  MaxPasses     \* bound on passes

ASSUME UsblAssumption ==
  /\ MaxDelta \in Nat /\ KeyDuration \in Nat \ {0} /\ MaxLate \in Nat
  /\ Horizon \in Nat /\ MaxKeys \in Nat /\ MaxPasses \in Nat

VARIABLES
  now,        \* the clock
  pass,       \* the pass it is in
  keyframes,  \* slam_.keyframes: their times and passes, keys from 1
  applied,    \* usbl_applied_
  priors      \* what was added to the graph: [key, fix, pass, known, from]

vars == <<now, pass, keyframes, applied, priors>>

Stamp == 0 .. Horizon
Pass  == 0 .. MaxPasses

Init ==
  /\ now = 0 /\ pass = 0 /\ keyframes = <<>> /\ applied = {} /\ priors = {}

Gap(x, y) == IF x < y THEN y - x ELSE x - y

\* A message that arrives now may carry the stamp t.
Arriving(t) == t <= now /\ now - t <= MaxLate

----------------------------------------------------------------------------
(* Keyframes.                                                              *)

\* is_keyframe: the first frame, one that is older than the last keyframe,
\* or one a while after it; whether it then moved enough is a free choice.
IsKeyframe(t) ==
  keyframes # <<>> =>
    LET duration == t - keyframes[Len(keyframes)].time
    IN  duration < 0 \/ duration >= KeyDuration

\* The frames of a pass come in the order of their stamps.
NewKeyframe(t) ==
  /\ Arriving(t) /\ Len(keyframes) < MaxKeys
  /\ \A k \in DOMAIN keyframes :
       keyframes[k].pass = pass => keyframes[k].time <= t
  /\ IsKeyframe(t)
  /\ keyframes' = Append(keyframes, [time |-> t, pass |-> pass])
  /\ UNCHANGED <<now, pass, applied, priors>>

----------------------------------------------------------------------------
(* dr_pose_at: where on the dead-reckoned chain the vehicle was at t.      *)

\* Mutant: the search stops one interval too early.
DrPoseAtWide(t) ==
  LET times == [k \in DOMAIN keyframes |-> keyframes[k].time]
      n     == Len(keyframes)
      narrow[ends \in (1 .. n) \X (1 .. n)] ==
        LET lo == ends[1]  hi == ends[2]  mid == (lo + hi) \div 2
        IN  IF hi - lo <= 2 THEN IF times[lo] < t THEN {lo, hi} ELSE {lo}
            ELSE IF times[mid] <= t THEN narrow[<<mid, hi>>] ELSE narrow[<<lo, mid>>]
  IN  IF t <= times[1] THEN {1} ELSE IF t >= times[n] THEN {n} ELSE narrow[<<1, n>>]

\* The keyframes it interpolates between: one of the ends, or what a binary
\* search on the times narrows down to (its older end alone if t is there).
DrPoseAt(t) ==
  LET times == [k \in DOMAIN keyframes |-> keyframes[k].time]
      n     == Len(keyframes)
      narrow[ends \in (1 .. n) \X (1 .. n)] ==
        LET lo == ends[1]  hi == ends[2]  mid == (lo + hi) \div 2
        IN  IF hi - lo <= 1
            THEN IF times[lo] < t /\ times[lo] < times[hi] THEN {lo, hi} ELSE {lo}
            ELSE IF times[mid] <= t THEN narrow[<<mid, hi>>] ELSE narrow[<<lo, mid>>]
  IN  IF t <= times[1] THEN {1} ELSE IF t >= times[n] THEN {n} ELSE narrow[<<1, n>>]

----------------------------------------------------------------------------
(* usbl_callback.                                                          *)

\* The keyframes that the search from the newest down gets to: it breaks
\* after the first that is too old.
Searched(t) ==
  {k \in DOMAIN keyframes :
     \A j \in DOMAIN keyframes : j > k => keyframes[j].time >= t - MaxDelta}

\* Mutant: <= for <, an older keyframe takes over a match it only equals.
IsBestTies(k, t) ==
  LET near == {j \in Searched(t) : Gap(keyframes[j].time, t) < MaxDelta}
  IN  k \in near /\ \A j \in near :
        \/ Gap(keyframes[k].time, t) < Gap(keyframes[j].time, t)
        \/ Gap(keyframes[k].time, t) = Gap(keyframes[j].time, t) /\ k <= j

\* best: the closest one, and of those equally close the newest.
IsBest(k, t) ==
  LET near == {j \in Searched(t) : Gap(keyframes[j].time, t) < MaxDelta}
  IN  k \in near /\ \A j \in near :
        \/ Gap(keyframes[k].time, t) < Gap(keyframes[j].time, t)
        \/ Gap(keyframes[k].time, t) = Gap(keyframes[j].time, t) /\ j <= k

\* Mutant: the keyframe marked is one before the one matched.
UsblFixMarksBefore(t) ==
  /\ Arriving(t)
  /\ \E best \in DOMAIN keyframes :
       /\ IsBest(best, t) /\ best \notin applied
       /\ applied' = applied \cup {best - 1}
       /\ priors' = priors \cup
            {[key |-> best, fix |-> t, pass |-> pass, known |-> Len(keyframes),
              from |-> DrPoseAt(t) \cup DrPoseAt(keyframes[best].time)]}
  /\ UNCHANGED <<now, pass, keyframes>>

\* A fix with a match that is not taken yet, not an outlier, and solved; any
\* other leaves no trace but a counter.
UsblFix(t) ==
  /\ Arriving(t)
  /\ \E best \in DOMAIN keyframes :
       /\ IsBest(best, t) /\ best \notin applied
       /\ applied' = applied \cup {best}
       /\ priors' = priors \cup
            {[key |-> best, fix |-> t, pass |-> pass, known |-> Len(keyframes),
              from |-> DrPoseAt(t) \cup DrPoseAt(keyframes[best].time)]}
  /\ UNCHANGED <<now, pass, keyframes>>

----------------------------------------------------------------------------
(* The clock.                                                              *)

Tick ==
  /\ now < Horizon
  /\ now' = now + 1
  /\ UNCHANGED <<pass, keyframes, applied, priors>>

\* The bag loops; what was under way is lost with the old clock.
Rewind ==
  /\ pass < MaxPasses
  /\ now' = 0 /\ pass' = pass + 1
  /\ UNCHANGED <<keyframes, applied, priors>>

Next ==
  \/ \E t \in Stamp : NewKeyframe(t) \/ UsblFix(t)
  \/ Tick \/ Rewind

Spec == Init /\ [][Next]_vars

----------------------------------------------------------------------------
(* Properties.                                                             *)

\* Every variable keeps its type.
TypeOK ==
  /\ now \in Stamp /\ pass \in Pass
  /\ keyframes \in Seq([time : Stamp, pass : Pass]) /\ Len(keyframes) <= MaxKeys
  /\ applied \subseteq 1 .. MaxKeys
  /\ \A p \in priors :
       /\ p.key \in DOMAIN keyframes /\ p.known \in p.key .. Len(keyframes)
       /\ p.fix \in Stamp /\ p.pass \in Pass /\ p.from \subseteq 1 .. p.known

\* A keyframe gets one fix, however many come that match it, in whatever
\* order and in whichever pass ("one fix per keyframe", slam_node.cpp:1066).
OneFixPerKeyframe ==
  \A p, q \in priors : p.key = q.key => p = q

\* Of the keyframes of its own pass a fix takes none that is further than
\* another, and of two equally close ones anywhere the newer: a pass that
\* replays the stamps of an earlier one keeps its own matches.
NearestOfItsPass ==
  \A p \in priors : \A k \in 1 .. p.known :
    keyframes[k].pass = p.pass =>
      \/ Gap(keyframes[p.key].time, p.fix) < Gap(keyframes[k].time, p.fix)
      \/ Gap(keyframes[p.key].time, p.fix) = Gap(keyframes[k].time, p.fix)
         /\ k <= p.key

\* While the times of the chain ascend, no keyframe lies between those the
\* motion is interpolated from and the fix, or on the way to its keyframe.
MotionIsLocal ==
  \A p \in priors :
    (\A j, k \in 1 .. p.known : j < k => keyframes[j].time < keyframes[k].time) =>
      \A k \in 1 .. p.known \ p.from : \E j \in p.from :
        \/ keyframes[k].time < keyframes[j].time /\ keyframes[j].time <= p.fix
        \/ keyframes[k].time > keyframes[j].time /\ keyframes[j].time >= p.fix
=============================================================================
