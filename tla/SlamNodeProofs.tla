---------------------------- MODULE SlamNodeProofs ----------------------------
(***************************************************************************)
(* What the SLAM node does beside its callbacks.  USBL fixes: a keyframe   *)
(* gets one, and never from a fix of its pass that is further than another,*)
(* however often the clock jumps back, and the binary search ends next to  *)
(* the fix.  The cloud: no worker ever replaces a newer one by an older,   *)
(* whatever the periods are.                                               *)
(***************************************************************************)
EXTENDS UsblPriors, VizWorker, FiniteSetTheorems, WellFoundedInduction, TLAPS

----------------------------------------------------------------------------
(* UsblPriors.                                                             *)

\* The times of a pass ascend along the chain, and passes follow each other.
Ordered ==
  /\ now \in Stamp /\ pass \in Pass
  /\ keyframes \in Seq([time : Stamp, pass : Pass])
  /\ \A k \in DOMAIN keyframes : keyframes[k].pass <= pass
  /\ \A j, k \in DOMAIN keyframes : j < k =>
       /\ keyframes[j].pass <= keyframes[k].pass
       /\ keyframes[j].pass = keyframes[k].pass =>
            keyframes[j].time <= keyframes[k].time

\* A keyframe is marked if and only if it has a prior.
Marked ==
  /\ applied = {p.key : p \in priors}
  /\ \A p \in priors :
       p.known \in 0 .. Len(keyframes) /\ p.key \in 1 .. p.known /\ p.fix \in Stamp

FixInv == Ordered /\ Marked /\ OneFixPerKeyframe /\ NearestOfItsPass

----------------------------------------------------------------------------

\* What a keyframe of an ordered chain is made of.
LEMMA EntryTypes ==
  ASSUME Ordered, NEW k \in DOMAIN keyframes
  PROVE  k \in Int /\ keyframes[k].time \in Int /\ keyframes[k].pass \in Int
<1> DEFINE Entry == [time : Stamp, pass : Pass]
<1>1. keyframes \in Seq(Entry)
  BY DEF Ordered
<1> HIDE DEF Entry
<1>2. k \in 1 .. Len(keyframes) /\ keyframes[k] \in Entry /\ Len(keyframes) \in Nat
  BY <1>1
<1> USE DEF Entry
<1>3. keyframes[k].time \in Stamp /\ keyframes[k].pass \in Pass
  BY <1>2
<1> QED
  BY <1>2, <1>3 DEF Stamp, Pass

\* A keyframe of the pass the clock is in that the search does not get to is
\* too old: the one that ended the search is of that pass too.
LEMMA MissedIsTooOld ==
  ASSUME Ordered, NEW t \in Stamp, NEW k \in DOMAIN keyframes,
         keyframes[k].pass = pass, k \notin Searched(t)
  PROVE  keyframes[k].time < t - MaxDelta
<1>1. PICK j \in DOMAIN keyframes : j > k /\ ~(keyframes[j].time >= t - MaxDelta)
  BY DEF Searched
<1>2. /\ keyframes[j].time \in Int /\ keyframes[k].time \in Int
      /\ keyframes[j].pass \in Int /\ pass \in Int /\ t \in Int
      /\ j \in Int /\ k \in Int
  BY EntryTypes DEF Ordered, Stamp, Pass
<1>3. keyframes[j].pass = pass /\ keyframes[k].time <= keyframes[j].time
  BY <1>1, <1>2 DEF Ordered
<1> QED
  BY <1>1, <1>2, <1>3, UsblAssumption

\* The keyframe found is the nearest of the pass the clock is in.
LEMMA BestIsNearest ==
  ASSUME Ordered, NEW t \in Stamp, NEW best \in DOMAIN keyframes, IsBest(best, t),
         NEW k \in DOMAIN keyframes, keyframes[k].pass = pass
  PROVE  \/ Gap(keyframes[best].time, t) < Gap(keyframes[k].time, t)
         \/ Gap(keyframes[best].time, t) = Gap(keyframes[k].time, t) /\ k <= best
<1>1. /\ keyframes[k].time \in Int /\ keyframes[best].time \in Int /\ t \in Int
      /\ MaxDelta \in Nat
  BY EntryTypes, UsblAssumption DEF Stamp
<1>2. Gap(keyframes[best].time, t) < MaxDelta
  BY DEF IsBest
<1>3. CASE k \notin Searched(t)
  BY <1>1, <1>2, <1>3, MissedIsTooOld DEF Gap
<1>4. CASE k \in Searched(t) /\ Gap(keyframes[k].time, t) < MaxDelta
  BY <1>4 DEF IsBest
<1>5. CASE ~(Gap(keyframes[k].time, t) < MaxDelta)
  BY <1>1, <1>2, <1>5 DEF Gap
<1> QED
  BY <1>3, <1>4, <1>5

----------------------------------------------------------------------------

LEMMA FixInit == Init => FixInv
BY UsblAssumption
DEF Init, FixInv, Ordered, Marked, OneFixPerKeyframe, NearestOfItsPass, Stamp, Pass

\* A keyframe goes to the end of the chain; what the priors refer to stays.
LEMMA KeyframeKeepsInv ==
  ASSUME FixInv, NEW t \in Stamp, NewKeyframe(t)
  PROVE  FixInv'
<1> DEFINE new == [time |-> t, pass |-> pass]
<1>1. /\ keyframes \in Seq([time : Stamp, pass : Pass])
      /\ new \in [time : Stamp, pass : Pass]
      /\ keyframes' = Append(keyframes, new)
      /\ UNCHANGED <<now, pass, applied, priors>>
  BY DEF FixInv, Ordered, NewKeyframe
<1> HIDE DEF new
<1>2. /\ keyframes' \in Seq([time : Stamp, pass : Pass])
      /\ Len(keyframes') = Len(keyframes) + 1
      /\ Len(keyframes) \in Nat /\ DOMAIN keyframes = 1 .. Len(keyframes)
      /\ DOMAIN keyframes' = 1 .. Len(keyframes) + 1
      /\ \A k \in 1 .. Len(keyframes) : keyframes'[k] = keyframes[k]
      /\ keyframes'[Len(keyframes) + 1] = new
  BY <1>1
<1>3. Ordered'
  <2>1. now' \in Stamp /\ pass' \in Pass /\ pass' = pass /\ pass \in Int
    BY <1>1 DEF FixInv, Ordered, Pass
  <2>2. ASSUME NEW k \in DOMAIN keyframes'
        PROVE  keyframes'[k].pass <= pass'
    BY <1>2, <2>1 DEF FixInv, Ordered, new
  <2>3. ASSUME NEW j \in DOMAIN keyframes', NEW k \in DOMAIN keyframes', j < k
        PROVE  /\ keyframes'[j].pass <= keyframes'[k].pass
               /\ keyframes'[j].pass = keyframes'[k].pass =>
                    keyframes'[j].time <= keyframes'[k].time
    <3>1. j \in DOMAIN keyframes /\ keyframes'[j] = keyframes[j]
      BY <1>2, <2>3
    <3>2. CASE k \in DOMAIN keyframes
      BY <1>2, <2>3, <3>1, <3>2 DEF FixInv, Ordered
    <3>3. CASE k = Len(keyframes) + 1
      <4>1. keyframes'[k].time = t /\ keyframes'[k].pass = pass
        BY <1>2, <3>3 DEF new
      <4>2. /\ keyframes[j].pass <= pass
            /\ keyframes[j].pass = pass => keyframes[j].time <= t
        BY <3>1 DEF FixInv, Ordered, NewKeyframe
      <4> QED
        BY <3>1, <4>1, <4>2
    <3> QED
      BY <1>2, <3>2, <3>3
  <2> QED
    BY <1>2, <2>1, <2>2, <2>3 DEF Ordered
<1>4. Marked'
  BY <1>1, <1>2 DEF FixInv, Marked
<1>5. OneFixPerKeyframe'
  BY <1>1 DEF FixInv, OneFixPerKeyframe
<1>6. NearestOfItsPass'
  <2>1. ASSUME NEW p \in priors, NEW k \in 1 .. p.known
        PROVE  keyframes'[k] = keyframes[k] /\ keyframes'[p.key] = keyframes[p.key]
    BY <1>2 DEF FixInv, Marked
  <2> QED
    BY <1>1, <2>1 DEF FixInv, NearestOfItsPass
<1> QED
  BY <1>3, <1>4, <1>5, <1>6 DEF FixInv

\* The fix that is added is the only one on its keyframe, and near it.
LEMMA FixKeepsInv ==
  ASSUME FixInv, NEW t \in Stamp, UsblFix(t)
  PROVE  FixInv'
<1>1. PICK best \in DOMAIN keyframes :
        /\ IsBest(best, t) /\ best \notin applied
        /\ applied' = applied \cup {best}
        /\ priors' = priors \cup
             {[key |-> best, fix |-> t, pass |-> pass, known |-> Len(keyframes),
               from |-> DrPoseAt(t) \cup DrPoseAt(keyframes[best].time)]}
  BY DEF UsblFix
<1> DEFINE new == [key |-> best, fix |-> t, pass |-> pass, known |-> Len(keyframes),
                   from |-> DrPoseAt(t) \cup DrPoseAt(keyframes[best].time)]
<1>2. /\ new.key = best /\ new.fix = t /\ new.pass = pass
      /\ new.known = Len(keyframes)
      /\ priors' = priors \cup {new} /\ UNCHANGED <<now, pass, keyframes>>
  BY <1>1 DEF UsblFix
<1> HIDE DEF new
<1>3. Ordered'
  BY <1>2 DEF FixInv, Ordered
<1>4. Marked'
  <2>1. /\ DOMAIN keyframes = 1 .. Len(keyframes) /\ Len(keyframes) \in Nat
    BY DEF FixInv, Ordered
  <2>2. applied' = {p.key : p \in priors'}
    BY <1>1, <1>2 DEF FixInv, Marked
  <2> QED
    BY <1>2, <2>1, <2>2 DEF FixInv, Marked
<1>5. OneFixPerKeyframe'
  BY <1>1, <1>2 DEF FixInv, Marked, OneFixPerKeyframe
<1>6. NearestOfItsPass'
  <2>1. DOMAIN keyframes = 1 .. Len(keyframes)
    BY DEF FixInv, Ordered
  <2>2. ASSUME NEW p \in priors', NEW k \in 1 .. p.known,
               keyframes[k].pass = p.pass
        PROVE  \/ Gap(keyframes[p.key].time, p.fix) < Gap(keyframes[k].time, p.fix)
               \/ Gap(keyframes[p.key].time, p.fix) = Gap(keyframes[k].time, p.fix)
                  /\ k <= p.key
    <3>1. CASE p \in priors
      BY <2>2, <3>1 DEF FixInv, NearestOfItsPass
    <3>2. CASE p = new
      BY <1>1, <1>2, <2>1, <2>2, <3>2, BestIsNearest DEF FixInv
    <3> QED
      BY <1>2, <3>1, <3>2
  <2> QED
    BY <1>2, <2>2 DEF NearestOfItsPass, Gap
<1> QED
  BY <1>3, <1>4, <1>5, <1>6 DEF FixInv

\* The invariant holds in every reachable state.
THEOREM FixInvariant == Spec => []FixInv
<1>1. ASSUME FixInv, [Next]_vars
      PROVE  FixInv'
  <2>1. ASSUME NEW t \in Stamp, NewKeyframe(t) PROVE FixInv'
    BY <1>1, <2>1, KeyframeKeepsInv
  <2>2. ASSUME NEW t \in Stamp, UsblFix(t) PROVE FixInv'
    BY <1>1, <2>2, FixKeepsInv
  <2>3. CASE Tick
    BY <1>1, <2>3, UsblAssumption
    DEF Tick, FixInv, Ordered, Marked, OneFixPerKeyframe, NearestOfItsPass, Stamp
  <2>4. CASE Rewind
    <3>1. Ordered'
      <4>1. /\ now' \in Stamp /\ pass' \in Pass /\ keyframes' = keyframes
            /\ pass <= pass' /\ pass \in Int /\ pass' \in Int
        BY <1>1, <2>4, UsblAssumption DEF Rewind, FixInv, Ordered, Stamp, Pass
      <4>2. \A k \in DOMAIN keyframes :
              keyframes[k].pass \in Int /\ keyframes[k].pass <= pass
        BY <1>1, EntryTypes DEF FixInv, Ordered
      <4> QED
        BY <1>1, <4>1, <4>2 DEF FixInv, Ordered
    <3> QED
      BY <1>1, <2>4, <3>1
      DEF Rewind, FixInv, Marked, OneFixPerKeyframe, NearestOfItsPass
  <2>5. CASE UNCHANGED vars
    BY <1>1, <2>5
    DEF vars, FixInv, Ordered, Marked, OneFixPerKeyframe, NearestOfItsPass
  <2> QED
    BY <1>1, <2>1, <2>2, <2>3, <2>4, <2>5 DEF Next
<1> QED
  BY FixInit, <1>1, PTL DEF Spec

\* usbl_applied_ does what it is for: one fix per keyframe.
THEOREM OneFixEach == Spec => []OneFixPerKeyframe
<1>1. FixInv => OneFixPerKeyframe
  BY DEF FixInv
<1> QED
  BY FixInvariant, <1>1, PTL

\* Breaking off the search at the first keyframe that is too old is right
\* even if the times of the chain do not ascend.
THEOREM MatchesAreNearest == Spec => []NearestOfItsPass
<1>1. FixInv => NearestOfItsPass
  BY DEF FixInv
<1> QED
  BY FixInvariant, <1>1, PTL

----------------------------------------------------------------------------
(* The binary search of dr_pose_at.                                        *)

\* Every nonempty set of natural numbers has a least element.
LEMMA LeastOf ==
  ASSUME NEW T \in SUBSET Nat, T # {}
  PROVE  \E m \in T : \A k \in T : m <= k
<1> DEFINE Intervals == {0 .. m : m \in T}
<1>1. \A m \in T : (0 .. m) \in FiniteSubsetsOf(Nat)
  BY FS_Interval DEF FiniteSubsetsOf
<1>2. Intervals \subseteq FiniteSubsetsOf(Nat) /\ Intervals # {}
  BY <1>1
<1>3. PICK x \in Intervals : \A y \in Intervals : ~(<<y, x>> \in StrictSubsetOrdering(Nat))
  BY <1>2, WFMin, FS_StrictSubsetOrderingWellFounded
<1>4. PICK m \in T : x = 0 .. m
  OBVIOUS
<1>5. ASSUME NEW k \in T, k < m PROVE FALSE
  <2>1. 0 .. k \subseteq 0 .. m /\ m \in 0 .. m /\ m \notin 0 .. k
    BY <1>5
  <2>2. <<0 .. k, 0 .. m>> \in StrictSubsetOrdering(Nat)
    BY <2>1 DEF StrictSubsetOrdering
  <2> QED BY <1>3, <1>4, <2>2
<1> QED BY <1>5

\* Induction up to n, for a set in place of a predicate.
LEMMA UpTo ==
  ASSUME NEW n \in Nat, NEW T, 0 \in T, \A k \in 0 .. n - 1 : k \in T => k + 1 \in T
  PROVE  0 .. n \subseteq T
<1> DEFINE Bad == {k \in 0 .. n : k \notin T}
<1>1. ASSUME Bad # {} PROVE FALSE
  <2>1. PICK m \in Bad : \A k \in Bad : m <= k
    <3>1. Bad \in SUBSET Nat
      OBVIOUS
    <3> HIDE DEF Bad
    <3> QED BY <1>1, <3>1, LeastOf
  <2>2. m # 0 /\ m - 1 \in 0 .. n - 1 /\ m - 1 \notin Bad
    BY <2>1
  <2> QED BY <2>2
<1> QED BY <1>1

Middle(e) == (e[1] + e[2]) \div 2
OlderHalf(e)  == <<e[1], Middle(e)>>
NewerHalf(e)  == <<Middle(e), e[2]>>

\* One comparison of the search, given what its halves come to.
Halve(times, t, e, older, newer) ==
  IF e[2] - e[1] <= 1
  THEN IF times[e[1]] < t /\ times[e[1]] < times[e[2]] THEN {e[1], e[2]} ELSE {e[1]}
  ELSE IF times[Middle(e)] <= t THEN newer ELSE older

Searches(I, n, times, t) ==
  I = [e \in (1 .. n) \X (1 .. n) |-> Halve(times, t, e, I[OlderHalf(e)], I[NewerHalf(e)])]

\* Both halves are shorter.
LEMMA HalvesAreShorter ==
  ASSUME NEW n \in Nat, NEW e \in (1 .. n) \X (1 .. n), e[2] - e[1] > 1
  PROVE  /\ Middle(e) \in 1 .. n /\ e[1] < Middle(e) /\ Middle(e) < e[2]
         /\ OlderHalf(e) \in (1 .. n) \X (1 .. n) /\ NewerHalf(e) \in (1 .. n) \X (1 .. n)
         /\ OlderHalf(e)[1] = e[1] /\ OlderHalf(e)[2] = Middle(e)
         /\ NewerHalf(e)[1] = Middle(e) /\ NewerHalf(e)[2] = e[2]
<1> DEFINE a == e[1]
           b == e[2]
           m == (a + b) \div 2
<1>1. a \in 1 .. n /\ b \in 1 .. n /\ b - a > 1
  OBVIOUS
<1> HIDE DEF a, b
<1>2. m \in Int /\ 2 * m <= a + b /\ a + b < 2 * m + 2
  BY <1>1
<1> HIDE DEF m
<1>3. m \in 1 .. n /\ a < m /\ m < b
  BY <1>1, <1>2
<1>4. Middle(e) = m
  BY DEF Middle, m, a, b
<1>5. OlderHalf(e) = <<a, m>> /\ NewerHalf(e) = <<m, b>>
  BY <1>4 DEF OlderHalf, NewerHalf, a, b
<1>6. e[1] = a /\ e[2] = b
  BY DEF a, b
<1> QED BY <1>1, <1>3, <1>4, <1>5, <1>6

\* The recursion has a solution.
LEMMA SearchUnfolds ==
  ASSUME NEW n \in Nat, NEW times, NEW t
  PROVE  \E I : Searches(I, n, times, t)
<1> DEFINE Ends    == (1 .. n) \X (1 .. n)
           Short(k) == {e \in Ends : e[2] - e[1] <= k + 1}
           Step(e, o, r) == Halve(times, t, e, o, r)
           Fold(I, k) == I = [e \in Short(k) |-> Step(e, I[OlderHalf(e)], I[NewerHalf(e)])]
           Good == {k \in 0 .. n : \E I : Fold(I, k)}
<1>1. \A e \in Ends : e[1] \in 1 .. n /\ e[2] \in 1 .. n
  OBVIOUS
<1>2. \A e \in Ends : ~(e[2] - e[1] <= 1) =>
        /\ e[1] < Middle(e) /\ Middle(e) < e[2] /\ Middle(e) \in 1 .. n
        /\ OlderHalf(e) \in Ends /\ OlderHalf(e)[1] = e[1] /\ OlderHalf(e)[2] = Middle(e)
        /\ NewerHalf(e) \in Ends /\ NewerHalf(e)[1] = Middle(e) /\ NewerHalf(e)[2] = e[2]
  <2> SUFFICES ASSUME NEW e \in Ends, ~(e[2] - e[1] <= 1)
               PROVE  /\ e[1] < Middle(e) /\ Middle(e) < e[2] /\ Middle(e) \in 1 .. n
                      /\ OlderHalf(e) \in Ends /\ OlderHalf(e)[1] = e[1] /\ OlderHalf(e)[2] = Middle(e)
                      /\ NewerHalf(e) \in Ends /\ NewerHalf(e)[1] = Middle(e) /\ NewerHalf(e)[2] = e[2]
    OBVIOUS
  <2>1. e[2] - e[1] > 1
    BY <1>1
  <2> QED BY <2>1, HalvesAreShorter
<1>3. \A e \in Ends : e[2] - e[1] <= 1 => \A o, r, p, q : Step(e, o, r) = Step(e, p, q)
  BY DEF Halve
<1> HIDE DEF Ends, Step
<1>4. ASSUME NEW k \in 0 .. n - 1, NEW e \in Short(k + 1), ~(e[2] - e[1] <= 1)
      PROVE  OlderHalf(e) \in Short(k) /\ NewerHalf(e) \in Short(k)
  <2>1. e \in Ends /\ e[1] \in Int /\ e[2] \in Int /\ Middle(e) \in Int /\ e[2] - e[1] <= k + 2
    BY <1>1, <1>2, <1>4
  <2>2. Middle(e) - e[1] <= k + 1 /\ e[2] - Middle(e) <= k + 1
    BY <1>2, <1>4, <2>1
  <2> QED BY <1>2, <1>4, <2>1, <2>2
<1>5. \A k \in 0 .. n - 1 : Short(k) \subseteq Short(k + 1)
  BY <1>1
<1>6. Short(n) = Ends
  BY <1>1
<1>7. \A k \in 0 .. n : \A e \in Short(k) : e \in Ends
  OBVIOUS
<1>8. \A e \in Short(0) : e[2] - e[1] <= 1
  OBVIOUS
<1> HIDE DEF Short
<1>9. ASSUME NEW I, NEW k \in 0 .. n - 1, Fold(I, k)
      PROVE  Fold([e \in Short(k + 1) |-> Step(e, I[OlderHalf(e)], I[NewerHalf(e)])], k + 1)
  <2> DEFINE J == [e \in Short(k + 1) |-> Step(e, I[OlderHalf(e)], I[NewerHalf(e)])]
  <2>1. \A e \in Short(k) : J[e] = I[e]
    BY <1>5, <1>9
  <2>2. ASSUME NEW e \in Short(k + 1)
        PROVE  Step(e, I[OlderHalf(e)], I[NewerHalf(e)]) = Step(e, J[OlderHalf(e)], J[NewerHalf(e)])
    <3> HIDE DEF J
    <3>1. CASE e[2] - e[1] <= 1
      BY <1>3, <1>7, <3>1
    <3>2. CASE ~(e[2] - e[1] <= 1)
      <4>1. J[OlderHalf(e)] = I[OlderHalf(e)] /\ J[NewerHalf(e)] = I[NewerHalf(e)]
        BY <1>4, <2>1, <3>2
      <4> QED BY <4>1
    <3> QED BY <3>1, <3>2
  <2> QED BY <2>2
<1>10. \E I : Fold(I, 0)
  <2> DEFINE J == [e \in Short(0) |-> Step(e, 0, 0)]
  <2>1. \A e \in Short(0) : Step(e, 0, 0) = Step(e, J[OlderHalf(e)], J[NewerHalf(e)])
    BY <1>3, <1>7, <1>8
  <2>2. Fold(J, 0)
    BY <2>1
  <2> QED BY <2>2
<1>11. 0 .. n \subseteq Good
  <2> HIDE DEF Fold
  <2>1. 0 \in Good
    BY <1>10
  <2>2. ASSUME NEW k \in 0 .. n - 1, k \in Good PROVE k + 1 \in Good
    <3>1. \E I : Fold(I, k + 1)
      BY <1>9, <2>2
    <3> QED BY <3>1
  <2> HIDE DEF Good
  <2> QED BY <2>1, <2>2, UpTo
<1>12. \E I : Fold(I, n)
  <2> HIDE DEF Fold
  <2> QED BY <1>11
<1> QED BY <1>6, <1>12 DEF Searches, Step, Ends

\* The keyframes around t, or the one at t.
Around(times, t, n, out) ==
  \E lo \in 1 .. n - 1 :
    /\ times[lo] <= t /\ t < times[lo + 1]
    /\ out = IF times[lo] < t THEN {lo, lo + 1} ELSE {lo}

\* If t lies between the times at the ends, the search comes to the keyframes
\* around it, whatever the times between are.
LEMMA SearchIs ==
  ASSUME NEW n \in Nat, NEW times \in [1 .. n -> Int], NEW t \in Int,
         NEW I, Searches(I, n, times, t), n > 1, times[1] <= t, t < times[n]
  PROVE  Around(times, t, n, I[<<1, n>>])
<1> DEFINE Ends     == (1 .. n) \X (1 .. n)
           Holds(e) == e[1] < e[2] /\ times[e[1]] <= t /\ t < times[e[2]]
           Short(k) == {e \in Ends : e[2] - e[1] <= k + 1 /\ Holds(e)}
           Good     == {k \in 0 .. n : \A e \in Short(k) : Around(times, t, n, I[e])}
<1>1. \A e \in Ends : e[1] \in 1 .. n /\ e[2] \in 1 .. n
  OBVIOUS
<1>2. \A e \in Ends : I[e] = Halve(times, t, e, I[OlderHalf(e)], I[NewerHalf(e)])
  BY DEF Searches
<1>3. \A i \in 1 .. n : times[i] \in Int
  OBVIOUS
<1>4. ASSUME NEW e \in Ends, Holds(e), e[2] - e[1] <= 1 PROVE Around(times, t, n, I[e])
  <2> DEFINE lo == e[1]
  <2>1. lo \in 1 .. n /\ e[2] \in 1 .. n /\ lo < e[2] /\ times[lo] <= t /\ t < times[e[2]]
    BY <1>1, <1>4
  <2>2. I[e] = IF times[lo] < t /\ times[lo] < times[e[2]] THEN {lo, e[2]} ELSE {lo}
    BY <1>2, <1>4 DEF Halve
  <2>3. e[2] - lo <= 1
    BY <1>4
  <2> HIDE DEF lo
  <2>4. lo \in 1 .. n - 1 /\ e[2] = lo + 1
    BY <2>1, <2>3
  <2>5. times[lo] \in Int /\ times[lo + 1] \in Int
    BY <1>3, <2>1, <2>4
  <2>6. times[lo] < times[lo + 1] /\ times[lo] <= t /\ t < times[lo + 1]
    BY <2>1, <2>4, <2>5
  <2>7. I[e] = IF times[lo] < t THEN {lo, lo + 1} ELSE {lo}
    BY <2>2, <2>4, <2>6
  <2> QED BY <2>4, <2>6, <2>7 DEF Around
<1>5. 0 \in Good
  BY <1>4
<1>6. ASSUME NEW k \in 0 .. n - 1, k \in Good PROVE k + 1 \in Good
  <2> SUFFICES ASSUME NEW e \in Short(k + 1), ~(e[2] - e[1] <= 1)
               PROVE  Around(times, t, n, I[e])
    BY <1>4
  <2>1. e \in Ends /\ Holds(e) /\ e[1] \in 1 .. n /\ e[2] \in 1 .. n /\ e[2] - e[1] <= k + 2
    BY <1>1
  <2>2. /\ Middle(e) \in 1 .. n /\ e[1] < Middle(e) /\ Middle(e) < e[2]
        /\ OlderHalf(e) \in Ends /\ NewerHalf(e) \in Ends
        /\ OlderHalf(e)[1] = e[1] /\ OlderHalf(e)[2] = Middle(e)
        /\ NewerHalf(e)[1] = Middle(e) /\ NewerHalf(e)[2] = e[2]
    <3>1. e[2] - e[1] > 1
      BY <2>1
    <3> QED BY <2>1, <3>1, HalvesAreShorter
  <2>3. Middle(e) - e[1] <= k + 1 /\ e[2] - Middle(e) <= k + 1
    BY <2>1, <2>2
  <2>4. times[Middle(e)] \in Int
    BY <1>3, <2>2
  <2>5. CASE times[Middle(e)] <= t
    <3>1. NewerHalf(e) \in Short(k)
      BY <2>1, <2>2, <2>3, <2>5
    <3>2. I[e] = I[NewerHalf(e)]
      BY <1>2, <2>1, <2>5 DEF Halve
    <3> QED BY <1>6, <3>1, <3>2
  <2>6. CASE ~(times[Middle(e)] <= t)
    <3>1. t < times[Middle(e)]
      BY <2>4, <2>6
    <3>2. OlderHalf(e) \in Short(k)
      BY <2>1, <2>2, <2>3, <3>1
    <3>3. I[e] = I[OlderHalf(e)]
      BY <1>2, <2>1, <2>6 DEF Halve
    <3> QED BY <1>6, <3>2, <3>3
  <2> QED BY <2>5, <2>6
<1>7. n \in Good
  <2> HIDE DEF Good
  <2>1. \A k \in 0 .. n - 1 : k \in Good => k + 1 \in Good
    BY <1>6
  <2>2. 0 .. n \subseteq Good
    BY <1>5, <2>1, UpTo
  <2> QED BY <2>2
<1>8. <<1, n>> \in Short(n)
  OBVIOUS
<1> QED BY <1>7, <1>8

\* No keyframe lies between those of out and t.
Closest(times, t, n, out) ==
  \A k \in (1 .. n) \ out : \E j \in out :
    \/ times[k] < times[j] /\ times[j] <= t
    \/ times[k] > times[j] /\ times[j] >= t

LEMMA AroundIsClosest ==
  ASSUME NEW n \in Nat, NEW times \in [1 .. n -> Int], NEW t \in Int, NEW out,
         Around(times, t, n, out), \A j, k \in 1 .. n : j < k => times[j] < times[k]
  PROVE  Closest(times, t, n, out)
<1>1. PICK lo \in 1 .. n - 1 :
        /\ times[lo] <= t /\ t < times[lo + 1]
        /\ out = IF times[lo] < t THEN {lo, lo + 1} ELSE {lo}
  BY DEF Around
<1>2. lo \in 1 .. n /\ lo + 1 \in 1 .. n /\ \A k \in 1 .. n : times[k] \in Int
  OBVIOUS
<1>3. ASSUME NEW k \in (1 .. n) \ out
      PROVE  \E j \in out : \/ times[k] < times[j] /\ times[j] <= t
                            \/ times[k] > times[j] /\ times[j] >= t
  <2>1. lo \in out
    BY <1>1
  <2>2. CASE k < lo
    <3>1. times[k] < times[lo]
      BY <1>2, <2>2
    <3> QED BY <1>1, <2>1, <3>1
  <2>3. CASE ~(k < lo)
    <3>1. k # lo /\ k > lo
      BY <2>1, <2>3
    <3>2. CASE times[lo] < t
      <4>1. lo + 1 \in out
        BY <1>1, <3>2
      <4>2. k > lo + 1
        BY <3>1, <4>1
      <4>3. times[lo + 1] < times[k] /\ times[lo + 1] \in Int /\ times[k] \in Int
        BY <1>2, <4>2
      <4> QED BY <1>1, <4>1, <4>3
    <3>3. CASE ~(times[lo] < t)
      <4>1. times[lo] \in Int /\ times[k] \in Int /\ times[lo] < times[k]
        BY <1>2, <3>1
      <4> QED BY <2>1, <3>3, <4>1
    <3> QED BY <3>2, <3>3
  <2> QED BY <2>2, <2>3
<1> QED BY <1>3 DEF Closest

KeyTimes == [k \in DOMAIN keyframes |-> keyframes[k].time]

\* What dr_pose_at interpolates between is closest to t if the times ascend.
LEMMA PoseIsLocal ==
  ASSUME Ordered, Len(keyframes) > 0, NEW t \in Int
  PROVE  /\ DrPoseAt(t) \subseteq 1 .. Len(keyframes)
         /\ (\A j, k \in 1 .. Len(keyframes) : j < k => keyframes[j].time < keyframes[k].time)
              => Closest(KeyTimes, t, Len(keyframes), DrPoseAt(t))
<1> DEFINE n == Len(keyframes)
           I == CHOOSE J : Searches(J, n, KeyTimes, t)
           times == KeyTimes
           Climbs == \A j, k \in 1 .. n : j < k => times[j] < times[k]
<1>1. n \in Nat /\ DOMAIN keyframes = 1 .. n /\ n > 0
  BY DEF Ordered
<1>2. KeyTimes \in [1 .. n -> Int] /\ \A k \in 1 .. n : KeyTimes[k] = keyframes[k].time
  BY <1>1, EntryTypes DEF KeyTimes
<1>3. DrPoseAt(t) = IF t <= KeyTimes[1] THEN {1}
                    ELSE IF t >= KeyTimes[n] THEN {n} ELSE I[<<1, n>>]
  BY DEF DrPoseAt, Searches, Halve, Middle, OlderHalf, NewerHalf, KeyTimes
<1>4. Searches(I, n, times, t)
  BY <1>1, SearchUnfolds
<1>5. (\A j, k \in 1 .. n : j < k => keyframes[j].time < keyframes[k].time) => Climbs
  BY <1>2
<1> HIDE DEF I, n
<1>6. times \in [1 .. n -> Int] /\ \A k \in 1 .. n : times[k] \in Int
  BY <1>2
<1>7. DrPoseAt(t) = IF t <= times[1] THEN {1} ELSE IF t >= times[n] THEN {n} ELSE I[<<1, n>>]
  BY <1>3
<1> HIDE DEF times
<1>8. 1 \in 1 .. n /\ n \in 1 .. n /\ times[1] \in Int /\ times[n] \in Int
  BY <1>1, <1>6
<1>9. DrPoseAt(t) \subseteq 1 .. n /\ (Climbs => Closest(times, t, n, DrPoseAt(t)))
  <2>1. CASE t <= times[1]
    <3>1. DrPoseAt(t) = {1}
      BY <1>7, <2>1
    <3>2. Climbs => \A k \in (1 .. n) \ {1} : times[k] > times[1] /\ times[1] >= t
      BY <1>1, <1>6, <1>8, <2>1
    <3>3. Climbs => Closest(times, t, n, {1})
      BY <3>2 DEF Closest
    <3> QED BY <1>8, <3>1, <3>3
  <2>2. CASE ~(t <= times[1]) /\ t >= times[n]
    <3>1. DrPoseAt(t) = {n}
      BY <1>7, <2>2
    <3>2. Climbs => \A k \in (1 .. n) \ {n} : times[k] < times[n] /\ times[n] <= t
      BY <1>1, <1>6, <1>8, <2>2
    <3>3. Climbs => Closest(times, t, n, {n})
      BY <3>2 DEF Closest
    <3> QED BY <1>8, <3>1, <3>3
  <2>3. CASE ~(t <= times[1]) /\ ~(t >= times[n])
    <3>1. times[1] <= t /\ t < times[n] /\ n > 1
      <4>1. n # 1
        BY <1>8, <2>3
      <4> QED BY <1>1, <1>8, <2>3, <4>1
    <3>2. DrPoseAt(t) = I[<<1, n>>]
      BY <1>7, <2>3
    <3>3. Around(times, t, n, I[<<1, n>>])
      BY <1>1, <1>4, <1>6, <3>1, SearchIs
    <3>4. I[<<1, n>>] \subseteq 1 .. n
      BY <1>1, <3>3 DEF Around
    <3>5. Climbs => Closest(times, t, n, I[<<1, n>>])
      BY <1>1, <1>6, <3>3, AroundIsClosest
    <3> QED BY <3>2, <3>4, <3>5
  <2> QED BY <2>1, <2>2, <2>3
<1> HIDE DEF Climbs
<1> QED BY <1>5, <1>9 DEF n, times

LocalInv ==
  /\ FixInv /\ MotionIsLocal
  /\ \A p \in priors : p.known \in 1 .. Len(keyframes) /\ p.from \subseteq 1 .. p.known

\* Keyframes that are added do not move what a prior was made from.
LEMMA KeyframeKeepsLocal ==
  ASSUME LocalInv, NEW t \in Stamp, NewKeyframe(t)
  PROVE  LocalInv'
<1>1. /\ keyframes \in Seq([time : Stamp, pass : Pass]) /\ priors' = priors
      /\ keyframes' = Append(keyframes, [time |-> t, pass |-> pass])
  BY DEF LocalInv, FixInv, Ordered, NewKeyframe
<1>2. /\ Len(keyframes) \in Nat /\ Len(keyframes') = Len(keyframes) + 1
      /\ \A k \in 1 .. Len(keyframes) : keyframes'[k] = keyframes[k]
  BY <1>1
<1>3. \A p \in priors : p.known \in 1 .. Len(keyframes') /\ p.from \subseteq 1 .. p.known
  BY <1>2 DEF LocalInv
<1>4. \A p \in priors : \A k \in 1 .. p.known : keyframes'[k] = keyframes[k]
  BY <1>2 DEF LocalInv
<1>5. MotionIsLocal'
  <2> SUFFICES ASSUME NEW p \in priors,
                      \A j, k \in 1 .. p.known : j < k => keyframes'[j].time < keyframes'[k].time,
                      NEW k \in (1 .. p.known) \ p.from
               PROVE  \E j \in p.from :
                        \/ keyframes'[k].time < keyframes'[j].time /\ keyframes'[j].time <= p.fix
                        \/ keyframes'[k].time > keyframes'[j].time /\ keyframes'[j].time >= p.fix
    BY <1>1 DEF MotionIsLocal
  <2>1. \A i, j \in 1 .. p.known : i < j => keyframes[i].time < keyframes[j].time
    BY <1>4
  <2>2. PICK j \in p.from :
          \/ keyframes[k].time < keyframes[j].time /\ keyframes[j].time <= p.fix
          \/ keyframes[k].time > keyframes[j].time /\ keyframes[j].time >= p.fix
    BY <2>1 DEF LocalInv, MotionIsLocal
  <2>3. keyframes'[j] = keyframes[j] /\ keyframes'[k] = keyframes[k]
    BY <1>3, <1>4
  <2> QED BY <2>2, <2>3
<1>6. FixInv'
  BY KeyframeKeepsInv DEF LocalInv
<1> QED BY <1>1, <1>3, <1>5, <1>6 DEF LocalInv

\* A fix is moved by what dr_pose_at says of its time and its keyframe's.
LEMMA FixKeepsLocal ==
  ASSUME LocalInv, NEW t \in Stamp, UsblFix(t)
  PROVE  LocalInv'
<1>1. PICK best \in DOMAIN keyframes :
        priors' = priors \cup
             {[key |-> best, fix |-> t, pass |-> pass, known |-> Len(keyframes),
               from |-> DrPoseAt(t) \cup DrPoseAt(keyframes[best].time)]}
  BY DEF UsblFix
<1> DEFINE new == [key |-> best, fix |-> t, pass |-> pass, known |-> Len(keyframes),
                   from |-> DrPoseAt(t) \cup DrPoseAt(keyframes[best].time)]
           n == Len(keyframes)
<1>2. /\ new.fix = t /\ new.known = n
      /\ new.from = DrPoseAt(t) \cup DrPoseAt(keyframes[best].time)
      /\ priors' = priors \cup {new} /\ keyframes' = keyframes
  BY <1>1 DEF UsblFix
<1> HIDE DEF new
<1>3. Ordered /\ n \in Nat /\ DOMAIN keyframes = 1 .. n /\ n > 0 /\ t \in Int
  BY DEF LocalInv, FixInv, Ordered, Stamp
<1>4. keyframes[best].time \in Int
  BY <1>3, EntryTypes
<1>5. new.known \in 1 .. n /\ new.from \subseteq 1 .. n
  BY <1>2, <1>3, <1>4, PoseIsLocal
<1>6. (\A j, k \in 1 .. n : j < k => keyframes[j].time < keyframes[k].time)
        => Closest(KeyTimes, t, n, DrPoseAt(t))
  BY <1>3, PoseIsLocal
<1>7. \A k \in 1 .. n : KeyTimes[k] = keyframes[k].time
  BY <1>3 DEF KeyTimes
<1>8. ASSUME \A j, k \in 1 .. n : j < k => keyframes[j].time < keyframes[k].time,
             NEW k \in (1 .. n) \ new.from
      PROVE  \E j \in new.from :
               \/ keyframes[k].time < keyframes[j].time /\ keyframes[j].time <= t
               \/ keyframes[k].time > keyframes[j].time /\ keyframes[j].time >= t
  <2>1. k \in (1 .. n) \ DrPoseAt(t)
    BY <1>2
  <2>2. PICK j \in DrPoseAt(t) : \/ KeyTimes[k] < KeyTimes[j] /\ KeyTimes[j] <= t
                                 \/ KeyTimes[k] > KeyTimes[j] /\ KeyTimes[j] >= t
    BY <1>6, <1>8, <2>1 DEF Closest
  <2>3. j \in new.from /\ j \in 1 .. n
    BY <1>2, <1>5
  <2> QED BY <1>7, <2>2, <2>3
<1>9. MotionIsLocal'
  <2> SUFFICES ASSUME NEW p \in priors',
                      \A j, k \in 1 .. p.known : j < k => keyframes[j].time < keyframes[k].time
               PROVE  \A k \in (1 .. p.known) \ p.from : \E j \in p.from :
                        \/ keyframes[k].time < keyframes[j].time /\ keyframes[j].time <= p.fix
                        \/ keyframes[k].time > keyframes[j].time /\ keyframes[j].time >= p.fix
    BY <1>2 DEF MotionIsLocal
  <2>1. CASE p \in priors
    BY <2>1 DEF LocalInv, MotionIsLocal
  <2>2. CASE p = new
    <3>1. p.known = n /\ p.fix = t /\ p.from = new.from
      BY <1>2, <2>2
    <3> HIDE DEF n
    <3> QED BY <1>8, <3>1
  <2> QED BY <1>2, <2>1, <2>2
<1>10. \A p \in priors' : p.known \in 1 .. Len(keyframes') /\ p.from \subseteq 1 .. p.known
  BY <1>2, <1>5 DEF LocalInv
<1>11. FixInv'
  BY FixKeepsInv DEF LocalInv
<1> QED BY <1>9, <1>10, <1>11 DEF LocalInv

\* The motion between a fix and its keyframe is interpolated between the
\* keyframes next to the fix, as long as the times of the chain ascend: what the
\* binary search is for.
THEOREM MotionIsFromNextTo == Spec => []MotionIsLocal
<1>1. Init => LocalInv
  BY FixInit DEF Init, LocalInv, MotionIsLocal
<1>2. ASSUME LocalInv, FixInv', [Next]_vars PROVE LocalInv'
  <2>1. ASSUME NEW t \in Stamp, NewKeyframe(t) PROVE LocalInv'
    BY <1>2, <2>1, KeyframeKeepsLocal
  <2>2. ASSUME NEW t \in Stamp, UsblFix(t) PROVE LocalInv'
    BY <1>2, <2>2, FixKeepsLocal
  <2>3. CASE Tick \/ Rewind \/ UNCHANGED vars
    <3>1. UNCHANGED <<keyframes, priors>>
      BY <2>3 DEF Tick, Rewind, vars
    <3> QED BY <1>2, <3>1 DEF LocalInv, MotionIsLocal
  <2> QED BY <1>2, <2>1, <2>2, <2>3 DEF Next
<1>3. LocalInv => MotionIsLocal
  BY DEF LocalInv
<1> QED BY FixInvariant, <1>1, <1>2, <1>3, PTL DEF Spec

----------------------------------------------------------------------------
(* VizWorker.                                                              *)

\* At most one thread, and only while the flag is set; it draws a state that
\* is not older than what was drawn, which is not older than what is cached.
OrderInv ==
  /\ version \in Nat /\ built \in Nat /\ cached \in Nat
  /\ cached <= built /\ built <= version
  /\ ~busy => threads = {}
  /\ \A v, w \in threads : v = w
  /\ \A w \in threads :
       /\ w \in [snap : Nat, at : {"build", "sent", "done"}]
       /\ built <= w.snap /\ w.snap <= version
       /\ w.at = "sent" => w.snap = built

\* The thread gets on with its work.
LEMMA ThreadGetsOn ==
  ASSUME OrderInv, NEW w \in threads, NEW to \in {"sent", "done"},
         threads' = (threads \ {w}) \cup {[w EXCEPT !.at = to]},
         UNCHANGED <<version, busy>>, built' \in Nat, cached' \in Nat,
         cached' <= built', built <= built', built' <= w.snap,
         to = "sent" => built' = w.snap
  PROVE  OrderInv'
<1> DEFINE moved == [w EXCEPT !.at = to]
<1>1. /\ w \in [snap : Nat, at : {"build", "sent", "done"}]
      /\ built <= w.snap /\ w.snap <= version /\ threads = {w}
      /\ version \in Nat /\ busy
  BY DEF OrderInv
<1>2. /\ moved \in [snap : Nat, at : {"build", "sent", "done"}]
      /\ moved.snap = w.snap /\ moved.at = to /\ w.snap \in Nat
  BY <1>1
<1> HIDE DEF moved
<1>3. \A x \in threads' : x = moved
  BY <1>1 DEF moved
<1>4. built' <= version' /\ moved.snap <= version' /\ version' \in Nat /\ busy'
  BY <1>1, <1>2
<1> QED
  BY <1>2, <1>3, <1>4 DEF OrderInv

\* A step of the drawing keeps the order.
LEMMA StepKeepsOrder ==
  ASSUME OrderInv, [VizNext]_vizVars
  PROVE  OrderInv' /\ built' >= built /\ cached' >= cached
<1>1. ASSUME version' = version + 1, Schedule, UNCHANGED <<built, cached>>
      PROVE  OrderInv' /\ built' >= built /\ cached' >= cached
  <2>1. CASE busy
    BY <1>1, <2>1 DEF Schedule, OrderInv
  <2>2. CASE ~busy
    BY <1>1, <2>2 DEF Schedule, OrderInv
  <2> QED
    BY <2>1, <2>2
<1>2. CASE Keyframe
  <2>1. CASE Schedule
    BY <1>1, <1>2, <2>1 DEF Keyframe
  <2>2. CASE UNCHANGED <<busy, threads, vizAge>>
    BY <1>2, <2>2 DEF Keyframe, OrderInv
  <2> QED
    BY <1>2, <2>1, <2>2 DEF Keyframe
<1>3. CASE Correct
  BY <1>1, <1>3 DEF Correct
<1>4. ASSUME NEW w \in threads, DrawNothing(w)
      PROVE  OrderInv' /\ built' >= built /\ cached' >= cached
  <2>1. built \in Nat /\ cached \in Nat /\ cached <= built /\ built <= w.snap
    BY DEF OrderInv
  <2> QED
    BY <1>4, <2>1, ThreadGetsOn DEF DrawNothing
<1>5. ASSUME NEW w \in threads, Draw(w)
      PROVE  OrderInv' /\ built' >= built /\ cached' >= cached
  <2>1. /\ built \in Nat /\ cached \in Nat /\ cached <= built
        /\ built <= w.snap /\ w.snap \in Nat
    BY DEF OrderInv
  <2> QED
    BY <1>5, <2>1, ThreadGetsOn DEF Draw
<1>6. ASSUME NEW w \in threads, Cache(w)
      PROVE  OrderInv' /\ built' >= built /\ cached' >= cached
  <2>1. /\ built \in Nat /\ cached \in Nat /\ cached <= built
        /\ w.snap = built
    BY <1>6 DEF OrderInv, Cache
  <2> QED
    BY <1>6, <2>1, ThreadGetsOn DEF Cache
<1>7. ASSUME NEW w \in threads, Finish(w)
      PROVE  OrderInv' /\ built' >= built /\ cached' >= cached
  BY <1>7 DEF Finish, OrderInv
<1>8. CASE Republish \/ VizTick \/ JumpBack \/ UNCHANGED vizVars
  BY <1>8 DEF Republish, VizTick, JumpBack, vizVars, OrderInv
<1> QED
  BY <1>2, <1>3, <1>4, <1>5, <1>6, <1>7, <1>8 DEF VizNext, Worker

\* The order holds in every reachable state.
THEOREM OrderInvariant == VizSpec => []OrderInv
<1>1. VizInit => OrderInv
  BY DEF VizInit, OrderInv
<1>2. OrderInv /\ [VizNext]_vizVars => OrderInv'
  BY StepKeepsOrder
<1> QED
  BY <1>1, <1>2, PTL DEF VizSpec

\* No worker ever replaces a drawn or a cached cloud by an older one.
THEOREM DrawnInOrder == VizSpec => NewestWins
<1>1. OrderInv /\ [VizNext]_vizVars => [built' >= built /\ cached' >= cached]_vizVars
  BY StepKeepsOrder
<1> QED
  BY OrderInvariant, <1>1, PTL DEF VizSpec, NewestWins

===============================================================================
