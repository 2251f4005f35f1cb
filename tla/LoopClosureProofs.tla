-------------------------- MODULE LoopClosureProofs ------------------------
(***************************************************************************)
(* Loop closures, for any bound, gate and jitter, any number of guesses    *)
(* and threads, and any number of rounds.                                  *)
(*                                                                         *)
(* The chain-tear check does not ratchet.  The argument goes through the   *)
(* baselines: one is only taken of a link beyond the bound, and what it is *)
(* taken of is already limited, by what other rounds stretched the link to *)
(* if the tear was their work, by one jitter or gate beyond that if a loop *)
(* round did it.  From then on every loop round is held to one gate beyond *)
(* it.                                                                     *)
(*                                                                         *)
(* The batch is sequential: the first guess is never skipped, so what is   *)
(* kept are the samples of the guesses before the first one skipped.       *)
(*                                                                         *)
(* A closure is one visit: an episode is a run of keyframes that begins    *)
(* after a gap, and neither end of it can be within a gap of what is left  *)
(* out.                                                                    *)
(*                                                                         *)
(* What is inserted is a largest agreement: the search finds every clique  *)
(* that is maximal, and a largest one is.                                  *)
(***************************************************************************)
EXTENDS LoopClosure, FiniteSetTheorems, WellFoundedInduction, TLAPS

TearType ==
  /\ tear \in Seq(Nat) /\ Len(tear) <= MaxLinks
  /\ baseline \in [TearLink -> Nat \cup {Within}]
  /\ stretch \in [TearLink -> Nat]

\* The tear of a link, of one that is not yet in the chain as well.
TearOf(k) == IF k \in DOMAIN tear THEN tear[k] ELSE 0

\* What the invariant says of a link with tear t, baseline b and stretch s: a
\* baseline is beyond the bound, and no more than a gate or a jitter above what
\* the loop rounds are not to blame for; a link without one is where rounds
\* without loops left it.
Fits(recorded, t, b, s) ==
  /\ b # Within => /\ recorded /\ Bound < b
                   /\ b <= Larger(Bound + Jitter, s + Gate)
  /\ b = Within => t <= Larger(Bound, s)
  /\ t <= Larger(Bound + Jitter, s + Gate) + Gate

TearInv ==
  \A k \in TearLink : Fits(Recorded(k), TearOf(k), baseline[k], stretch[k])

----------------------------------------------------------------------------
\* A solve gives every link of the chain a ratio.
LEMMA EstimateType ==
  ASSUME NEW n \in Nat, NEW est \in Estimates(n)
  PROVE  /\ est \in Seq(Nat) /\ Len(est) = n /\ DOMAIN est = 1 .. n
         /\ \A k \in 1 .. n : est[k] \in Nat /\ (~Recorded(k) => est[k] = 0)
<1>1. PICK t \in [(LoadedKeys + 1) .. n -> 0 .. MaxTear] :
        est = [k \in 1 .. n |-> IF Recorded(k) THEN t[k] ELSE 0]
  BY DEF Estimates
<1>2. \A k \in 1 .. n : Recorded(k) => t[k] \in Nat
  BY <1>1, TearAssumption DEF Recorded
<1> QED BY <1>1, <1>2

\* The round's length stays within the links followed.
LEMMA RoundLength ==
  ASSUME TearType
  PROVE  /\ DOMAIN tear = 1 .. Len(tear) /\ Len(tear) \in Nat
         /\ \A k \in DOMAIN tear : k \in TearLink /\ tear[k] \in Nat
  BY TearAssumption DEF TearType, TearLink

\* Every variable keeps its type.
THEOREM TearTypeCorrect == TearSpec => []TearTypeOK
<1>1. TearInit => TearType
  BY TearAssumption DEF TearInit, TearType, TearLink, Within, Larger
<1>2. TearType /\ [TearNext]_tearVars => TearType'
  <2> SUFFICES ASSUME TearType, TearNext PROVE TearType'
    BY DEF TearType, tearVars
  <2>1. /\ Len(tear) \in Nat /\ LoadedKeys \in Nat /\ LoadedKeys <= MaxLinks
        /\ DOMAIN tear = 1 .. Len(tear) /\ \A k \in DOMAIN tear : tear[k] \in Nat
    BY TearAssumption DEF TearType
  <2>2. ASSUME NEW n \in Nat, NEW est \in Estimates(n)
        PROVE  /\ Stretched(est) \in [TearLink -> Nat]
               /\ Maintained(est) \in [TearLink -> Nat \cup {Within}]
               /\ Healed(Stretched(est), est) \in [TearLink -> Nat]
               /\ Healed(stretch, est) \in [TearLink -> Nat]
    <3>1. Stretched(est) \in [TearLink -> Nat]
      BY <2>2, EstimateType DEF TearType, Stretched, Larger
    <3>2. Maintained(est) \in [TearLink -> Nat \cup {Within}]
      BY <2>2, EstimateType DEF TearType, Maintained
    <3> QED BY <3>1, <3>2 DEF TearType, Healed
  <2>3. CASE FrameRound
    <3>1. PICK n \in Nat : /\ n <= MaxLinks
                           /\ \E est \in Estimates(n) :
                                tear' = est /\ stretch' = Stretched(est)
      BY <2>1, <2>3, TearAssumption DEF FrameRound, TearType
    <3> QED BY <2>2, <2>3, <3>1, EstimateType DEF FrameRound, TearType
  <2>4. CASE FixRound
    BY <2>1, <2>2, <2>4, EstimateType DEF FixRound, TearType
  <2>5. CASE CorrectionRound
    <3>1. PICK n \in Nat : /\ n <= MaxLinks
                           /\ \E est \in Estimates(n) :
                                /\ tear' = est /\ baseline' = Maintained(est)
                                /\ stretch' = Healed(Stretched(est), est)
      BY <2>1, <2>5 DEF CorrectionRound, TearType
    <3> QED BY <2>2, <3>1, EstimateType DEF TearType
  <2>6. CASE LoopsAccepted
    BY <2>1, <2>2, <2>6, EstimateType DEF LoopsAccepted, TearType
  <2>7. CASE LoopsReverted
    BY <2>7 DEF LoopsReverted, tearVars, TearType
  <2> QED BY <2>3, <2>4, <2>5, <2>6, <2>7 DEF TearNext, OtherRound, LoopRound
<1> QED BY <1>1, <1>2, PTL DEF TearSpec, TearType, TearTypeOK
----------------------------------------------------------------------------
(* The invariant, one link at a time.                                      *)

\* A round without loops leaves a link no worse than it was, or stretches it.
LEMMA StretchFits ==
  ASSUME NEW recorded \in BOOLEAN, NEW t \in Nat, NEW b \in Nat \cup {Within},
         NEW s \in Nat, NEW e \in Nat, Fits(recorded, t, b, s)
  PROVE  Fits(recorded, e, b, IF e > t THEN Larger(s, e) ELSE s)
BY TearAssumption DEF Fits, Larger, Within

\* A converge-hard round keeps the baseline in step with what it leaves.
LEMMA MaintainFits ==
  ASSUME NEW t \in Nat, NEW b \in Nat \cup {Within}, NEW s \in Nat,
         Fits(TRUE, t, b, s)
  PROVE  Fits(TRUE, t, IF t <= Bound THEN Within ELSE IF b = Within THEN t ELSE b,
              IF t <= Bound THEN 0 ELSE s)
BY TearAssumption DEF Fits, Larger, Within

\* A loop round that is accepted keeps within a gate of the reference.
LEMMA AcceptedFits ==
  ASSUME NEW t \in Nat, NEW b \in Nat \cup {Within}, NEW s \in Nat, NEW e \in Nat,
         NEW r \in Nat, r = IF b # Within THEN b ELSE t,
         Fits(TRUE, t, b, s), e <= Bound \/ e <= r + (IF r > Bound THEN Gate ELSE Jitter)
  PROVE  Fits(TRUE, e, IF e <= Bound THEN Within ELSE IF b = Within THEN e ELSE b,
              IF e <= Bound THEN 0 ELSE s)
BY TearAssumption DEF Fits, Larger, Within

\* However many loop rounds are accepted, together they add at most two gates
\* to what other rounds stretched a link to.
THEOREM NoRatchet == TearSpec => []RatchetBounded
<1>1. TearInit => TearInv
  BY TearAssumption DEF TearInit, TearInv, Fits, TearOf, TearLink, Within, Larger
<1>2. TearType /\ TearInv /\ [TearNext]_tearVars => TearInv'
  <2> SUFFICES ASSUME TearType, TearInv, TearNext, NEW k \in TearLink
               PROVE  Fits(Recorded(k), TearOf(k)', baseline'[k], stretch'[k])
    BY DEF TearInv, TearOf, tearVars
  <2> DEFINE t == TearOf(k)
             b == baseline[k]
             s == stretch[k]
  <2>0. /\ t \in Nat /\ b \in Nat \cup {Within} /\ s \in Nat
        /\ Recorded(k) \in BOOLEAN /\ Fits(Recorded(k), t, b, s)
        /\ Len(tear) \in Nat /\ LoadedKeys \in Nat /\ DOMAIN tear = 1 .. Len(tear)
        /\ Bound \in Nat /\ Bound > 0
    BY TearAssumption DEF TearType, TearInv, TearOf, Recorded
  <2>1. ASSUME NEW n \in Nat, NEW est \in Estimates(n), Len(tear) <= n, tear' = est
        PROVE  \/ k \in DOMAIN est /\ TearOf(k)' = est[k] /\ est[k] \in Nat
               \/ k \notin DOMAIN est /\ k \notin DOMAIN tear /\ TearOf(k)' = t
    BY <2>0, <2>1, EstimateType DEF TearOf, TearLink
  <2>2. ASSUME NEW n \in Nat, NEW est \in Estimates(n), Len(tear) <= n, tear' = est
        PROVE  Fits(Recorded(k), TearOf(k)', b, Stretched(est)[k])
    <3>1. CASE k \in DOMAIN est
      <4>1. TearOf(k)' = est[k] /\ est[k] \in Nat
        BY <2>1, <2>2, <3>1
      <4>2. Stretched(est)[k] = IF est[k] > t THEN Larger(s, est[k]) ELSE s
        BY <2>0, <3>1, <4>1 DEF Stretched, TearOf, Larger
      <4>3. Fits(Recorded(k), est[k], b, IF est[k] > t THEN Larger(s, est[k]) ELSE s)
        BY <2>0, <4>1, StretchFits
      <4> QED BY <4>1, <4>2, <4>3
    <3>2. CASE k \notin DOMAIN est
      BY <2>0, <2>1, <2>2, <3>2 DEF Stretched
    <3> QED BY <3>1, <3>2
  <2>3. CASE FrameRound
    <3>1. PICK n \in Nat : /\ Len(tear) <= n
                           /\ \E est \in Estimates(n) :
                                tear' = est /\ stretch' = Stretched(est)
      BY <2>0, <2>3 DEF FrameRound
    <3> QED BY <2>2, <2>3, <3>1 DEF FrameRound
  <2>4. CASE FixRound
    BY <2>0, <2>2, <2>4 DEF FixRound
  <2>5. CASE CorrectionRound
    <3>1. PICK n \in Nat : /\ Len(tear) <= n
                           /\ \E est \in Estimates(n) :
                                /\ tear' = est /\ baseline' = Maintained(est)
                                /\ stretch' = Healed(Stretched(est), est)
      BY <2>0, <2>5 DEF CorrectionRound, Unlocated
    <3>2. PICK est \in Estimates(n) :
            /\ tear' = est /\ baseline' = Maintained(est)
            /\ stretch' = Healed(Stretched(est), est)
      BY <3>1
    <3>3. CASE k \in DOMAIN est /\ Recorded(k)
      <4> DEFINE e == est[k]
                 x == Stretched(est)[k]
      <4>1. TearOf(k)' = e /\ e \in Nat /\ x \in Nat /\ Fits(TRUE, e, b, x)
        <5>1. TearOf(k)' = e /\ e \in Nat
          BY <2>1, <3>1, <3>2, <3>3
        <5>2. x \in Nat
          BY <2>0, <5>1 DEF Stretched, Larger
        <5>3. Fits(Recorded(k), TearOf(k)', b, x)
          BY <2>2, <3>1, <3>2
        <5> QED BY <2>0, <3>3, <5>1, <5>2, <5>3 DEF Fits
      <4>2. /\ baseline'[k] = IF e <= Bound THEN Within ELSE IF b = Within THEN e ELSE b
            /\ stretch'[k] = IF e <= Bound THEN 0 ELSE x
        BY <3>2, <3>3 DEF Maintained, Healed
      <4> HIDE DEF e, x, b
      <4>3. Fits(TRUE, e, baseline'[k], stretch'[k])
        BY <2>0, <4>1, <4>2, MaintainFits
      <4> QED BY <3>3, <4>1, <4>3 DEF Fits
    <3>4. CASE k \in DOMAIN est /\ ~Recorded(k)
      <4>1. b = Within
        BY <2>0, <3>4 DEF Fits
      <4>2. TearOf(k)' = 0 /\ baseline'[k] = b /\ stretch'[k] = 0
        BY <2>0, <2>1, <3>1, <3>2, <3>4, EstimateType DEF Maintained, Healed
      <4> QED BY <2>0, <4>1, <4>2, TearAssumption DEF Fits, Larger, Within
    <3>5. CASE k \notin DOMAIN est
      BY <2>0, <2>1, <3>1, <3>2, <3>5 DEF Maintained, Healed, Stretched
    <3> QED BY <3>3, <3>4, <3>5
  <2>6. CASE LoopsAccepted
    <3>1. PICK est \in Estimates(Len(tear)) :
            /\ Torn(est) = {}
            /\ tear' = est /\ baseline' = Maintained(est)
            /\ stretch' = Healed(stretch, est)
      BY <2>6 DEF LoopsAccepted
    <3>2. Len(tear) \in Nat /\ Len(tear) <= Len(tear)
      BY <2>0
    <3>3. CASE k \in DOMAIN est /\ Recorded(k)
      <4> DEFINE e == est[k]
                 r == IF b # Within THEN b ELSE t
      <4>1. TearOf(k)' = e /\ e \in Nat /\ k \in DOMAIN tear /\ t = tear[k]
        BY <2>0, <2>1, <3>1, <3>2, <3>3, EstimateType DEF TearOf
      <4>2. /\ baseline'[k] = IF e <= Bound THEN Within ELSE IF b = Within THEN e ELSE b
            /\ stretch'[k] = IF e <= Bound THEN 0 ELSE s
        BY <3>1, <3>3 DEF Maintained, Healed
      <4>3. e <= Bound \/ e <= r + (IF r > Bound THEN Gate ELSE Jitter)
        <5>1. k \notin Torn(est) /\ r = Reference(k)
          BY <3>1, <4>1 DEF Reference
        <5>2. r \in Nat /\ Gate \in Nat /\ Jitter \in Nat
          BY <2>0, TearAssumption DEF Within
        <5> HIDE DEF r
        <5> QED BY <2>0, <3>3, <4>1, <5>1, <5>2 DEF Torn
      <4>4. r \in Nat /\ Fits(TRUE, t, b, s)
        BY <2>0, <3>3 DEF Fits, Within
      <4>5. Fits(TRUE, e, baseline'[k], stretch'[k])
        <5>1. r = IF b # Within THEN b ELSE t
          OBVIOUS
        <5> HIDE DEF e, r, t, b, s
        <5>2. t \in Nat /\ b \in Nat \cup {Within} /\ s \in Nat
          BY <2>0
        <5>3. Fits(TRUE, e,
                   IF e <= Bound THEN Within ELSE IF b = Within THEN e ELSE b,
                   IF e <= Bound THEN 0 ELSE s)
          BY <4>1, <4>3, <4>4, <5>1, <5>2, AcceptedFits
        <5> QED BY <4>2, <5>3
      <4> QED BY <3>3, <4>1, <4>5 DEF Fits
    <3>4. CASE k \in DOMAIN est /\ ~Recorded(k)
      <4>1. b = Within
        BY <2>0, <3>4 DEF Fits
      <4>2. TearOf(k)' = 0 /\ baseline'[k] = b /\ stretch'[k] = 0
        BY <2>0, <2>1, <3>1, <3>2, <3>4, EstimateType DEF Maintained, Healed
      <4> QED BY <2>0, <4>1, <4>2, TearAssumption DEF Fits, Larger, Within
    <3>5. CASE k \notin DOMAIN est
      BY <2>0, <2>1, <3>1, <3>2, <3>5 DEF Maintained, Healed
    <3> QED BY <3>3, <3>4, <3>5
  <2>7. CASE LoopsReverted
    BY <2>0, <2>7 DEF LoopsReverted, tearVars, TearOf
  <2> QED BY <2>3, <2>4, <2>5, <2>6, <2>7 DEF TearNext, OtherRound, LoopRound
<1>3. TearType /\ TearInv => RatchetBounded
  BY RoundLength DEF TearInv, Fits, TearOf, RatchetBounded
<1> QED BY <1>1, <1>2, <1>3, TearTypeCorrect, PTL DEF TearSpec, TearType, TearTypeOK

----------------------------------------------------------------------------
(* The callback as a whole.                                                *)

\* Whatever else a callback does, the chain only sees the rounds.
LEMMA LoopsAreTears == Spec => TearSpec
<1>1. Init => TearInit
  BY DEF Init
<1>2. [Next]_vars => [TearNext]_tearVars
  <2>1. CASE Frame
    BY <2>1 DEF Frame, TearNext, OtherRound
  <2>2. CASE Between
    BY <2>2 DEF Between, TearNext
  <2>3. CASE Judge
    BY <2>3 DEF Judge, TearNext
  <2>4. CASE SearchFails \/ Register \/ Sample \/ Refused \/ Offer \/ NoClique \/ Insert
    BY <2>4 DEF SearchFails, Register, Sample, Refused, Offer, NoClique, Insert
  <2>5. CASE \E s \in Sources : Search(s)
    BY <2>5 DEF Search
  <2>6. CASE UNCHANGED vars
    BY <2>6 DEF vars
  <2> QED BY <2>1, <2>2, <2>3, <2>4, <2>5, <2>6 DEF Next
<1> QED BY <1>1, <1>2, PTL DEF Spec, TearSpec

\* Aliases that each stay under the gate cannot ratchet the graph, however
\* searches, registrations and rounds follow each other.
THEOREM ClosuresDoNotRatchet == Spec => []RatchetBounded
BY LoopsAreTears, NoRatchet, PTL

----------------------------------------------------------------------------
(* The batch.                                                              *)

Fates == {"todo", "taken", "running", "skipped", "ok", "failed", "fatal"}

\* The first guess is exempt from the time cap.
BatchInv == guess \in [Guess -> Fates] /\ guess[1] # "skipped"

\* Every nonempty set of natural numbers has a least element: the intervals
\* from zero to its members have a smallest one.
LEMMA LeastOf ==
  ASSUME NEW T \in SUBSET Nat, T # {}
  PROVE  \E m \in T : \A k \in T : m <= k
<1> DEFINE Intervals == {0 .. m : m \in T}
<1>1. \A m \in T : (0 .. m) \in FiniteSubsetsOf(Nat)
  BY FS_Interval DEF FiniteSubsetsOf
<1>2. Intervals \subseteq FiniteSubsetsOf(Nat) /\ Intervals # {}
  BY <1>1
<1>3. PICK x \in Intervals : \A y \in Intervals : ~(<<y, x>> \in StrictSubsetOrdering(Nat))
  BY <1>2, WFMin, FS_StrictSubsetOrderingWellFounded
<1>4. PICK m \in T : x = 0 .. m
  OBVIOUS
<1>5. ASSUME NEW k \in T, k < m PROVE FALSE
  <2>1. 0 .. k \subseteq 0 .. m /\ m \in 0 .. m /\ m \notin 0 .. k
    BY <1>5
  <2>2. <<0 .. k, 0 .. m>> \in StrictSubsetOrdering(Nat)
    BY <2>1 DEF StrictSubsetOrdering
  <2> QED BY <1>3, <1>4, <2>2
<1> QED BY <1>5

\* The samples kept are those of the guesses before the first skipped.
LEMMA PrefixKept ==
  ASSUME BatchInv, In({"fatal"}) = {}
  PROVE  \E m \in Guess : In({"skipped"}) \cap 1 .. m = {} /\ Kept = Sequential(m)
<1>1. Guesses \in Nat \ {0} /\ Guess = 1 .. Guesses
  BY BatchAssumption DEF Guess
<1>2. \A m \in Guess : Sequential(m) = In({"ok"}) \cap 1 .. m
  BY DEF Sequential
<1>3. In({"ok"}) \subseteq Guess /\ In({"skipped"}) \subseteq Guess
  BY DEF In
<1>4. CASE In({"skipped"}) = {}
  <2>1. Guesses \in Guess /\ Kept = In({"ok"}) \cap 1 .. Guesses
    BY <1>1, <1>3, <1>4 DEF Kept
  <2> QED BY <1>2, <1>4, <2>1
<1>5. CASE In({"skipped"}) # {}
  <2>1. PICK first \in In({"skipped"}) : \A j \in In({"skipped"}) : first <= j
    <3>1. In({"skipped"}) \in SUBSET Nat
      BY <1>1, <1>3
    <3> QED BY <1>5, <3>1, LeastOf
  <2>2. first \in 2 .. Guesses
    BY <1>1, <1>3, <2>1 DEF BatchInv, In
  <2>3. first - 1 \in Guess /\ In({"skipped"}) \cap 1 .. (first - 1) = {}
    BY <1>1, <1>3, <2>1, <2>2
  <2>4. Kept = In({"ok"}) \cap 1 .. (first - 1)
    BY <1>1, <1>3, <2>1, <2>2 DEF Kept
  <2> QED BY <1>2, <2>3, <2>4
<1> QED BY <1>4, <1>5

\* However the guesses interleave and whenever the cap passes, the caller gets
\* what the sequential loop would have given it at some cap.
THEOREM SamplesAreSequential == Spec => []BatchIsSequential
<1>1. Init => BatchInv
  BY BatchAssumption DEF Init, Fresh, BatchInv, Guess, Fates
<1>2. BatchInv /\ [Next]_vars => BatchInv'
  <2> SUFFICES ASSUME BatchInv, [Next]_vars PROVE BatchInv'
    OBVIOUS
  <2>0. 1 \in Guess
    BY BatchAssumption DEF Guess
  <2>1. ASSUME NEW i, NEW fate \in Fates, Become(i, fate), i = 1 => fate # "skipped"
        PROVE  BatchInv'
    BY <2>0, <2>1 DEF Become, BatchInv
  <2>2. CASE Sample
    <3>1. CASE Take
      BY <2>1, <3>1 DEF Take, Fates
    <3>2. CASE Expire
      BY <3>2 DEF Expire, BatchInv
    <3>3. ASSUME NEW i \in Guess, Skip(i) PROVE BatchInv'
      BY <2>1, <3>3 DEF Skip, Capped, Fates
    <3>4. ASSUME NEW i \in Guess, Start(i) PROVE BatchInv'
      BY <2>1, <3>4 DEF Start, Fates
    <3>5. ASSUME NEW i \in Guess, Finish(i) PROVE BatchInv'
      BY <2>1, <3>5 DEF Finish, Fates
    <3> QED BY <2>2, <3>1, <3>2, <3>3, <3>4, <3>5 DEF Sample, BatchStep
  <2>3. CASE Refused \/ Offer
    BY <2>0, <2>3 DEF Refused, Offer, Forget, BatchInv, Fates
  <2>4. CASE Frame \/ Between \/ SearchFails \/ Register \/ NoClique \/ Insert \/ Judge
    BY <2>4 DEF Frame, Between, SearchFails, Register, NoClique, Insert, Judge,
                batchVars, BatchInv
  <2>5. CASE \E s \in Sources : Search(s)
    BY <2>5 DEF Search, batchVars, BatchInv
  <2>6. CASE UNCHANGED vars
    BY <2>6 DEF vars, batchVars, BatchInv
  <2> QED BY <2>2, <2>3, <2>4, <2>5, <2>6 DEF Next
<1>3. BatchInv => BatchIsSequential
  <2> SUFFICES ASSUME BatchInv, Joined PROVE \E m \in Reachable : Outcome = Sequential(m)
    BY DEF BatchIsSequential
  <2>1. CASE In({"fatal"}) # {}
    <3>1. Guesses \in Guess /\ In({"fatal"}) \cap 1 .. Guesses # {}
      BY <2>1, BatchAssumption DEF Guess, In
    <3>2. Sequential(Guesses) = Thrown /\ Outcome = Thrown
      BY <2>1, <3>1 DEF Sequential, Outcome
    <3> QED BY <3>1, <3>2 DEF Reachable
  <2>2. CASE In({"fatal"}) = {}
    BY <2>2, PrefixKept DEF Outcome, Reachable
  <2> QED BY <2>1, <2>2
<1> QED BY <1>1, <1>2, <1>3, PTL DEF Spec

----------------------------------------------------------------------------
(* Which keyframes a closure is registered against.                        *)

\* Induction up to n, for a set in place of a predicate.
LEMMA UpTo ==
  ASSUME NEW n \in Nat, NEW T, 0 \in T, \A k \in 0 .. n - 1 : k \in T => k + 1 \in T
  PROVE  0 .. n \subseteq T
<1> DEFINE Bad == {k \in 0 .. n : k \notin T}
<1>1. ASSUME Bad # {} PROVE FALSE
  <2>1. PICK m \in Bad : \A k \in Bad : m <= k
    <3>1. Bad \in SUBSET Nat
      OBVIOUS
    <3> HIDE DEF Bad
    <3> QED BY <1>1, <3>1, LeastOf
  <2>2. m # 0 /\ m - 1 \in 0 .. n - 1 /\ m - 1 \notin Bad
    BY <2>1
  <2> QED BY <2>2
<1> QED BY <1>1

\* So has every nonempty bounded set of integers, and a greatest one.
LEMMA GreatestOf ==
  ASSUME NEW n \in Int, NEW T \in SUBSET Int, \A x \in T : x <= n, T # {}
  PROVE  Max(T) \in T /\ \A k \in T : k <= Max(T)
<1> DEFINE D == {n - x : x \in T}
<1>1. D \in SUBSET Nat /\ D # {}
  <2>1. \A x \in T : n - x \in Nat
    OBVIOUS
  <2> QED BY <2>1
<1> HIDE DEF D
<1>2. PICK d \in D : \A e \in D : d <= e
  BY <1>1, LeastOf
<1>3. PICK m \in T : d = n - m
  BY <1>2 DEF D
<1>4. \A k \in T : k <= m
  <2>1. \A k \in T : n - k \in D
    BY DEF D
  <2> QED BY <1>2, <1>3, <2>1
<1>5. \E x \in T : \A y \in T : x >= y
  BY <1>3, <1>4
<1> QED BY <1>5 DEF Max

\* The points of finitely many keyframes are a number.
LEMMA PointsAreCounted ==
  ASSUME NEW S, IsFiniteSet(S), NEW pts, \A k \in S : pts[k] \in Nat
  PROVE  Points(pts, S) \in Nat
<1> DEFINE n == Cardinality(S)
           Small(k) == {s \in SUBSET S : Cardinality(s) <= k}
           Pick(s) == CHOOSE x \in s : TRUE
           Step(s, r) == IF s = {} THEN 0 ELSE pts[Pick(s)] + r
           Fold(I, k) == I = [s \in Small(k) |-> Step(s, I[s \ {Pick(s)}])]
           Good == {k \in 0 .. n : \E I : Fold(I, k)}
<1>1. /\ n \in Nat
      /\ \A s \in SUBSET S : IsFiniteSet(s) /\ Cardinality(s) \in 0 .. n
      /\ \A s \in SUBSET S : \A x \in s :
           s \ {x} \in SUBSET S /\ Cardinality(s \ {x}) = Cardinality(s) - 1
  BY FS_CardinalityType, FS_Subset, FS_RemoveElement
<1>2. \A s \in SUBSET S : s # {} => Pick(s) \in s
  OBVIOUS
<1> HIDE DEF Pick
<1>3. /\ \A k \in 0 .. n - 1 : \A s \in Small(k + 1) : s # {} => s \ {Pick(s)} \in Small(k)
      /\ \A k \in 0 .. n - 1 : Small(k) \subseteq Small(k + 1)
      /\ Small(n) = SUBSET S
  <2> HIDE DEF n
  <2>1. ASSUME NEW k \in 0 .. n - 1, NEW s \in Small(k + 1), s # {}
        PROVE  s \ {Pick(s)} \in Small(k)
    BY <1>1, <1>2, <2>1
  <2>2. \A k \in 0 .. n - 1 : Small(k) \subseteq Small(k + 1)
    BY <1>1
  <2>3. Small(n) = SUBSET S
    BY <1>1
  <2> HIDE DEF Small
  <2> QED BY <2>1, <2>2, <2>3
<1>4. Small(0) = {{}}
  <2>1. \A s \in SUBSET S : Cardinality(s) = 0 <=> s = {}
    BY <1>1, FS_EmptySet
  <2> QED BY <1>1, <2>1
<1> HIDE DEF Small
<1>5. ASSUME NEW I, NEW k \in 0 .. n - 1, Fold(I, k)
      PROVE  Fold([s \in Small(k + 1) |-> Step(s, I[s \ {Pick(s)}])], k + 1)
  <2> DEFINE J == [s \in Small(k + 1) |-> Step(s, I[s \ {Pick(s)}])]
  <2>1. \A a, b : Step({}, a) = Step({}, b)
    OBVIOUS
  <2> HIDE DEF Step
  <2>2. \A s \in Small(k) : J[s] = I[s]
    BY <1>3, <1>5
  <2> HIDE DEF J
  <2>3. \A s \in Small(k + 1) : s # {} => J[s \ {Pick(s)}] = I[s \ {Pick(s)}]
    BY <1>3, <2>2
  <2>4. \A s \in Small(k + 1) : Step(s, I[s \ {Pick(s)}]) = Step(s, J[s \ {Pick(s)}])
    BY <2>1, <2>3
  <2> QED BY <2>4 DEF J
<1>6. \E I : Fold(I, 0)
  <2>1. Fold([s \in {{}} |-> 0], 0)
    BY <1>4
  <2> QED BY <2>1
<1>7. 0 .. n \subseteq Good
  <2> HIDE DEF Fold
  <2>1. 0 \in Good
    BY <1>1, <1>6
  <2>2. ASSUME NEW k \in 0 .. n - 1, k \in Good PROVE k + 1 \in Good
    <3>1. \E I : Fold(I, k + 1)
      BY <1>5, <2>2
    <3> QED BY <1>1, <3>1
  <2> HIDE DEF Good
  <2> QED BY <1>1, <2>1, <2>2, UpTo
<1> DEFINE All(I) == I = [s \in SUBSET S |-> Step(s, I[s \ {Pick(s)}])]
<1>8. All(CHOOSE I : All(I))
  <2>1. \E I : All(I)
    <3>1. \E I : Fold(I, n)
      <4> HIDE DEF Fold
      <4> QED BY <1>1, <1>7
    <3> QED BY <1>3, <3>1
  <2> HIDE DEF All
  <2> QED BY <2>1
<1>9. Points(pts, S) = (CHOOSE I : All(I))[S]
  BY DEF Points, MapThenSumSet, MapThenFoldSet, Pick
<1>10. PICK I : All(I) /\ Points(pts, S) = I[S]
  BY <1>8, <1>9
<1>11. I[{}] = 0 /\ \A s \in SUBSET S : s # {} => I[s] = pts[Pick(s)] + I[s \ {Pick(s)}]
  BY <1>10
<1> DEFINE Numbers == {k \in 0 .. n : \A s \in Small(k) : I[s] \in Nat}
<1>12. 0 \in Numbers
  <2>1. \A s \in Small(0) : I[s] = 0
    BY <1>4, <1>11
  <2> QED BY <1>1, <2>1
<1>13. ASSUME NEW k \in 0 .. n - 1, k \in Numbers PROVE k + 1 \in Numbers
  <2>1. ASSUME NEW s \in Small(k + 1) PROVE I[s] \in Nat
    <3>1. CASE s = {} BY <3>1, <1>11
    <3>2. CASE s # {}
      <4>1. s \in SUBSET S
        BY DEF Small
      <4>2. pts[Pick(s)] \in Nat /\ I[s \ {Pick(s)}] \in Nat
        BY <1>2, <1>3, <1>13, <3>2, <4>1
      <4>3. I[s] = pts[Pick(s)] + I[s \ {Pick(s)}]
        BY <1>11, <3>2, <4>1
      <4> QED BY <4>2, <4>3
    <3> QED BY <3>1, <3>2
  <2> QED BY <1>1, <2>1
<1>14. n \in Numbers
  <2> HIDE DEF Numbers, n
  <2> QED BY <1>1, <1>12, <1>13, UpTo
<1> QED BY <1>3, <1>10, <1>14

\* One of finitely many has the most.
LEMMA MostOf ==
  ASSUME NEW N \in Nat, NEW B \in SUBSET (0 .. N), B # {},
         NEW f, \A b \in B : f[b] \in Nat
  PROVE  \E m \in B : \A b \in B : f[b] <= f[m]
<1> DEFINE Low(k) == {b \in B : b < k}
           Good   == {k \in 0 .. N + 1 : \E u \in Nat : \A b \in Low(k) : f[b] <= u}
<1>1. 0 \in Good
  <2>1. \A b \in Low(0) : f[b] <= 0
    OBVIOUS
  <2> QED BY <2>1
<1>2. ASSUME NEW k \in 0 .. N, k \in Good PROVE k + 1 \in Good
  <2>1. PICK u \in Nat : \A b \in Low(k) : f[b] <= u
    BY <1>2
  <2>2. \A b \in Low(k + 1) : b \in Low(k) \/ (b = k /\ k \in B)
    OBVIOUS
  <2>3. CASE k \in B
    <3> DEFINE v == IF f[k] <= u THEN u ELSE f[k]
    <3>1. v \in Nat /\ u <= v /\ f[k] <= v /\ f[k] \in Nat
      BY <2>3
    <3> HIDE DEF v
    <3>2. \A b \in Low(k + 1) : f[b] <= v
      BY <2>1, <2>2, <3>1
    <3> QED BY <3>1, <3>2
  <2>4. CASE k \notin B
    <3>1. \A b \in Low(k + 1) : f[b] <= u
      BY <2>1, <2>2, <2>4
    <3> QED BY <3>1
  <2> QED BY <2>3, <2>4
<1>3. N + 1 \in Good
  <2> HIDE DEF Good
  <2> QED BY <1>1, <1>2, UpTo
<1>4. PICK u \in Nat : \A b \in B : f[b] <= u
  BY <1>3
<1> DEFINE T == {f[b] : b \in B}
<1>5. T \in SUBSET Int /\ T # {} /\ \A x \in T : x <= u
  <2>1. \A b \in B : f[b] \in Int /\ f[b] <= u
    BY <1>4
  <2> QED BY <2>1
<1> HIDE DEF T
<1>6. Max(T) \in T /\ \A x \in T : x <= Max(T)
  <2>1. u \in Int
    OBVIOUS
  <2> QED BY <1>5, <2>1, GreatestOf
<1> QED BY <1>6 DEF T

\* The least is the one that Min chooses.
LEMMA MinIs ==
  ASSUME NEW T \in SUBSET Nat, T # {}
  PROVE  Min(T) \in T /\ \A k \in T : Min(T) <= k
BY LeastOf DEF Min

\* The first keyframe begins a run, and so does the last of those that do.
LEMMA BeginsAre ==
  ASSUME NEW N \in Nat, NEW R \in SUBSET (0 .. N), R # {}
  PROVE  /\ Begins(R) \in SUBSET R /\ Min(R) \in Begins(R)
         /\ Max(Begins(R)) \in Begins(R) /\ \A b \in Begins(R) : b <= Max(Begins(R))
<1>1. Begins(R) \in SUBSET R
  BY DEF Begins
<1>2. Min(R) \in R /\ \A k \in R : Min(R) <= k
  BY MinIs
<1>3. Min(R) \in Begins(R)
  <2> DEFINE m == Min(R)
  <2>1. ASSUME NEW k \in R PROVE ~(k < m)
    <3>1. \A x \in R : x \in Int
      OBVIOUS
    <3>2. m \in R /\ m <= k
      BY <1>2
    <3> HIDE DEF m
    <3>3. m \in Int /\ k \in Int
      BY <3>1, <3>2
    <3> QED BY <3>2, <3>3
  <2> QED BY <1>2, <2>1 DEF Begins
<1>4. Begins(R) \in SUBSET Int /\ Begins(R) # {} /\ \A b \in Begins(R) : b <= N
  <2>1. \A k \in R : k \in Int /\ k <= N
    OBVIOUS
  <2> QED BY <1>1, <1>3, <2>1
<1>5. Max(Begins(R)) \in Begins(R) /\ \A b \in Begins(R) : b <= Max(Begins(R))
  <2> DEFINE T == Begins(R)
  <2>1. N \in Int /\ T \in SUBSET Int /\ T # {} /\ \A b \in T : b <= N
    BY <1>4
  <2> HIDE DEF T
  <2>2. Max(T) \in T /\ \A b \in T : b <= Max(T)
    BY <2>1, GreatestOf
  <2> QED BY <2>2 DEF T
<1> QED BY <1>1, <1>3, <1>5

\* The episode is a run, and not the newest of several.
LEMMA EpisodeIs ==
  ASSUME NEW N \in Nat, NEW R \in SUBSET (0 .. N), R # {},
         NEW pts, \A k \in R : pts[k] \in Nat
  PROVE  \E b \in Begins(R) :
           /\ Episode(pts, R) = Run(R, b)
           /\ Begins(R) = {b} \/ b < Max(Begins(R))
<1> DEFINE last   == Max(Begins(R))
           begins == IF Begins(R) = {last} THEN {last} ELSE Begins(R) \ {last}
           seen   == [b \in begins |-> Points(pts, Run(R, b))]
           most   == Max({Points(pts, Run(R, b)) : b \in begins})
           best   == {b \in begins : Points(pts, Run(R, b)) = most}
<1>1. /\ Begins(R) \in SUBSET (0 .. N) /\ last \in Begins(R)
      /\ \A b \in Begins(R) : b <= last
  BY BeginsAre
<1>2. begins \in SUBSET (0 .. N) /\ begins # {} /\ begins \subseteq Begins(R)
  BY <1>1
<1>3. \A b \in begins : Begins(R) = {b} \/ b < last
  BY <1>1
<1>4. ASSUME NEW b \in begins PROVE Points(pts, Run(R, b)) \in Nat
  <2>1. Run(R, b) \in SUBSET (0 .. N) /\ Run(R, b) \subseteq R
    BY DEF Run
  <2>2. IsFiniteSet(Run(R, b))
    <3>1. IsFiniteSet(0 .. N)
      BY FS_Interval
    <3> QED BY <2>1, <3>1, FS_Subset
  <2> QED BY <2>1, <2>2, PointsAreCounted
<1> HIDE DEF begins
<1>5. PICK m \in begins : \A b \in begins : seen[b] <= seen[m]
  <2>1. \A b \in begins : seen[b] \in Nat
    BY <1>4
  <2> HIDE DEF seen
  <2> QED BY <1>2, <2>1, MostOf
<1>6. best # {}
  <2> DEFINE T == {Points(pts, Run(R, b)) : b \in begins}
  <2>1. T \in SUBSET Int /\ seen[m] \in T /\ seen[m] \in Int /\ \A x \in T : x <= seen[m]
    BY <1>4, <1>5
  <2>2. most \in T
    <3> HIDE DEF T
    <3>1. Max(T) \in T
      BY <2>1, GreatestOf
    <3> QED BY <3>1 DEF T
  <2> QED BY <2>2
<1>7. best \in SUBSET Nat
  <2>1. \A b \in begins : b \in Nat
    BY <1>2
  <2>2. best \subseteq begins
    OBVIOUS
  <2> HIDE DEF best
  <2> QED BY <2>1, <2>2
<1> HIDE DEF best
<1>8. Min(best) \in best
  BY <1>6, <1>7, MinIs
<1>9. Episode(pts, R) = Run(R, Min(best))
  BY DEF Episode, begins, best
<1> QED BY <1>2, <1>3, <1>8, <1>9 DEF best

\* A run is a whole visit.
LEMMA RunIs ==
  ASSUME NEW N \in Nat, NEW R \in SUBSET (0 .. N), NEW b \in Begins(R)
  PROVE  /\ b \in Run(R, b) /\ Run(R, b) \subseteq R /\ Unbroken(Run(R, b))
         /\ \A k \in R \ Run(R, b), f \in Run(R, b) :
              k - f > RevisitGap \/ f - k > RevisitGap
         /\ Begins(R) = {b} => Run(R, b) = R
         /\ \A c \in Begins(R) : b < c => \A f \in Run(R, b) : c - f > RevisitGap
<1> DEFINE F == Run(R, b)
<1>1. RevisitGap \in Nat /\ b \in R /\ Begins(R) \subseteq R /\ \A k \in R : k \in Nat /\ k \in Int
  BY RevisitAssumption DEF Begins
<1>2. b \in F /\ F \subseteq R
  BY <1>1 DEF Run
<1>3. \A f \in F : b <= f /\ \A c \in Begins(R) : ~(b < c /\ c <= f)
  BY DEF Run
<1>4. \A c \in Begins(R) : \A k \in R : k < c => c - k > RevisitGap
  BY <1>1 DEF Begins
<1>5. \A c \in Begins(R) : b < c => \A f \in F : c - f > RevisitGap
  <2> SUFFICES ASSUME NEW c \in Begins(R), b < c, NEW f \in F PROVE c - f > RevisitGap
    OBVIOUS
  <2>1. c \in Int /\ f \in Int /\ f \in R
    BY <1>1, <1>2
  <2>2. f < c
    <3>1. ~(c <= f)
      BY <1>3
    <3> QED BY <2>1, <3>1
  <2> QED BY <1>4, <2>1, <2>2
<1>6. ASSUME NEW k \in R \ F, NEW f \in F
      PROVE  k - f > RevisitGap \/ f - k > RevisitGap
  <2>1. k \in Int /\ f \in Int /\ b \in Int /\ b <= f
    BY <1>1, <1>2, <1>3
  <2>2. CASE k < b
    BY <1>1, <1>4, <2>1, <2>2
  <2>3. CASE b <= k
    <3>1. PICK c \in Begins(R) : b < c /\ c <= k
      BY <1>6, <2>3 DEF Run
    <3> QED BY <1>1, <1>5, <2>1, <3>1
  <2> QED BY <2>1, <2>2, <2>3
<1>7. ASSUME NEW a \in F, NEW z \in F, a < z
      PROVE  \E k \in F : a < k /\ k <= a + RevisitGap
  <2> DEFINE T == {k \in R : a < k}
  <2>1. PICK m \in T : \A k \in T : m <= k
    <3>1. z \in T /\ \A k \in T : k \in Nat
      BY <1>1, <1>2, <1>7
    <3> HIDE DEF T
    <3> QED BY <3>1, LeastOf
  <2>2. m \in R /\ a < m /\ m <= z /\ a \in Int /\ z \in Int /\ m \in Int /\ b <= a /\ b < m
    <3>1. z \in R /\ a \in R /\ z \in T /\ m \in R /\ a < m /\ b <= a
      BY <1>2, <1>3, <1>7
    <3>2. m <= z /\ a \in Int /\ z \in Int /\ m \in Int /\ b \in Int
      BY <1>1, <2>1, <3>1
    <3> QED BY <3>1, <3>2
  <2>3. m \in F
    BY <1>1, <1>3, <2>2 DEF Run
  <2>4. m \notin Begins(R)
    BY <1>3, <2>2
  <2>5. PICK k \in R : k < m /\ m - k <= RevisitGap
    BY <2>2, <2>4 DEF Begins
  <2>6. k <= a
    BY <1>1, <2>1, <2>2, <2>5
  <2> QED BY <1>1, <2>2, <2>3, <2>5, <2>6
<1>8. ASSUME Begins(R) = {b} PROVE F = R
  <2>1. Min(R) \in Begins(R) /\ \A k \in R : Min(R) <= k
    <3>1. R # {} /\ R \in SUBSET Nat
      BY <1>1
    <3> QED BY <3>1, BeginsAre, MinIs
  <2>2. \A k \in R : b <= k
    BY <1>8, <2>1
  <2> QED BY <1>1, <1>2, <1>8, <2>2 DEF Run
<1> HIDE DEF F
<1>9. Unbroken(F)
  BY <1>7 DEF Unbroken
<1> QED BY <1>2, <1>5, <1>6, <1>8, <1>9 DEF F

\* What a search comes back with is one visit, however the points lie.
LEMMA FoundIsOne ==
  ASSUME NEW s \in Nat, NEW pts \in [TargetFrames(s) -> Nat], NEW out \in Found(s, pts)
  PROVE  IsOneEpisode(s, pts, out)
<1> DEFINE R == RevisitFrames(s, pts)
           F == Episode(pts, R)
<1>1. R # {} /\ out \in {[frames |-> F, target |-> t] : t \in Targets(pts, F)}
  BY DEF Found
<1>2. out.frames = F /\ out.target \in Targets(pts, F)
  BY <1>1
<1>3. R \in SUBSET (0 .. s) /\ \A k \in R : pts[k] \in Nat /\ s - k >= MinRevisitSep
  BY RevisitAssumption DEF RevisitFrames, CandidateFrames, TargetFrames
<1> HIDE DEF R
<1>4. PICK b \in Begins(R) : F = Run(R, b) /\ (Begins(R) = {b} \/ b < Max(Begins(R)))
  BY <1>1, <1>3, EpisodeIs
<1>5. /\ b \in F /\ F \subseteq R /\ Unbroken(F)
      /\ \A k \in R \ F, f \in F : k - f > RevisitGap \/ f - k > RevisitGap
      /\ Begins(R) = {b} => F = R
      /\ \A c \in Begins(R) : b < c => \A f \in F : c - f > RevisitGap
  <2>1. R \in SUBSET (0 .. s)
    BY <1>3
  <2> HIDE DEF F
  <2> QED BY <1>4, <2>1, RunIs
<1> HIDE DEF F
<1>6. F # R => \E k \in R : \A f \in F : k - f > RevisitGap
  <2>1. Max(Begins(R)) \in Begins(R) /\ Begins(R) \subseteq R
    BY <1>1, <1>3, BeginsAre
  <2> QED BY <1>4, <1>5, <2>1
<1>7. out.target \in F
  <2>1. CASE Initialization
    BY <1>2, <2>1 DEF Targets
  <2>2. CASE ~Initialization
    <3> DEFINE T == {k \in F : \A j \in F : pts[j] <= pts[k]}
    <3>1. F \in SUBSET (0 .. s) /\ F # {} /\ \A k \in F : pts[k] \in Nat
      BY <1>3, <1>5
    <3>2. T # {}
      BY <3>1, MostOf
    <3>3. T \in SUBSET Nat
      <4>1. \A k \in F : k \in Nat
        BY <3>1
      <4> QED BY <4>1
    <3>4. out.target = Min(T)
      BY <1>2, <2>2 DEF Targets
    <3> HIDE DEF T
    <3>5. Min(T) \in T
      BY <3>2, <3>3, MinIs
    <3> QED BY <3>4, <3>5 DEF T
  <2> QED BY <2>1, <2>2
<1> QED BY <1>2, <1>3, <1>5, <1>6, <1>7 DEF IsOneEpisode, R

SearchInv ==
  stage = "found" => /\ source \in Nat /\ near \in [TargetFrames(source) -> Nat]
                     /\ found \in Found(source, near)

\* A closure is registered against one earlier visit, whole, and never against
\* the trail of the pass that looks for it: whatever is in the fan, wherever the
\* gaps are, and whichever frame of the visit gets the factor.
THEOREM ClosuresAreOneVisit == Spec => []OneEpisode
<1>1. Init => SearchInv
  BY DEF Init, SearchInv
<1>2. SearchInv /\ [Next]_vars => SearchInv'
  <2> SUFFICES ASSUME SearchInv, [Next]_vars PROVE SearchInv'
    OBVIOUS
  <2>1. ASSUME NEW s \in Sources, Search(s) PROVE SearchInv'
    <3>1. s \in Nat /\ near' \in [TargetFrames(s) -> Nat]
      BY <2>1, LoopAssumption DEF Search
    <3> QED BY <2>1, <3>1 DEF Search, SearchInv
  <2>2. CASE Frame \/ Between \/ SearchFails \/ Register \/ Sample \/ Refused \/ Offer
             \/ NoClique \/ Insert \/ Judge
    BY <2>2 DEF Frame, Between, SearchFails, Register, Sample, Refused, Offer, NoClique,
                Insert, Judge, Leave, loopVars, SearchInv
  <2>3. CASE UNCHANGED vars
    BY <2>3 DEF vars, loopVars, SearchInv
  <2> QED BY <2>1, <2>2, <2>3 DEF Next
<1>3. SearchInv => OneEpisode
  BY FoundIsOne DEF SearchInv, OneEpisode
<1> QED BY <1>1, <1>2, <1>3, PTL DEF Spec

----------------------------------------------------------------------------
(***************************************************************************)
(* The clique search.  A call of find_cliques holds a clique, what is      *)
(* consistent with all of it, and the candidates among that (Sound).  It   *)
(* finds every maximal clique of members and candidates (Complete), by     *)
(* induction over their number: were a maximal clique spared by all        *)
(* branches, the pivot would be consistent with all of it, and hence in    *)
(* it.                                                                     *)
(***************************************************************************)

\* A graph over closures: neighbours are neighbours of each other and not of
\* themselves.
Graph(adj) ==
  /\ \E n \in Nat : DOMAIN adj \in SUBSET (0 .. n)
  /\ adj \in [DOMAIN adj -> SUBSET DOMAIN adj]
  /\ \A v \in DOMAIN adj : v \notin adj[v]
  /\ \A u, v \in DOMAIN adj : u \in adj[v] => v \in adj[u]

Clique(adj, S) ==
  S \in SUBSET DOMAIN adj /\ \A u, v \in S : u # v => v \in adj[u]

Maximal(adj, M) ==
  Clique(adj, M) /\ \A S : Clique(adj, S) /\ M \subseteq S => S = M

\* A call of find_cliques: what it tries, what it calls, what it finds.
Calls(adj) == Seq(DOMAIN adj) \X (SUBSET DOMAIN adj) \X (SUBSET DOMAIN adj)

Tried(adj, p) == p[3] \ adj[Pivot(adj, p[2], p[3])]

Below(adj, p, q) ==
  <<Append(p[1], q), p[2] \cap adj[q], (p[3] \ {r \in Tried(adj, p) : r <= q}) \cap adj[q]>>

Finds(adj, F, p) ==
  IF p[2] = {} THEN {p[1]} ELSE UNION {F[Below(adj, p, q)] : q \in Tried(adj, p)}

\* The calls with at most k candidates.
Short(adj, k) == {p \in Calls(adj) : Cardinality(p[3]) <= k}

LEMMA GraphIsFinite ==
  ASSUME NEW adj, Graph(adj)
  PROVE  /\ IsFiniteSet(DOMAIN adj) /\ Cardinality(DOMAIN adj) \in Nat
         /\ \A S \in SUBSET DOMAIN adj :
              /\ IsFiniteSet(S) /\ Cardinality(S) \in 0 .. Cardinality(DOMAIN adj)
              /\ \A x \in S : Cardinality(S \ {x}) = Cardinality(S) - 1
              /\ Cardinality(S) = 0 <=> S = {}
<1>1. PICK n \in Nat : DOMAIN adj \in SUBSET (0 .. n)
  BY DEF Graph
<1>2. IsFiniteSet(DOMAIN adj)
  <2>1. IsFiniteSet(0 .. n)
    BY FS_Interval
  <2> QED BY <1>1, <2>1, FS_Subset
<1>3. Cardinality(DOMAIN adj) \in Nat
  BY <1>2, FS_CardinalityType
<1>4. ASSUME NEW S \in SUBSET DOMAIN adj
      PROVE  /\ IsFiniteSet(S) /\ Cardinality(S) \in Nat /\ Cardinality(S) <= Cardinality(DOMAIN adj)
             /\ \A x \in S : Cardinality(S \ {x}) = Cardinality(S) - 1
             /\ Cardinality(S) = 0 <=> S = {}
  BY <1>2, FS_CardinalityType, FS_Subset, FS_RemoveElement, FS_EmptySet
<1> QED BY <1>2, <1>3, <1>4

\* A call leads to calls with fewer candidates.
LEMMA BelowIsShorter ==
  ASSUME NEW adj, Graph(adj), NEW k \in Nat, NEW p \in Short(adj, k), NEW q \in Tried(adj, p)
  PROVE  /\ k > 0 /\ q \in p[3] /\ q \in DOMAIN adj /\ Below(adj, p, q) \in Short(adj, k - 1)
         /\ Below(adj, p, q)[1] = Append(p[1], q)
         /\ Below(adj, p, q)[2] = p[2] \cap adj[q]
         /\ Below(adj, p, q)[3] = (p[3] \ {r \in Tried(adj, p) : r <= q}) \cap adj[q]
<1> DEFINE cand == (p[3] \ {r \in Tried(adj, p) : r <= q}) \cap adj[q]
           subg == p[2] \cap adj[q]
<1>1. /\ p[1] \in Seq(DOMAIN adj) /\ p[2] \in SUBSET DOMAIN adj /\ p[3] \in SUBSET DOMAIN adj
      /\ Cardinality(p[3]) <= k
  BY DEF Short, Calls
<1>2. q \in p[3] /\ q \in DOMAIN adj /\ q \in Int
  <2>1. q \in p[3] /\ q \in DOMAIN adj
    BY <1>1 DEF Tried
  <2> QED BY <2>1 DEF Graph
<1>3. cand \in SUBSET (p[3] \ {q}) /\ subg \in SUBSET DOMAIN adj
  <2>1. q <= q
    BY <1>2
  <2> QED BY <1>1, <2>1
<1>4. /\ Cardinality(p[3] \ {q}) = Cardinality(p[3]) - 1 /\ IsFiniteSet(p[3] \ {q})
      /\ Cardinality(p[3]) \in Nat /\ Cardinality(p[3] \ {q}) \in Nat
  <2>1. p[3] \ {q} \in SUBSET DOMAIN adj
    BY <1>1
  <2> QED BY <1>1, <1>2, <2>1, GraphIsFinite
<1> HIDE DEF cand, subg
<1>5. Cardinality(cand) <= Cardinality(p[3] \ {q}) /\ Cardinality(cand) \in Nat
  BY <1>3, <1>4, FS_Subset, FS_CardinalityType
<1>6. k > 0 /\ Cardinality(cand) <= k - 1
  BY <1>1, <1>4, <1>5
<1>7. Append(p[1], q) \in Seq(DOMAIN adj) /\ cand \in SUBSET DOMAIN adj
  BY <1>1, <1>2, <1>3
<1>8. Below(adj, p, q) = <<Append(p[1], q), subg, cand>>
  BY DEF Below, cand, subg
<1>9. Below(adj, p, q) \in Short(adj, k - 1)
  <2>1. <<Append(p[1], q), subg, cand>> \in Calls(adj)
    BY <1>3, <1>7 DEF Calls
  <2>2. <<Append(p[1], q), subg, cand>>[3] = cand
    OBVIOUS
  <2> QED BY <1>6, <1>8, <2>1, <2>2 DEF Short
<1> QED BY <1>2, <1>6, <1>8, <1>9 DEF cand, subg

\* find_cliques follows the recursion it is defined by.
LEMMA CliquesUnfold ==
  ASSUME NEW adj, Graph(adj)
  PROVE  \E F : /\ \A p \in Calls(adj) : F[p] = Finds(adj, F, p)
                /\ FindCliques(adj) = F[<<(<<>>), DOMAIN adj, DOMAIN adj>>]
<1> DEFINE n == Cardinality(DOMAIN adj)
           Table(F, k) == F = [p \in Short(adj, k) |-> Finds(adj, F, p)]
           Good == {k \in 0 .. n : \E F : Table(F, k)}
           All(F) == F = [p \in Calls(adj) |-> Finds(adj, F, p)]
<1>1. n \in Nat /\ Short(adj, n) = Calls(adj)
  BY GraphIsFinite DEF Short, Calls
<1>2. \A k \in Nat : Short(adj, k) \subseteq Short(adj, k + 1)
  <2> SUFFICES ASSUME NEW k \in Nat, NEW p \in Short(adj, k) PROVE p \in Short(adj, k + 1)
    OBVIOUS
  <2>1. p[3] \in SUBSET DOMAIN adj /\ Cardinality(p[3]) <= k /\ p \in Calls(adj)
    BY DEF Short, Calls
  <2>2. Cardinality(p[3]) \in Nat
    BY <2>1, GraphIsFinite
  <2>3. Cardinality(p[3]) <= k + 1
    BY <2>1, <2>2
  <2> QED BY <2>1, <2>3 DEF Short
<1>3. ASSUME NEW k \in Nat, NEW F, NEW G, NEW p \in Short(adj, k),
             \A r \in Short(adj, k - 1) : F[r] = G[r]
      PROVE  Finds(adj, F, p) = Finds(adj, G, p)
  <2>1. \A q \in Tried(adj, p) : F[Below(adj, p, q)] = G[Below(adj, p, q)]
    BY <1>3, BelowIsShorter
  <2> QED BY <2>1 DEF Finds
<1> HIDE DEF n
<1>4. \E F : Table(F, 0)
  <2> DEFINE F == [p \in Short(adj, 0) |-> Finds(adj, adj, p)]
  <2>1. \A p \in Short(adj, 0) : Finds(adj, adj, p) = Finds(adj, F, p)
    <3> SUFFICES ASSUME NEW p \in Short(adj, 0)
                 PROVE  Finds(adj, adj, p) = Finds(adj, F, p)
      OBVIOUS
    <3>1. Tried(adj, p) = {}
      BY BelowIsShorter
    <3> HIDE DEF F
    <3> QED BY <3>1 DEF Finds
  <2>2. Table(F, 0)
    BY <2>1
  <2> QED BY <2>2
<1>5. ASSUME NEW k \in Nat, NEW F, Table(F, k) PROVE \E G : Table(G, k + 1)
  <2> DEFINE G == [p \in Short(adj, k + 1) |-> Finds(adj, F, p)]
  <2>1. \A p \in Short(adj, k) : G[p] = F[p]
    BY <1>2, <1>5
  <2> HIDE DEF G
  <2>2. \A p \in Short(adj, k + 1) : Finds(adj, F, p) = Finds(adj, G, p)
    <3>1. k + 1 \in Nat /\ (k + 1) - 1 = k
      OBVIOUS
    <3> QED BY <1>3, <2>1, <3>1
  <2>3. Table(G, k + 1)
    BY <2>2 DEF G
  <2> QED BY <2>3
<1>6. \E F : All(F)
  <2>1. n \in Good
    <3> HIDE DEF Table
    <3>1. 0 \in Good
      BY <1>1, <1>4
    <3>2. ASSUME NEW k \in 0 .. n - 1, k \in Good PROVE k + 1 \in Good
      <4>1. \E F : Table(F, k + 1)
        BY <1>5, <3>2
      <4> QED BY <1>1, <4>1
    <3> HIDE DEF Good
    <3> QED BY <1>1, <3>1, <3>2, UpTo
  <2> QED BY <1>1, <2>1
<1>7. All(CHOOSE F : All(F))
  <2> HIDE DEF All
  <2> QED BY <1>6
<1>8. FindCliques(adj) = (CHOOSE F : All(F))[<<(<<>>), DOMAIN adj, DOMAIN adj>>]
  BY DEF FindCliques, Calls, Finds, Tried, Below
<1>9. PICK F : All(F) /\ FindCliques(adj) = F[<<(<<>>), DOMAIN adj, DOMAIN adj>>]
  BY <1>7, <1>8
<1>10. \A p \in Calls(adj) : F[p] = Finds(adj, F, p)
  BY <1>9
<1> QED BY <1>9, <1>10

\* The pivot is one of those it may be.
LEMMA PivotIsOne ==
  ASSUME NEW adj, Graph(adj), NEW subg \in SUBSET DOMAIN adj, subg # {},
         NEW cand \in SUBSET DOMAIN adj
  PROVE  Pivot(adj, subg, cand) \in subg
<1> DEFINE covers == [u \in subg |-> Cardinality(cand \cap adj[u])]
           T == {u \in subg : \A v \in subg : covers[v] <= covers[u]}
<1>1. PICK n \in Nat : DOMAIN adj \in SUBSET (0 .. n)
  BY DEF Graph
<1>2. \A u \in subg : covers[u] \in Nat
  <2>1. \A u \in subg : cand \cap adj[u] \in SUBSET DOMAIN adj
    OBVIOUS
  <2>2. \A S \in SUBSET DOMAIN adj : Cardinality(S) \in Nat
    BY GraphIsFinite
  <2> QED BY <2>1, <2>2
<1>3. T # {}
  <2>1. subg \in SUBSET (0 .. n)
    BY <1>1
  <2> HIDE DEF covers
  <2> QED BY <1>2, <2>1, MostOf
<1>4. T \in SUBSET Int /\ \A x \in T : x <= n
  <2>1. \A x \in subg : x \in 0 .. n
    BY <1>1
  <2>2. \A x \in 0 .. n : x \in Int /\ x <= n
    OBVIOUS
  <2> QED BY <2>1, <2>2
<1>5. Pivot(adj, subg, cand) = Max(T)
  BY DEF Pivot
<1>6. Max(T) \in T
  <2>1. n \in Int
    OBVIOUS
  <2> HIDE DEF T
  <2> QED BY <1>3, <1>4, <2>1, GreatestOf
<1> QED BY <1>5, <1>6

\* A call that find_cliques makes: the members so far are a clique, subg is what
\* is consistent with all of them, and the candidates are among that.
Sound(adj, p) ==
  /\ p \in Calls(adj)
  /\ Clique(adj, ToSet(p[1])) /\ Cardinality(ToSet(p[1])) = Len(p[1])
  /\ p[2] = {v \in DOMAIN adj : \A c \in ToSet(p[1]) : v \in adj[c]}
  /\ p[3] \subseteq p[2]

\* What it finds are cliques, and it finds each maximal one that consists of the
\* members so far and of candidates.
Complete(adj, F, p) ==
  /\ \A c \in F[p] : /\ c \in Seq(DOMAIN adj) /\ Clique(adj, ToSet(c))
                     /\ Cardinality(ToSet(c)) = Len(c)
  /\ \A M : Maximal(adj, M) /\ ToSet(p[1]) \subseteq M /\ M \subseteq ToSet(p[1]) \cup p[3]
              => \E c \in F[p] : ToSet(c) = M

\* A member more.
LEMMA Appended ==
  ASSUME NEW S, NEW c \in Seq(S), NEW q \in S
  PROVE  ToSet(Append(c, q)) = ToSet(c) \cup {q} /\ Len(Append(c, q)) = Len(c) + 1
<1>1. /\ DOMAIN Append(c, q) = 1 .. Len(c) + 1 /\ Len(Append(c, q)) = Len(c) + 1
      /\ DOMAIN c = 1 .. Len(c) /\ Len(c) \in Nat
      /\ \A i \in 1 .. Len(c) : Append(c, q)[i] = c[i]
      /\ Append(c, q)[Len(c) + 1] = q
  OBVIOUS
<1>2. \A i : i \in 1 .. Len(c) + 1 <=> i \in 1 .. Len(c) \/ i = Len(c) + 1
  BY <1>1
<1> DEFINE d == Append(c, q)
           n == Len(c) + 1
           I == 1 .. Len(c)
<1>3. DOMAIN d = I \cup {n} /\ DOMAIN c = I /\ d[n] = q /\ \A i \in I : d[i] = c[i]
  BY <1>1, <1>2
<1> HIDE DEF d, n, I
<1>4. ToSet(d) = ToSet(c) \cup {q}
  BY <1>3 DEF ToSet
<1> QED BY <1>1, <1>4 DEF d

\* Calls lead to calls of the same kind.
LEMMA BelowIsSound ==
  ASSUME NEW adj, Graph(adj), NEW p, Sound(adj, p), NEW q \in Tried(adj, p)
  PROVE  Sound(adj, Below(adj, p, q)) /\ ToSet(Below(adj, p, q)[1]) = ToSet(p[1]) \cup {q}
<1> DEFINE C == ToSet(p[1])
           b == Below(adj, p, q)
           k == Cardinality(p[3])
<1>1. /\ p \in Calls(adj) /\ p[1] \in Seq(DOMAIN adj) /\ p[3] \in SUBSET DOMAIN adj
      /\ p[2] \in SUBSET DOMAIN adj
  BY DEF Sound, Calls
<1>2. k \in Nat /\ k <= k /\ k - 1 \in Int
  BY <1>1, GraphIsFinite
<1>3. p \in Short(adj, k)
  BY <1>1, <1>2 DEF Short
<1>4. /\ q \in p[3] /\ q \in DOMAIN adj /\ b \in Short(adj, k - 1)
      /\ b[1] = Append(p[1], q) /\ b[2] = p[2] \cap adj[q]
      /\ b[3] = (p[3] \ {r \in Tried(adj, p) : r <= q}) \cap adj[q]
  BY <1>2, <1>3, BelowIsShorter
<1> HIDE DEF b, k
<1>5. ToSet(b[1]) = C \cup {q} /\ Len(b[1]) = Len(p[1]) + 1 /\ Len(p[1]) \in Nat
  BY <1>1, <1>4, Appended
<1>6. /\ Clique(adj, C) /\ Cardinality(C) = Len(p[1]) /\ p[3] \subseteq p[2]
      /\ p[2] = {v \in DOMAIN adj : \A c \in C : v \in adj[c]}
  BY DEF Sound
<1> HIDE DEF C
<1>7. q \notin C /\ \A c \in C : q \in adj[c] /\ c \in DOMAIN adj /\ c \in adj[q]
  <2>1. \A c \in C : q \in adj[c] /\ c \in DOMAIN adj
    BY <1>4, <1>6 DEF Clique
  <2> QED BY <1>4, <2>1 DEF Graph
<1>8. Clique(adj, C \cup {q})
  BY <1>4, <1>6, <1>7 DEF Clique
<1>9. Cardinality(C \cup {q}) = Len(b[1])
  <2>1. IsFiniteSet(C)
    BY <1>6, GraphIsFinite DEF Clique
  <2> QED BY <1>5, <1>6, <1>7, <2>1, FS_AddElement
<1>10. b[2] = {v \in DOMAIN adj : \A c \in C \cup {q} : v \in adj[c]}
  <2>1. \A v : v \in b[2] <=> v \in DOMAIN adj /\ (\A c \in C : v \in adj[c]) /\ v \in adj[q]
    BY <1>4, <1>6
  <2> QED BY <2>1
<1>11. b[3] \subseteq b[2] /\ b \in Calls(adj)
  BY <1>4, <1>6 DEF Short
<1>12. Sound(adj, b)
  BY <1>5, <1>8, <1>9, <1>10, <1>11 DEF Sound
<1> QED BY <1>5, <1>12 DEF b, C

\* Some candidate that the pivot does not rule out is in the clique: the pivot
\* itself would be, were it consistent with all of it.
LEMMA PivotMissesNone ==
  ASSUME NEW adj, Graph(adj), NEW p, Sound(adj, p), p[2] # {},
         NEW M, Maximal(adj, M), ToSet(p[1]) \subseteq M, M \subseteq ToSet(p[1]) \cup p[3]
  PROVE  \E q \in Tried(adj, p) \cap M : \A r \in Tried(adj, p) \cap M : q <= r
<1> DEFINE C == ToSet(p[1])
           u == Pivot(adj, p[2], p[3])
           E == Tried(adj, p) \cap M
<1>1. p[2] \in SUBSET DOMAIN adj /\ p[3] \in SUBSET DOMAIN adj
  BY DEF Sound, Calls
<1>2. u \in p[2]
  BY <1>1, PivotIsOne
<1>3. Tried(adj, p) = p[3] \ adj[u]
  BY DEF Tried
<1> HIDE DEF u
<1>4. u \in DOMAIN adj /\ \A c \in C : c \in DOMAIN adj /\ u \in adj[c]
  <2>1. u \in DOMAIN adj /\ \A c \in C : u \in adj[c]
    BY <1>2 DEF Sound
  <2>2. C \in SUBSET DOMAIN adj
    BY DEF Sound, Clique
  <2> QED BY <2>1, <2>2
<1> HIDE DEF C
<1>5. C \subseteq M /\ M \subseteq C \cup p[3]
  BY DEF C
<1>6. ASSUME E = {} PROVE FALSE
  <2>1. \A m \in M : m \in C \/ m \in adj[u]
    BY <1>3, <1>5, <1>6
  <2>2. \A m \in M : m \in DOMAIN adj /\ m \in adj[u] /\ u \in adj[m]
    <3>1. M \in SUBSET DOMAIN adj
      BY DEF Maximal, Clique
    <3>2. ASSUME NEW m \in M PROVE m \in DOMAIN adj /\ m \in adj[u] /\ u \in adj[m]
      BY <1>4, <2>1, <3>1 DEF Graph
    <3> QED BY <3>2
  <2>3. Clique(adj, M \cup {u})
    BY <1>4, <2>2 DEF Maximal, Clique
  <2>4. u \in M
    BY <2>3 DEF Maximal
  <2> QED BY <1>4, <2>2, <2>4 DEF Graph
<1>7. E \in SUBSET Nat
  <2>1. E \subseteq DOMAIN adj
    BY <1>1, <1>3
  <2>2. PICK n \in Nat : DOMAIN adj \in SUBSET (0 .. n)
    BY DEF Graph
  <2>3. \A x \in 0 .. n : x \in Nat
    OBVIOUS
  <2> QED BY <2>1, <2>2, <2>3
<1> HIDE DEF E
<1>8. \E q \in E : \A r \in E : q <= r
  BY <1>6, <1>7, LeastOf
<1> QED BY <1>8 DEF E

\* A step of the induction over the number of candidates.
LEMMA CallIsComplete ==
  ASSUME NEW adj, Graph(adj), NEW F, \A p \in Calls(adj) : F[p] = Finds(adj, F, p),
         NEW p, Sound(adj, p),
         \A q \in Tried(adj, p) : Complete(adj, F, Below(adj, p, q))
  PROVE  Complete(adj, F, p)
<1>1. p \in Calls(adj) /\ F[p] = Finds(adj, F, p)
  BY DEF Sound
<1>2. CASE p[2] = {}
  <2>1. F[p] = {p[1]}
    BY <1>1, <1>2 DEF Finds
  <2>2. p[1] \in Seq(DOMAIN adj) /\ p[3] = {}
    BY <1>1, <1>2 DEF Calls, Sound
  <2>3. Clique(adj, ToSet(p[1])) /\ Cardinality(ToSet(p[1])) = Len(p[1])
    BY DEF Sound
  <2>4. p[1] \in F[p] /\ \A c \in F[p] : c = p[1]
    BY <2>1
  <2>5. \A M : ToSet(p[1]) \subseteq M /\ M \subseteq ToSet(p[1]) \cup p[3] => ToSet(p[1]) = M
    BY <2>2
  <2> QED BY <2>2, <2>3, <2>4, <2>5 DEF Complete
<1>3. CASE p[2] # {}
  <2>1. F[p] = UNION {F[Below(adj, p, q)] : q \in Tried(adj, p)}
    BY <1>1, <1>3 DEF Finds
  <2>2. ASSUME NEW c \in F[p]
        PROVE  c \in Seq(DOMAIN adj) /\ Clique(adj, ToSet(c)) /\ Cardinality(ToSet(c)) = Len(c)
    <3>1. PICK q \in Tried(adj, p) : c \in F[Below(adj, p, q)]
      BY <2>1
    <3> QED BY <3>1 DEF Complete
  <2>3. ASSUME NEW M, Maximal(adj, M), ToSet(p[1]) \subseteq M, M \subseteq ToSet(p[1]) \cup p[3]
        PROVE  \E c \in F[p] : ToSet(c) = M
    <3>1. PICK q \in Tried(adj, p) \cap M : \A r \in Tried(adj, p) \cap M : q <= r
      BY <1>3, <2>3, PivotMissesNone
    <3> DEFINE b == Below(adj, p, q)
    <3>2. ToSet(b[1]) = ToSet(p[1]) \cup {q} /\ Complete(adj, F, b)
      BY BelowIsSound
    <3>3. b[3] = (p[3] \ {r \in Tried(adj, p) : r <= q}) \cap adj[q]
      BY DEF Below
    <3> HIDE DEF b
    <3>4. ASSUME NEW m \in M, m \notin ToSet(p[1]), m # q PROVE m \in b[3]
      <4>1. m \in p[3] /\ m \in adj[q]
        BY <2>3, <3>4 DEF Maximal, Clique
      <4>2. ASSUME m \in Tried(adj, p), m <= q PROVE FALSE
        <5>1. m \in Int /\ q \in Int
          <6>1. PICK n \in Nat : DOMAIN adj \in SUBSET (0 .. n)
            BY DEF Graph
          <6>2. m \in 0 .. n /\ q \in 0 .. n
            BY <6>1, <2>3 DEF Maximal, Clique
          <6> QED BY <6>2
        <5>2. q <= m
          BY <3>1, <4>2
        <5> QED BY <3>4, <4>2, <5>1, <5>2
      <4> QED BY <3>3, <4>1, <4>2
    <3>5. ToSet(b[1]) \subseteq M /\ M \subseteq ToSet(b[1]) \cup b[3]
      BY <2>3, <3>2, <3>4
    <3>6. PICK c \in F[b] : ToSet(c) = M
      BY <2>3, <3>2, <3>5 DEF Complete
    <3>7. c \in F[p]
      BY <2>1, <3>6 DEF b
    <3> QED BY <3>6, <3>7
  <2> QED BY <2>2, <2>3 DEF Complete
<1> QED BY <1>2, <1>3

\* find_cliques finds cliques, and all that are maximal.
LEMMA CliquesAreFound ==
  ASSUME NEW adj, Graph(adj)
  PROVE  /\ \A c \in FindCliques(adj) : /\ c \in Seq(DOMAIN adj) /\ Clique(adj, ToSet(c))
                                        /\ Cardinality(ToSet(c)) = Len(c)
         /\ \A M : Maximal(adj, M) => \E c \in FindCliques(adj) : ToSet(c) = M
<1> DEFINE n == Cardinality(DOMAIN adj)
           top == <<(<<>>), DOMAIN adj, DOMAIN adj>>
<1>1. PICK F : (\A p \in Calls(adj) : F[p] = Finds(adj, F, p)) /\ FindCliques(adj) = F[top]
  BY CliquesUnfold
<1> DEFINE Good == {k \in 0 .. n : \A p \in Short(adj, k) : Sound(adj, p) => Complete(adj, F, p)}
<1>2. n \in Nat
  BY GraphIsFinite
<1>3. ASSUME NEW k \in Nat,
             \A p \in Short(adj, k - 1) : Sound(adj, p) => Complete(adj, F, p)
      PROVE  \A p \in Short(adj, k) : Sound(adj, p) => Complete(adj, F, p)
  <2> SUFFICES ASSUME NEW p \in Short(adj, k), Sound(adj, p) PROVE Complete(adj, F, p)
    OBVIOUS
  <2>1. \A q \in Tried(adj, p) : Complete(adj, F, Below(adj, p, q))
    BY <1>3, BelowIsShorter, BelowIsSound
  <2> QED BY <1>1, <2>1, CallIsComplete
<1> HIDE DEF n
<1>4. 0 \in Good
  <2>1. Short(adj, 0 - 1) = {}
    <3> SUFFICES ASSUME NEW p \in Short(adj, 0 - 1) PROVE FALSE
      OBVIOUS
    <3>1. p[3] \in SUBSET DOMAIN adj /\ Cardinality(p[3]) <= 0 - 1
      BY DEF Short, Calls
    <3>2. Cardinality(p[3]) \in Nat
      BY <3>1, GraphIsFinite
    <3> QED BY <3>1, <3>2
  <2>2. \A p \in Short(adj, 0) : Sound(adj, p) => Complete(adj, F, p)
    BY <1>3, <2>1
  <2> QED BY <1>2, <2>2
<1>5. ASSUME NEW k \in 0 .. n - 1, k \in Good PROVE k + 1 \in Good
  <2>1. k + 1 \in Nat /\ (k + 1) - 1 = k /\ k + 1 \in 0 .. n
    BY <1>2
  <2>2. \A p \in Short(adj, k + 1) : Sound(adj, p) => Complete(adj, F, p)
    BY <1>3, <1>5, <2>1
  <2> QED BY <2>1, <2>2
<1>6. n \in Good
  <2> HIDE DEF Good
  <2> QED BY <1>2, <1>4, <1>5, UpTo
<1>7. top \in Short(adj, n) /\ Sound(adj, top) /\ ToSet(top[1]) = {}
  <2>1. ToSet(<<>>) = {} /\ Len(<<>>) = 0 /\ <<>> \in Seq(DOMAIN adj)
    BY DEF ToSet
  <2>2. top \in Calls(adj) /\ top[1] = <<>> /\ top[2] = DOMAIN adj /\ top[3] = DOMAIN adj
    BY <2>1 DEF Calls
  <2> HIDE DEF top
  <2>3. n <= n
    BY <1>2
  <2>4. Cardinality({}) = 0
    BY FS_EmptySet
  <2>5. Sound(adj, top)
    BY <2>1, <2>2, <2>4 DEF Sound, Clique
  <2> QED BY <2>1, <2>2, <2>3, <2>5 DEF Short, n
<1>8. Complete(adj, F, top)
  BY <1>6, <1>7
<1>9. \A M : Maximal(adj, M) => M \subseteq ToSet(top[1]) \cup top[3]
  BY DEF Maximal, Clique
<1> HIDE DEF top
<1> QED BY <1>1, <1>7, <1>8, <1>9 DEF Complete

\* Every clique is part of a maximal one: of those it is part of, a largest.
LEMMA CliqueExtends ==
  ASSUME NEW adj, Graph(adj), NEW S, Clique(adj, S)
  PROVE  \E M : Maximal(adj, M) /\ S \subseteq M /\ Cardinality(S) <= Cardinality(M)
<1> DEFINE Wider == {M \in SUBSET DOMAIN adj : Clique(adj, M) /\ S \subseteq M}
           T == {Cardinality(M) : M \in Wider}
           n == Cardinality(DOMAIN adj)
<1>1. /\ n \in Nat
      /\ \A M \in Wider : IsFiniteSet(M) /\ Cardinality(M) \in Nat /\ Cardinality(M) <= n
  BY GraphIsFinite
<1>2. S \in Wider
  BY DEF Clique
<1>3. \E M \in Wider : \A L \in Wider : Cardinality(L) <= Cardinality(M)
  <2>1. T \in SUBSET Int /\ T # {} /\ \A x \in T : x <= n
    <3> HIDE DEF Wider, n
    <3> QED BY <1>1, <1>2
  <2>2. \A L \in Wider : Cardinality(L) \in T
    OBVIOUS
  <2>3. \A x \in T : \E M \in Wider : x = Cardinality(M)
    OBVIOUS
  <2>4. n \in Int
    BY <1>1
  <2> HIDE DEF T, n, Wider
  <2>5. Max(T) \in T /\ \A x \in T : x <= Max(T)
    BY <2>1, <2>4, GreatestOf
  <2> QED BY <2>2, <2>3, <2>5
<1>4. PICK M \in Wider : \A L \in Wider : Cardinality(L) <= Cardinality(M)
  BY <1>3
<1>5. ASSUME NEW L, Clique(adj, L), M \subseteq L PROVE L = M
  <2>1. L \in Wider
    BY <1>5 DEF Clique
  <2>2. Cardinality(L) <= Cardinality(M) /\ Cardinality(M) \in Nat /\ Cardinality(L) \in Nat
        /\ IsFiniteSet(L)
    BY <1>1, <1>4, <2>1
  <2> HIDE DEF Wider
  <2>3. Cardinality(M) <= Cardinality(L) /\ (Cardinality(M) = Cardinality(L) => M = L)
    BY <1>5, <2>2, FS_Subset
  <2> QED BY <2>2, <2>3
<1>6. Maximal(adj, M)
  BY <1>5 DEF Maximal
<1>7. Cardinality(S) <= Cardinality(M)
  BY <1>2, <1>4
<1> QED BY <1>6, <1>7

\* The pairs that count make a graph, whose cliques of two or more are the
\* agreements.
LEMMA VotesMakeGraph ==
  ASSUME NEW n \in Nat, NEW edges \in SUBSET Pairs(n), NEW rejected \in SUBSET Queue(n)
  PROVE  LET votes == Voting(edges, rejected)
             adj   == Adjacency(votes)
         IN  /\ Graph(adj)
             /\ \A S : Clique(adj, S) => S \in SUBSET Queue(n) /\ Agreement(S, edges, rejected)
             /\ \A S \in SUBSET Queue(n) :
                  Agreement(S, edges, rejected) /\ Cardinality(S) >= 2 => Clique(adj, S)
             /\ votes # {} => \E S : Clique(adj, S) /\ Cardinality(S) = 2
<1> DEFINE votes == Voting(edges, rejected)
           adj   == Adjacency(votes)
           V     == UNION {{e[1], e[2]} : e \in votes}
<1>1. \A e \in votes : /\ e = <<e[1], e[2]>> /\ e \in edges
                       /\ e[1] \in Queue(n) /\ e[2] \in Queue(n) /\ e[1] < e[2]
                       /\ e[1] \notin rejected /\ e[2] \notin rejected
  BY DEF Voting, Pairs
<1>2. \A a, b : <<a, b>> \in edges /\ a \notin rejected /\ b \notin rejected
                  => <<a, b>> \in votes
  BY DEF Voting
<1>3. /\ DOMAIN adj = V
      /\ \A v \in V : adj[v] = {u \in V : <<u, v>> \in votes \/ <<v, u>> \in votes}
      /\ adj = [v \in V |-> adj[v]]
  BY DEF Adjacency
<1> HIDE DEF votes, adj
<1>4. \A a, b : <<a, b>> \in votes =>
        /\ a \in V /\ b \in V /\ a \in Queue(n) /\ b \in Queue(n) /\ a < b
        /\ a \notin rejected /\ b \notin rejected /\ <<a, b>> \in edges
  <2> SUFFICES ASSUME NEW a, NEW b, <<a, b>> \in votes
               PROVE  /\ a \in V /\ b \in V /\ a \in Queue(n) /\ b \in Queue(n) /\ a < b
                      /\ a \notin rejected /\ b \notin rejected /\ <<a, b>> \in edges
    OBVIOUS
  <2>1. <<a, b>>[1] = a /\ <<a, b>>[2] = b
    OBVIOUS
  <2>2. a \in {<<a, b>>[1], <<a, b>>[2]} /\ b \in {<<a, b>>[1], <<a, b>>[2]}
    BY <2>1
  <2>3. a \in V /\ b \in V
    BY <2>2
  <2> HIDE DEF V
  <2> QED BY <1>1, <2>1, <2>3
<1>5. \A v \in V : v \in Queue(n) /\ v \notin rejected
  BY <1>1
<1> HIDE DEF V
<1>6. Queue(n) = 1 .. n
  BY DEF Queue
<1>7. Graph(adj)
  <2>1. V \in SUBSET (0 .. n)
    BY <1>5, <1>6
  <2>2. adj \in [V -> SUBSET V]
    <3> DEFINE Near(v) == {u \in V : <<u, v>> \in votes \/ <<v, u>> \in votes}
    <3>0. \A v : Near(v) \in SUBSET V
      OBVIOUS
    <3>2. \A v \in V : adj[v] = Near(v)
      BY <1>3
    <3> HIDE DEF Near
    <3>1. \A v \in V : adj[v] \in SUBSET V
      BY <3>0, <3>2
    <3> HIDE DEF adj
    <3> QED BY <1>3, <3>1
  <2>3. \A v \in V : v \notin adj[v]
    <3>1. \A v \in V : ~(v < v)
      BY <1>5, <1>6
    <3> QED BY <1>3, <1>4, <3>1
  <2>4. \A u, v \in V : u \in adj[v] => v \in adj[u]
    BY <1>3
  <2> QED BY <1>3, <2>1, <2>2, <2>3, <2>4 DEF Graph
<1>8. ASSUME NEW S, Clique(adj, S)
      PROVE  S \in SUBSET Queue(n) /\ Agreement(S, edges, rejected)
  <2>1. S \in SUBSET V /\ S \in SUBSET Queue(n) /\ S \cap rejected = {}
    BY <1>3, <1>5, <1>8 DEF Clique
  <2>2. ASSUME NEW a \in S, NEW b \in S, a < b PROVE <<a, b>> \in edges
    <3>1. a \in Int /\ b \in Int /\ a \in V /\ b \in V
      BY <1>6, <2>1
    <3>2. a # b /\ ~(b < a)
      BY <2>2, <3>1
    <3>3. <<a, b>> \in votes \/ <<b, a>> \in votes
      BY <1>3, <1>8, <3>1, <3>2 DEF Clique
    <3> QED BY <1>4, <3>2, <3>3
  <2> QED BY <2>1, <2>2 DEF Agreement
<1>9. ASSUME NEW S \in SUBSET Queue(n), Agreement(S, edges, rejected), Cardinality(S) >= 2
      PROVE  Clique(adj, S)
  <2>1. ASSUME NEW a \in S, NEW b \in S, a # b
        PROVE  /\ <<a, b>> \in votes \/ <<b, a>> \in votes
               /\ a \in V /\ b \in V
    <3>1. a \in Int /\ b \in Int /\ a \notin rejected /\ b \notin rejected
      BY <1>6, <1>9 DEF Agreement
    <3>2. a < b \/ b < a
      BY <2>1, <3>1
    <3> QED BY <1>2, <1>4, <1>9, <3>1, <3>2 DEF Agreement
  <2>2. ASSUME NEW a \in S PROVE \E b \in S : a # b
    <3>1. CASE \A b \in S : a = b
      <4>1. S = {a}
        BY <3>1
      <4>2. Cardinality(S) = 1
        BY <4>1, FS_Singleton
      <4> QED BY <1>9, <4>2
    <3> QED BY <3>1
  <2>3. S \in SUBSET V
    BY <2>1, <2>2
  <2>4. ASSUME NEW a \in S, NEW b \in S, a # b PROVE b \in adj[a]
    <3>1. /\ a \in V /\ b \in V
          /\ <<a, b>> \in votes \/ <<b, a>> \in votes
      BY <2>1, <2>4
    <3> QED BY <1>3, <3>1
  <2> QED BY <1>3, <2>3, <2>4 DEF Clique
<1>10. ASSUME votes # {} PROVE \E S : Clique(adj, S) /\ Cardinality(S) = 2
  <2>1. PICK e \in votes : TRUE
    BY <1>10
  <2> DEFINE a == e[1]
             b == e[2]
  <2>2. <<a, b>> \in votes
    BY <1>1
  <2> HIDE DEF a, b
  <2>3. a \in V /\ b \in V /\ a \in Int /\ b \in Int /\ a < b
    BY <1>4, <1>6, <2>2
  <2>4. Clique(adj, {a, b})
    <3>1. b \in adj[a] /\ a \in adj[b]
      BY <1>3, <2>2, <2>3
    <3> QED BY <1>3, <2>3, <3>1 DEF Clique
  <2>5. Cardinality({a, b}) = 2
    <3>1. a # b
      BY <2>3
    <3>2. IsFiniteSet({a}) /\ Cardinality({a}) = 1 /\ b \notin {a} /\ {a, b} = {a} \cup {b}
      BY <3>1, FS_Singleton
    <3>3. Cardinality({a} \cup {b}) = 1 + 1
      BY <3>2, FS_AddElement
    <3> QED BY <3>2, <3>3
  <2> QED BY <2>4, <2>5
<1> QED BY <1>7, <1>8, <1>9, <1>10 DEF votes, adj

\* What verify_pcm answers is a largest agreement.
LEMMA AnswerIsLargest ==
  ASSUME NEW n \in Nat, NEW edges \in SUBSET Pairs(n), NEW rejected \in SUBSET Queue(n)
  PROVE  IsLargest(VerifyPcm(n, edges, rejected), n, edges, rejected)
<1> DEFINE votes == Voting(edges, rejected)
           adj   == Adjacency(votes)
           cliques == FindCliques(adj)
           all   == Insertable(n, edges, rejected)
           answer == VerifyPcm(n, edges, rejected)
           best  == Longest(cliques)
<1>1. /\ Graph(adj)
      /\ \A S : Clique(adj, S) => S \in SUBSET Queue(n) /\ Agreement(S, edges, rejected)
      /\ \A S \in SUBSET Queue(n) :
           Agreement(S, edges, rejected) /\ Cardinality(S) >= 2 => Clique(adj, S)
      /\ votes # {} => \E S : Clique(adj, S) /\ Cardinality(S) = 2
  BY VotesMakeGraph
<1>2. answer = IF n < MinPcm \/ votes = {} THEN <<>>
               ELSE IF cliques = {} \/ Len(best) < MinPcm THEN <<>> ELSE best
  BY DEF VerifyPcm
<1>3. /\ \A c \in cliques : /\ c \in Seq(DOMAIN adj) /\ Clique(adj, ToSet(c))
                          /\ Cardinality(ToSet(c)) = Len(c)
      /\ \A M : Maximal(adj, M) => \E c \in cliques : ToSet(c) = M
  BY <1>1, CliquesAreFound
<1>4. /\ \A S \in SUBSET Queue(n) : Cardinality(S) \in Nat /\ Cardinality(S) <= n
      /\ MinPcm \in Nat
  <2>1. IsFiniteSet(Queue(n)) /\ Cardinality(Queue(n)) = n
    BY FS_Interval DEF Queue
  <2> QED BY <2>1, FS_Subset, FS_CardinalityType, PcmAssumption
<1>5. all = {S \in SUBSET Queue(n) : /\ Cardinality(S) >= 2 /\ Cardinality(S) >= MinPcm
                                     /\ Agreement(S, edges, rejected)}
  BY DEF Insertable
<1> HIDE DEF votes, adj, cliques, all, answer, best
<1>6. \A S \in all : /\ n >= MinPcm /\ Clique(adj, S) /\ Cardinality(S) \in Nat
                     /\ Cardinality(S) >= 2 /\ Cardinality(S) >= MinPcm
  BY <1>1, <1>4, <1>5
<1>7. \A c \in cliques : Len(c) \in Nat /\ Len(c) <= n
  BY <1>1, <1>3, <1>4
<1>8. \A S : Clique(adj, S) => \E c \in cliques : Cardinality(S) <= Len(c)
  <2> SUFFICES ASSUME NEW S, Clique(adj, S) PROVE \E c \in cliques : Cardinality(S) <= Len(c)
    OBVIOUS
  <2>1. PICK M : Maximal(adj, M) /\ Cardinality(S) <= Cardinality(M)
    BY <1>1, CliqueExtends
  <2>2. PICK c \in cliques : ToSet(c) = M
    BY <1>3, <2>1
  <2> QED BY <1>3, <2>1, <2>2
<1>9. cliques # {} => best \in cliques /\ \A c \in cliques : Len(c) <= Len(best)
  <2> SUFFICES ASSUME cliques # {} PROVE \E c \in cliques : \A d \in cliques : Len(d) <= Len(c)
    BY DEF Longest, best
  <2> DEFINE T == {Len(c) : c \in cliques}
  <2>1. T \in SUBSET Int /\ T # {} /\ (\A x \in T : x <= n) /\ n \in Int
    <3>1. \A c \in cliques : Len(c) \in Int /\ Len(c) <= n
      BY <1>7
    <3>2. \A x \in T : x \in Int /\ x <= n
      BY <3>1
    <3>3. T # {}
      OBVIOUS
    <3> HIDE DEF T
    <3> QED BY <3>2, <3>3
  <2>2. (\A d \in cliques : Len(d) \in T) /\ \A x \in T : \E c \in cliques : x = Len(c)
    OBVIOUS
  <2> HIDE DEF T
  <2>3. Max(T) \in T /\ \A x \in T : x <= Max(T)
    BY <2>1, GreatestOf
  <2> QED BY <2>2, <2>3
<1>10. ASSUME NEW S \in all
       PROVE  /\ votes # {} /\ cliques # {} /\ best \in cliques
              /\ Cardinality(S) <= Len(best)
  <2>1. PICK c \in cliques : Cardinality(S) <= Len(c)
    BY <1>6, <1>8
  <2>2. Len(c) <= Len(best) /\ best \in cliques /\ Len(c) \in Nat /\ Len(best) \in Nat
        /\ Cardinality(S) \in Nat
    BY <1>6, <1>7, <1>9, <2>1
  <2>3. Cardinality(S) <= Len(best)
    BY <2>1, <2>2
  <2>4. votes # {}
    <3> SUFFICES ASSUME votes = {} PROVE FALSE
      OBVIOUS
    <3>1. adj = Adjacency({}) /\ DOMAIN Adjacency({}) = {}
      BY DEF adj, Adjacency
    <3>2. S = {}
      BY <1>6, <3>1 DEF Clique
    <3>3. Cardinality(S) = 0
      BY <3>2, FS_EmptySet
    <3> QED BY <1>6, <3>3
  <2> QED BY <2>2, <2>3, <2>4
<1>11. ASSUME cliques # {}, Len(best) >= 2, Len(best) >= MinPcm
       PROVE  ToSet(best) \in all /\ Cardinality(ToSet(best)) = Len(best)
  <2>1. best \in cliques
    BY <1>9, <1>11
  <2>2. Clique(adj, ToSet(best)) /\ Cardinality(ToSet(best)) = Len(best)
    BY <1>3, <2>1
  <2> QED BY <1>1, <1>5, <1>11, <2>2
<1>12. CASE all = {}
  <2>1. ASSUME ~(n < MinPcm), votes # {}, cliques # {}, ~(Len(best) < MinPcm) PROVE FALSE
    <3>1. PICK S : Clique(adj, S) /\ Cardinality(S) = 2
      BY <1>1, <2>1
    <3>2. PICK c \in cliques : 2 <= Len(c)
      BY <1>8, <3>1
    <3>3. Len(c) <= Len(best) /\ Len(best) \in Nat /\ Len(c) \in Nat
      BY <1>7, <1>9, <2>1
    <3>4. Len(best) >= 2 /\ Len(best) >= MinPcm
      BY <1>4, <2>1, <3>2, <3>3
    <3> QED BY <1>11, <1>12, <2>1, <3>4
  <2>2. answer = <<>>
    BY <1>2, <2>1
  <2> QED BY <1>12, <2>2 DEF IsLargest, all, answer
<1>13. CASE all # {}
  <2>1. PICK S \in all : TRUE
    BY <1>13
  <2>2. /\ n >= MinPcm /\ Cardinality(S) \in Nat
        /\ Cardinality(S) >= 2 /\ Cardinality(S) >= MinPcm
    BY <1>6
  <2>3. votes # {} /\ cliques # {} /\ Cardinality(S) <= Len(best) /\ Len(best) \in Nat
    BY <1>7, <1>10
  <2>4. Len(best) >= 2 /\ Len(best) >= MinPcm /\ ~(Len(best) < MinPcm) /\ ~(n < MinPcm)
    BY <1>4, <2>2, <2>3
  <2>5. answer = best
    BY <1>2, <2>3, <2>4
  <2>6. ToSet(best) \in all /\ Cardinality(ToSet(best)) = Len(best)
    BY <1>11, <2>3, <2>4
  <2>7. \A L \in all : Cardinality(L) <= Len(best)
    BY <1>10
  <2> QED BY <1>13, <2>5, <2>6, <2>7 DEF IsLargest, all, answer
<1> QED BY <1>12, <1>13

QueueInv == stage = "queued" => queued \in 0 .. MaxQueue

\* Whichever closures agree and whichever were rejected: what verify_pcm inserts
\* is a largest set of closures that agree pairwise and were not rejected, and it
\* inserts nothing if there is no such set of min_pcm, for queues of any length.
\* The branches that the pivots of find_cliques cut hold no larger one.
THEOREM LargestAgreementWins == Spec => []LargestCliqueWins
<1>1. Init => QueueInv
  BY DEF Init, QueueInv
<1>2. QueueInv /\ [Next]_vars => QueueInv'
  <2> SUFFICES ASSUME QueueInv, [Next]_vars PROVE QueueInv'
    OBVIOUS
  <2>1. CASE Offer
    <3>1. MaxQueue \in Nat
      BY PcmAssumption DEF MaxQueue
    <3> QED BY <2>1, <3>1 DEF Offer, QueueInv
  <2>2. ASSUME NEW s \in Sources, Search(s) PROVE QueueInv'
    BY <2>2 DEF Search, QueueInv
  <2>3. CASE Frame \/ Between \/ SearchFails \/ Register \/ Sample \/ Refused
             \/ NoClique \/ Insert \/ Judge
    BY <2>3 DEF Frame, Between, SearchFails, Register, Sample, Refused,
                NoClique, Insert, Judge, Leave, loopVars, QueueInv
  <2>4. CASE UNCHANGED vars
    BY <2>4 DEF vars, loopVars, QueueInv
  <2> QED BY <2>1, <2>2, <2>3, <2>4 DEF Next
<1>3. QueueInv => LargestCliqueWins
  <2>1. ASSUME NEW n \in 0 .. MaxQueue PROVE n \in AnsweredRight
    BY AnswerIsLargest DEF AnsweredRight
  <2> QED BY <2>1 DEF QueueInv, LargestCliqueWins
<1> QED BY <1>1, <1>2, <1>3, PTL DEF Spec
=============================================================================
