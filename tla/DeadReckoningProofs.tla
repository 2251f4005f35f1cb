------------------------ MODULE DeadReckoningProofs ------------------------
(***************************************************************************)
(* What DeadReckoning guarantees for every horizon, gap, coast budget and  *)
(* number of rewinds.  That no motion is counted twice needs one           *)
(* assumption: no pair is late by as much as the span that is taken for a  *)
(* rewound clock.                                                          *)
(***************************************************************************)
EXTENDS DeadReckoning, ApproxSync, FiniteSetTheorems, SequenceTheorems,
        WellFoundedInduction, TLAPS

\* The ranges the arithmetic of the other parts needs.
Ranges ==
  /\ now \in 0 .. Horizon /\ att \in 0 .. now /\ lastPair \in 0 .. now
  /\ prev \in 0 .. Horizon /\ started \in BOOLEAN
  /\ travel \in [Stamp -> Nat]
  /\ ~started => prev = 0

\* No tick beyond the one published was integrated, and none twice.
OnceUpToPrev ==
  \A t \in Stamp : travel[t] <= 1 /\ (t > prev => travel[t] = 0)

\* While the published stamp is ahead of the node's clock, which only a
\* rewind brings about, this pass has integrated nothing, and the pairs it
\* had so far were within the span that is absorbed.
AheadOnlyAfterRewind ==
  prev > now =>
    /\ \A t \in Stamp : travel[t] = 0
    /\ lastPair # 0 => prev - lastPair < RewindSpan

RangeInv == Ranges /\ NothingLeftOut

OnceInv == Ranges /\ OnceUpToPrev /\ AheadOnlyAfterRewind

----------------------------------------------------------------------------
(* Nothing is left out.                                                    *)

LEMMA RangeInit == Init => RangeInv
<1> SUFFICES ASSUME Init PROVE RangeInv
  OBVIOUS
<1>1. travel \in [Stamp -> Nat]
  BY DEF Init
<1>2. now = 0 /\ att = 0 /\ lastPair = 0 /\ prev = 0 /\ started = FALSE
  BY DEF Init
<1>3. Ranges
  <2>1. 0 \in 0 .. Horizon /\ 0 \in 0 .. 0
    BY ReckoningAssumption
  <2>2. now \in 0 .. Horizon /\ prev \in 0 .. Horizon
    BY <1>2, <2>1, Zenon
  <2>3. att \in 0 .. now /\ lastPair \in 0 .. now
    BY <1>2, <2>1, Zenon
  <2> QED BY <1>1, <1>2, <2>2, <2>3, Zenon DEF Ranges
<1>4. NothingLeftOut
  BY <1>2 DEF NothingLeftOut, Stamp, Init
<1> QED BY <1>3, <1>4 DEF RangeInv

\* A pair moves the published stamp to its own, or leaves it.
LEMMA RangePair ==
  ASSUME RangeInv, NEW t \in Stamp, NEW spike \in BOOLEAN, Pair(t, spike)
  PROVE  RangeInv'
<1> USE ReckoningAssumption DEF Stamp, RangeInv, Ranges, NothingLeftOut, Pair
<1>1. CASE Absorb(t, spike)
  BY <1>1 DEF Absorb, Covered
<1>2. CASE IgnoreSpike(t, spike)
  BY <1>2 DEF IgnoreSpike, odomVars
<1>3. CASE Start(t, spike)
  BY <1>3 DEF Start
<1>4. CASE HoldGap(t, spike)
  BY <1>4 DEF HoldGap
<1>5. CASE HoldRewind(t, spike)
  BY <1>5 DEF HoldRewind
<1>6. CASE Integrate(t, spike)
  BY <1>6 DEF Integrate, Integrated
<1> QED BY <1>1, <1>2, <1>3, <1>4, <1>5, <1>6

LEMMA RangeOther ==
  ASSUME RangeInv,
         \/ \E t \in Stamp : Attitude(t)
         \/ Coast \/ Reanchor \/ Tick \/ Rewind
         \/ UNCHANGED vars
  PROVE  RangeInv'
<1> USE ReckoningAssumption DEF Stamp, RangeInv, Ranges, NothingLeftOut
<1>1. CASE \E t \in Stamp : Attitude(t)
  BY <1>1 DEF Attitude, odomVars
<1>2. CASE Coast
  BY <1>2 DEF Coast, Integrated
<1>3. CASE Reanchor
  BY <1>3 DEF Reanchor, odomVars
<1>4. CASE Tick
  BY <1>4 DEF Tick, odomVars
<1>5. CASE Rewind
  BY <1>5 DEF Rewind
<1>6. CASE UNCHANGED vars
  BY <1>6 DEF vars, odomVars
<1> QED BY <1>1, <1>2, <1>3, <1>4, <1>5, <1>6

LEMMA RangeInvariant == Spec => []RangeInv
<1>1. RangeInv /\ [Next]_vars => RangeInv'
  BY RangePair, RangeOther DEF Next
<1> QED BY <1>1, RangeInit, PTL DEF Spec

\* Whatever is absorbed, coasted over or held, the motion of every tick up to
\* the one published was integrated, or lies in a gap the gate held.
THEOREM MotionIsComplete == Spec => []NothingLeftOut
<1>1. RangeInv => NothingLeftOut
  BY DEF RangeInv
<1> QED BY <1>1, RangeInvariant, PTL

----------------------------------------------------------------------------
(* Nothing is counted twice.                                               *)

LEMMA OnceInit == Init => OnceInv
<1> SUFFICES ASSUME Init PROVE OnceInv
  OBVIOUS
<1>1. Ranges
  BY RangeInit DEF RangeInv
<1>2. \A t \in Stamp : travel[t] = 0
  BY DEF Init
<1>3. ~(prev > now)
  BY DEF Init
<1> QED BY <1>1, <1>2, <1>3 DEF OnceInv, OnceUpToPrev, AheadOnlyAfterRewind

\* A pair that goes back further than the span finds the published stamp
\* ahead of the clock, so this pass has integrated nothing yet.
LEMMA OncePair ==
  ASSUME MaxLate < RewindSpan, OnceInv,
         NEW t \in Stamp, NEW spike \in BOOLEAN, Pair(t, spike)
  PROVE  OnceInv'
<1> USE ReckoningAssumption
    DEF Stamp, OnceInv, Ranges, OnceUpToPrev, AheadOnlyAfterRewind, Pair
<1>1. CASE Absorb(t, spike)
  BY <1>1 DEF Absorb, Covered
<1>2. CASE IgnoreSpike(t, spike)
  BY <1>2 DEF IgnoreSpike, odomVars
<1>3. CASE Start(t, spike)
  BY <1>3 DEF Start
<1>4. CASE HoldGap(t, spike)
  BY <1>4 DEF HoldGap
<1>5. CASE HoldRewind(t, spike)
  <2>1. prev > now
    BY <1>5 DEF HoldRewind, Covered
  <2> QED BY <1>5, <2>1 DEF HoldRewind
<1>6. CASE Integrate(t, spike)
  BY <1>6 DEF Integrate, Integrated
<1> QED BY <1>1, <1>2, <1>3, <1>4, <1>5, <1>6

LEMMA OnceOther ==
  ASSUME OnceInv,
         \/ \E t \in Stamp : Attitude(t)
         \/ Coast \/ Reanchor \/ Tick \/ Rewind
         \/ UNCHANGED vars
  PROVE  OnceInv'
<1> USE ReckoningAssumption
    DEF Stamp, OnceInv, Ranges, OnceUpToPrev, AheadOnlyAfterRewind
<1>1. CASE \E t \in Stamp : Attitude(t)
  BY <1>1 DEF Attitude, odomVars
<1>2. CASE Coast
  BY <1>2 DEF Coast, Integrated
<1>3. CASE Reanchor
  BY <1>3 DEF Reanchor, odomVars
<1>4. CASE Tick
  BY <1>4 DEF Tick, odomVars
<1>5. CASE Rewind
  BY <1>5 DEF Rewind
<1>6. CASE UNCHANGED vars
  BY <1>6 DEF vars, odomVars
<1> QED BY <1>1, <1>2, <1>3, <1>4, <1>5, <1>6

LEMMA OnceInvariant ==
  ASSUME MaxLate < RewindSpan
  PROVE  Spec => []OnceInv
<1>1. OnceInv /\ [Next]_vars => OnceInv'
  BY OncePair, OnceOther DEF Next
<1> QED BY <1>1, OnceInit, PTL DEF Spec

\* If no pair is late by the span taken for a rewind, coast and late pairs
\* together never add the motion of a tick twice.
THEOREM NothingCountsTwice ==
  ASSUME MaxLate < RewindSpan
  PROVE  Spec => []NeverDoubleCounted
<1>1. OnceInv => NeverDoubleCounted
  BY DEF OnceInv, OnceUpToPrev, NeverDoubleCounted
<1> QED BY <1>1, OnceInvariant, PTL

\* Under the same assumption the published stamps go back only with the
\* first pair after the clock was rewound.
THEOREM StampsGoForward ==
  ASSUME MaxLate < RewindSpan
  PROVE  Spec => OnlyRewindsGoBack
<1>1. OnceInv /\ [Next]_vars => [prev' < prev => lastPair = 0]_vars
  <2> SUFFICES ASSUME OnceInv, Next, prev' < prev PROVE lastPair = 0
    OBVIOUS
  <2> USE ReckoningAssumption DEF Stamp, OnceInv, Ranges
  <2>1. PICK t \in Stamp : \E spike \in BOOLEAN : Pair(t, spike)
    BY DEF Next, Coast, Reanchor, Attitude, Tick, Rewind, odomVars
  <2>2. PICK spike \in BOOLEAN : Pair(t, spike)
    BY <2>1
  <2>3. HoldRewind(t, spike)
    BY <2>2 DEF Pair, Absorb, IgnoreSpike, Start, HoldGap, Integrate, odomVars
  <2>4. prev > now
    BY <2>2, <2>3 DEF Pair, HoldRewind, Covered
  <2> QED BY <2>2, <2>3, <2>4 DEF Pair, HoldRewind, Covered, AheadOnlyAfterRewind
<1> QED BY <1>1, OnceInvariant, PTL DEF Spec, OnlyRewindsGoBack
----------------------------------------------------------------------------
(* Spikes.                                                                 *)

\* Whichever way a pair takes, what the next coast would carry on is a
\* velocity that passed the gate.
THEOREM SpikesStayOut == Spec => []NoSpikeCarried
<1>1. Init => NoSpikeCarried
  BY DEF Init, NoSpikeCarried
<1>2. NoSpikeCarried /\ [Next]_vars => NoSpikeCarried'
  <2> SUFFICES ASSUME NoSpikeCarried, [Next]_vars PROVE NoSpikeCarried'
    OBVIOUS
  <2>1. CASE UNCHANGED <<started, vel>>
    BY <2>1 DEF NoSpikeCarried
  <2>2. ASSUME NEW t \in Stamp, NEW spike \in BOOLEAN, Pair(t, spike)
        PROVE  NoSpikeCarried'
    <3>1. CASE IgnoreSpike(t, spike)
      BY <2>1, <3>1 DEF IgnoreSpike, odomVars
    <3>2. CASE Start(t, spike)
      BY <3>2 DEF Start, NoSpikeCarried
    <3>3. CASE Absorb(t, spike) \/ HoldGap(t, spike) \/ HoldRewind(t, spike)
               \/ Integrate(t, spike)
      BY <3>3 DEF Absorb, Covered, HoldGap, HoldRewind, Integrate, Gated, NoSpikeCarried
    <3> QED BY <2>2, <3>1, <3>2, <3>3 DEF Pair
  <2>3. CASE Coast \/ Reanchor \/ Tick \/ Rewind \/ \E t \in Stamp : Attitude(t)
    BY <2>1, <2>3 DEF Coast, Reanchor, Tick, Rewind, Attitude, odomVars
  <2>4. CASE UNCHANGED vars
    BY <2>1, <2>4 DEF vars, odomVars
  <2> QED BY <2>2, <2>3, <2>4 DEF Next
<1> QED BY <1>1, <1>2, PTL DEF Spec

----------------------------------------------------------------------------
(* The synchronizer that feeds the node.                                   *)
(*                                                                         *)
(* A turn of try_emit keeps an invariant, so the fold of the turns does    *)
(* (Emitted, TryEmitIs).  Kept is, first, that each primary has one fate   *)
(* (Fates), and second that each secondary queue covers what was heard: a  *)
(* stamp that left it is out of the window of every primary pending or to  *)
(* come, or a later one in the queue is as near (Covers, Streams).         *)

----------------------------------------------------------------------------
(* Extremes.                                                               *)

\* Every nonempty set of natural numbers has a least element.
LEMMA LeastOf ==
  ASSUME NEW T \in SUBSET Nat, T # {}
  PROVE  \E m \in T : \A k \in T : m <= k
<1> DEFINE Intervals == {0 .. m : m \in T}
<1>1. \A m \in T : (0 .. m) \in FiniteSubsetsOf(Nat)
  BY FS_Interval DEF FiniteSubsetsOf
<1>2. Intervals \subseteq FiniteSubsetsOf(Nat) /\ Intervals # {}
  BY <1>1
<1>3. PICK x \in Intervals : \A y \in Intervals : ~(<<y, x>> \in StrictSubsetOrdering(Nat))
  BY <1>2, WFMin, FS_StrictSubsetOrderingWellFounded
<1>4. PICK m \in T : x = 0 .. m
  OBVIOUS
<1>5. ASSUME NEW k \in T, k < m PROVE FALSE
  <2>1. 0 .. k \subseteq 0 .. m /\ m \in 0 .. m /\ m \notin 0 .. k
    BY <1>5
  <2>2. <<0 .. k, 0 .. m>> \in StrictSubsetOrdering(Nat)
    BY <2>1 DEF StrictSubsetOrdering
  <2> QED BY <1>3, <1>4, <2>2
<1> QED BY <1>5

\* Induction up to n, for a set in place of a predicate.
LEMMA UpTo ==
  ASSUME NEW n \in Nat, NEW T, 0 \in T, \A k \in 0 .. n - 1 : k \in T => k + 1 \in T
  PROVE  0 .. n \subseteq T
<1> DEFINE Bad == {k \in 0 .. n : k \notin T}
<1>1. ASSUME Bad # {} PROVE FALSE
  <2>1. PICK m \in Bad : \A k \in Bad : m <= k
    <3>1. Bad \in SUBSET Nat
      OBVIOUS
    <3> HIDE DEF Bad
    <3> QED BY <1>1, <3>1, LeastOf
  <2>2. m # 0 /\ m - 1 \in 0 .. n - 1 /\ m - 1 \notin Bad
    BY <2>1
  <2> QED BY <2>2
<1> QED BY <1>1

\* So has every nonempty bounded set of integers, and a greatest one.
LEMMA GreatestOf ==
  ASSUME NEW n \in Int, NEW T \in SUBSET Int, \A x \in T : x <= n, T # {}
  PROVE  Max(T) \in T /\ \A k \in T : k <= Max(T)
<1> DEFINE D == {n - x : x \in T}
<1>1. D \in SUBSET Nat /\ D # {}
  <2>1. \A x \in T : n - x \in Nat
    OBVIOUS
  <2> QED BY <2>1
<1> HIDE DEF D
<1>2. PICK d \in D : \A e \in D : d <= e
  BY <1>1, LeastOf
<1>3. PICK m \in T : d = n - m
  BY <1>2 DEF D
<1>4. \A k \in T : k <= m
  <2>1. \A k \in T : n - k \in D
    BY DEF D
  <2> QED BY <1>2, <1>3, <2>1
<1>5. \E x \in T : \A y \in T : x >= y
  BY <1>3, <1>4
<1> QED BY <1>5 DEF Max

----------------------------------------------------------------------------
(* The loop of try_emit.                                                   *)

Turns(start, q) == FoldLeft(EmitHead, start, q)

TurnByTurn(T, start, q, n) ==
  /\ T[0] = start
  /\ \A k \in 1 .. n : T[k] = EmitHead(T[k - 1], q[k])
  /\ Turns(start, q) = T[n]

\* A fold from the left is a walk: a turn for each element.
LEMMA TurnsUnfold ==
  ASSUME NEW start, NEW q, NEW n \in Nat, DOMAIN q = 1 .. n
  PROVE  \E T : TurnByTurn(T, start, q, n)
<1> DEFINE Top(s)     == Max(s)
           Step(s, r) == IF s = {} THEN start ELSE EmitHead(r, q[Top(s)])
           Fold(I, k) == I = [s \in SUBSET (1 .. k) |-> Step(s, I[s \ {Top(s)}])]
           Good       == {k \in 0 .. n : \E I : Fold(I, k)}
<1>1. ASSUME NEW k \in Nat, NEW s \in SUBSET (1 .. k + 1), s # {}
      PROVE  Top(s) \in s /\ s \ {Top(s)} \in SUBSET (1 .. k)
  <2>1. s \in SUBSET Int /\ k + 1 \in Int /\ \A x \in s : x <= k + 1
    OBVIOUS
  <2>2. Top(s) \in s /\ \A x \in s : x <= Top(s)
    BY <1>1, <2>1, GreatestOf
  <2>3. \A x \in s : x \in 1 .. k + 1
    OBVIOUS
  <2> HIDE DEF Top
  <2>4. \A x \in s \ {Top(s)} : x \in 1 .. k
    <3>1. Top(s) \in 1 .. k + 1
      BY <2>2, <2>3
    <3>2. ASSUME NEW x \in s, x # Top(s) PROVE x \in 1 .. k
      <4>1. x \in 1 .. k + 1 /\ x <= Top(s)
        BY <2>2, <2>3
      <4> QED BY <3>1, <3>2, <4>1
    <3> QED BY <3>2
  <2> QED BY <2>2, <2>4
<1> HIDE DEF Top
<1>2. ASSUME NEW I, NEW k \in 0 .. n - 1, Fold(I, k)
      PROVE  Fold([s \in SUBSET (1 .. k + 1) |-> Step(s, I[s \ {Top(s)}])], k + 1)
  <2> DEFINE J == [s \in SUBSET (1 .. k + 1) |-> Step(s, I[s \ {Top(s)}])]
  <2>1. \A a, b : Step({}, a) = Step({}, b)
    OBVIOUS
  <2> HIDE DEF Step
  <2>2. SUBSET (1 .. k) \subseteq SUBSET (1 .. k + 1)
    OBVIOUS
  <2>3. \A s \in SUBSET (1 .. k) : J[s] = I[s]
    BY <1>2, <2>2
  <2> HIDE DEF J
  <2>4. \A s \in SUBSET (1 .. k + 1) : s # {} => J[s \ {Top(s)}] = I[s \ {Top(s)}]
    <3>1. k \in Nat
      OBVIOUS
    <3>2. \A s \in SUBSET (1 .. k + 1) : s # {} => s \ {Top(s)} \in SUBSET (1 .. k)
      BY <1>1, <3>1
    <3> QED BY <2>3, <3>2
  <2>5. \A s \in SUBSET (1 .. k + 1) : Step(s, I[s \ {Top(s)}]) = Step(s, J[s \ {Top(s)}])
    BY <2>1, <2>4
  <2> QED BY <2>5 DEF J
<1>3. \E I : Fold(I, 0)
  <2>1. SUBSET (1 .. 0) = {{}}
    OBVIOUS
  <2>2. Fold([s \in {{}} |-> start], 0)
    BY <2>1
  <2> QED BY <2>2
<1>4. 0 .. n \subseteq Good
  <2> HIDE DEF Fold
  <2>1. 0 \in Good
    BY <1>3
  <2>2. ASSUME NEW k \in 0 .. n - 1, k \in Good PROVE k + 1 \in Good
    <3>1. \E I : Fold(I, k + 1)
      BY <1>2, <2>2
    <3> QED BY <3>1
  <2> HIDE DEF Good
  <2> QED BY <2>1, <2>2, UpTo
<1>5. Fold(CHOOSE I : Fold(I, n), n)
  <2> HIDE DEF Fold
  <2>1. n \in Good
    BY <1>4
  <2> QED BY <2>1
<1>6. Turns(start, q) = (CHOOSE I : Fold(I, n))[1 .. n]
  BY DEF Turns, FoldLeft, MapThenFoldSet, Top
<1>7. PICK I : Fold(I, n) /\ Turns(start, q) = I[1 .. n]
  BY <1>5, <1>6
<1> DEFINE T == [k \in 0 .. n |-> I[1 .. k]]
<1>8. T[0] = start
  <2>1. 1 .. 0 = {} /\ {} \in SUBSET (1 .. n)
    OBVIOUS
  <2>2. I[{}] = start
    BY <1>7, <2>1
  <2> QED BY <2>1, <2>2
<1>9. ASSUME NEW k \in 1 .. n PROVE T[k] = EmitHead(T[k - 1], q[k])
  <2>1. Max(1 .. k) = k
    <3>1. Max(1 .. k) \in 1 .. k /\ \A j \in 1 .. k : j <= Max(1 .. k)
      <4>1. k \in 1 .. k /\ k \in Int
        OBVIOUS
      <4>2. 1 .. k \in SUBSET Int /\ \A x \in 1 .. k : x <= k
        OBVIOUS
      <4>3. 1 .. k # {}
        BY <4>1
      <4> QED BY <4>1, <4>2, <4>3, GreatestOf
    <3> QED BY <3>1
  <2>2. (1 .. k) \ {k} = 1 .. k - 1 /\ 1 .. k \in SUBSET (1 .. n) /\ 1 .. k # {}
    OBVIOUS
  <2>3. I[1 .. k] = EmitHead(I[(1 .. k) \ {k}], q[k])
    BY <1>7, <2>1, <2>2 DEF Top
  <2>4. k \in 0 .. n /\ k - 1 \in 0 .. n
    OBVIOUS
  <2> QED BY <2>2, <2>3, <2>4
<1>10. Turns(start, q) = T[n]
  BY <1>7
<1> HIDE DEF T
<1>11. TurnByTurn(T, start, q, n)
  BY <1>8, <1>9, <1>10 DEF TurnByTurn
<1> QED BY <1>11

\* What is left of a queue after pops from its front.
LEMMA SuffixIs ==
  ASSUME NEW S, NEW q \in Seq(S), NEW n \in 0 .. Len(q)
  PROVE  /\ SubSeq(q, n + 1, Len(q)) \in Seq(S)
         /\ Len(SubSeq(q, n + 1, Len(q))) = Len(q) - n
         /\ DOMAIN SubSeq(q, n + 1, Len(q)) = 1 .. Len(q) - n
         /\ \A i \in 1 .. Len(q) - n : SubSeq(q, n + 1, Len(q))[i] = q[n + i]
<1>1. Len(q) \in Nat /\ \A i \in 1 .. Len(q) : q[i] \in S
  BY LenProperties, ElementOfSeq
<1>2. \A i \in n + 1 .. Len(q) : q[i] \in S
  BY <1>1
<1> DEFINE r == SubSeq(q, n + 1, Len(q))
<1>3. r \in Seq(S) /\ Len(r) = Len(q) - n
  BY <1>1, <1>2, SubSeqProperties
<1>4. DOMAIN r = 1 .. Len(q) - n
  BY <1>3, LenProperties
<1>5. ASSUME NEW i \in 1 .. Len(q) - n PROVE r[i] = q[n + i]
  BY <1>1
<1> QED BY <1>3, <1>4, <1>5

Popped(q, stops) == IF stops = {} THEN <<>> ELSE SubSeq(q, Min(stops), Len(q))

LEMMA PoppedIs ==
  ASSUME NEW S, NEW q \in Seq(S), NEW stops \in SUBSET (DOMAIN q)
  PROVE  \E n \in 0 .. Len(q) :
           /\ Popped(q, stops) = SubSeq(q, n + 1, Len(q))
           /\ \A i \in 1 .. n : i \notin stops
           /\ n < Len(q) => n + 1 \in stops
<1>1. Len(q) \in Nat /\ DOMAIN q = 1 .. Len(q)
  BY LenProperties
<1>2. CASE stops = {}
  <2>1. SubSeq(q, Len(q) + 1, Len(q)) = <<>>
    BY <1>1
  <2> QED BY <1>1, <1>2, <2>1 DEF Popped
<1>3. CASE stops # {}
  <2>1. stops \in SUBSET Nat
    BY <1>1
  <2>2. PICK m \in stops : \A k \in stops : m <= k
    BY <1>3, <2>1, LeastOf
  <2>3. Min(stops) \in stops /\ \A k \in stops : Min(stops) <= k
    BY <2>2 DEF Min
  <2> DEFINE n == Min(stops) - 1
  <2>4. n \in 0 .. Len(q) /\ n + 1 = Min(stops)
    BY <1>1, <2>3
  <2>5. \A i \in 1 .. n : i \notin stops
    BY <1>1, <2>3
  <2>6. Popped(q, stops) = SubSeq(q, n + 1, Len(q))
    BY <1>3, <2>4 DEF Popped
  <2> HIDE DEF n
  <2> QED BY <2>3, <2>4, <2>5, <2>6
<1> QED BY <1>2, <1>3

----------------------------------------------------------------------------
(* One turn of try_emit.                                                   *)

Pairing == [p : Message, with : [Secondary -> Stamps]]
Turn    == [qa : Seq(Message), qs : [Secondary -> Seq(Stamps)], paired : SUBSET Pairing,
            unmatched : SUBSET Message, waiting : BOOLEAN]

LEMMA StampTypes ==
  /\ Stamps \subseteq Nat /\ \A m \in Message : m.t \in Stamps /\ m.epoch \in Nat
  /\ Slop \in Nat
BY SyncAssumption DEF Stamps, Message

\* The match is a message of the queue, within Slop, and none is nearer.
LEMMA NearestIs ==
  ASSUME NEW q \in Seq(Stamps), NEW t \in Nat, Near(q, t) # {}
  PROVE  \E i \in Near(q, t) :
           /\ i \in DOMAIN q /\ NearestWithin(q, t) = q[i] /\ q[i] \in Stamps
           /\ Gap(q[i], t) <= Slop
           /\ \A j \in DOMAIN q : Gap(q[i], t) <= Gap(q[j], t)
<1>1. DOMAIN q = 1 .. Len(q) /\ Len(q) \in Nat /\ \A i \in DOMAIN q : q[i] \in Nat /\ q[i] \in Stamps
  BY LenProperties, ElementOfSeq, StampTypes
<1>2. Near(q, t) \in SUBSET (DOMAIN q)
  BY DEF Near
<1>3. \A i \in DOMAIN q : Gap(q[i], t) \in Nat
  BY <1>1 DEF Gap
<1> DEFINE G == {Gap(q[i], t) : i \in Near(q, t)}
<1>4. G \in SUBSET Nat /\ G # {}
  BY <1>2, <1>3
<1>5. PICK g \in G : \A x \in G : g <= x
  <2> HIDE DEF G
  <2> QED BY <1>4, LeastOf
<1> DEFINE I == {i \in Near(q, t) : Gap(q[i], t) = g}
<1>6. I \in SUBSET Int /\ I # {} /\ \A i \in I : i <= Len(q)
  BY <1>1, <1>2, <1>5
<1> DEFINE m == Max(I)
<1>7. m \in I /\ \A i \in I : i <= m
  <2> HIDE DEF I
  <2>1. Len(q) \in Int
    BY <1>1
  <2>2. m \in I /\ \A i \in I : i <= m
    BY <1>6, <2>1, GreatestOf
  <2> QED BY <2>2
<1>8. m \in Near(q, t) /\ Gap(q[m], t) = g
  BY <1>7
<1>9. \A j \in Near(q, t) : g <= Gap(q[j], t) /\ (Gap(q[j], t) = g => j <= m)
  BY <1>5, <1>7
<1> HIDE DEF m, I, G
<1> DEFINE Best(i) == \A j \in Near(q, t) :
             Gap(q[i], t) < Gap(q[j], t) \/ (Gap(q[i], t) = Gap(q[j], t) /\ j <= i)
<1>10. Best(m)
  <2>1. \A j \in Near(q, t) : g \in Int /\ Gap(q[j], t) \in Int
    BY <1>2, <1>3, <1>8
  <2> QED BY <1>8, <1>9, <2>1
<1> DEFINE c == CHOOSE i \in Near(q, t) : Best(i)
<1>11. c \in Near(q, t) /\ Best(c)
  <2> HIDE DEF Best
  <2> QED BY <1>8, <1>10
<1>12. NearestWithin(q, t) = q[c]
  BY DEF NearestWithin
<1> HIDE DEF c
<1>13. Gap(q[c], t) <= Slop /\ c \in DOMAIN q
  BY <1>11 DEF Near
<1>14. ASSUME NEW j \in DOMAIN q PROVE Gap(q[c], t) <= Gap(q[j], t)
  <2>1. Gap(q[c], t) \in Nat /\ Gap(q[j], t) \in Nat /\ Slop \in Nat
    BY <1>3, <1>13, StampTypes
  <2>2. CASE j \in Near(q, t) BY <1>11, <2>1, <2>2
  <2>3. CASE j \notin Near(q, t)
    <3>1. ~(Gap(q[j], t) <= Slop)
      BY <2>3 DEF Near
    <3> QED BY <1>13, <2>1, <3>1
  <2> QED BY <2>2, <2>3
<1> QED BY <1>1, <1>11, <1>12, <1>13, <1>14

LEMMA DropIs ==
  ASSUME NEW q \in Seq(Stamps), NEW t \in Int
  PROVE  \E n \in 0 .. Len(q) : /\ DropOlder(q, t) = SubSeq(q, n + 1, Len(q))
                                /\ \A i \in 1 .. n : ~(q[i] > t)
<1> DEFINE stops == {i \in DOMAIN q : q[i] > t}
<1>1. DropOlder(q, t) = Popped(q, stops)
  BY DEF DropOlder, PopUntil, Popped
<1>2. PICK n \in 0 .. Len(q) : /\ Popped(q, stops) = SubSeq(q, n + 1, Len(q))
                               /\ \A i \in 1 .. n : i \notin stops
  <2>1. stops \in SUBSET (DOMAIN q)
    OBVIOUS
  <2> HIDE DEF stops
  <2> QED BY <2>1, PoppedIs
<1>3. \A i \in 1 .. n : i \in DOMAIN q
  BY LenProperties
<1> QED BY <1>1, <1>2, <1>3

\* The head is paired with a nearest message of each stream, or it is
\* unmatched for want of one.
Paired(st, head, out) ==
  /\ out.unmatched = st.unmatched
  /\ \E match \in [Secondary -> Stamps] :
       /\ out.paired = st.paired \cup {[p |-> head, with |-> match]}
       /\ \A s \in Secondary : /\ Near(st.qs[s], head.t) # {}
                               /\ match[s] = NearestWithin(st.qs[s], head.t)
                               /\ out.qs[s] = DropOlder(st.qs[s], match[s] - Slop)

Unpaired(st, head, out) ==
  /\ out.paired = st.paired /\ out.qs = st.qs
  /\ out.unmatched = st.unmatched \cup {head}
  /\ \E s \in Secondary : Near(st.qs[s], head.t) = {}

LEMMA EmitIs ==
  ASSUME NEW st \in Turn, NEW head \in Message, NEW out, out = EmitHead(st, head)
  PROVE  /\ st.waiting \/ ~Passed(st.qs, head.t) => out = [st EXCEPT !.waiting = TRUE]
         /\ ~st.waiting /\ Passed(st.qs, head.t) /\ st.qa # <<>> =>
              /\ out \in Turn /\ ~out.waiting /\ out.qa = Tail(st.qa)
              /\ Paired(st, head, out) \/ Unpaired(st, head, out)
<1> DEFINE match == [s \in Secondary |-> NearestWithin(st.qs[s], head.t)]
           matched == \A s \in Secondary : Near(st.qs[s], head.t) # {}
<1>1. /\ head.t \in Nat /\ st.qa \in Seq(Message) /\ st.waiting \in BOOLEAN
      /\ \A s \in Secondary : st.qs[s] \in Seq(Stamps)
      /\ st.paired \in SUBSET Pairing /\ st.unmatched \in SUBSET Message
      /\ st.qs \in [Secondary -> Seq(Stamps)]
  BY StampTypes DEF Turn
<1>2. st.waiting \/ ~Passed(st.qs, head.t) => out = [st EXCEPT !.waiting = TRUE]
  BY DEF EmitHead
<1>3. ASSUME ~st.waiting, Passed(st.qs, head.t), st.qa # <<>>
      PROVE  /\ out \in Turn /\ ~out.waiting /\ out.qa = Tail(st.qa)
             /\ Paired(st, head, out) \/ Unpaired(st, head, out)
  <2>1. Tail(st.qa) \in Seq(Message)
    BY <1>1, <1>3, HeadTailProperties
  <2>2. CASE matched
    <3> DEFINE dropped == [s \in Secondary |-> DropOlder(st.qs[s], match[s] - Slop)]
    <3>1. \A s \in Secondary : match[s] \in Stamps
      <4>1. ASSUME NEW s \in Secondary PROVE NearestWithin(st.qs[s], head.t) \in Stamps
        <5>1. Near(st.qs[s], head.t) # {}
          BY <2>2
        <5> QED BY <1>1, <5>1, NearestIs
      <4> QED BY <4>1
    <3>2. match \in [Secondary -> Stamps]
      BY <3>1
    <3>3. \A s \in Secondary : dropped[s] \in Seq(Stamps)
      <4>1. ASSUME NEW s \in Secondary PROVE DropOlder(st.qs[s], match[s] - Slop) \in Seq(Stamps)
        <5> DEFINE t == match[s] - Slop
        <5>1. t \in Int
          <6>1. match[s] \in Stamps
            BY <3>1
          <6>2. \A x \in Stamps : x - Slop \in Int
            BY StampTypes
          <6> HIDE DEF match
          <6> QED BY <6>1, <6>2
        <5> HIDE DEF t
        <5>2. PICK n \in 0 .. Len(st.qs[s]) :
                DropOlder(st.qs[s], t) = SubSeq(st.qs[s], n + 1, Len(st.qs[s]))
          BY <1>1, <5>1, DropIs
        <5>3. DropOlder(st.qs[s], t) \in Seq(Stamps)
          BY <1>1, <5>2, SuffixIs
        <5> QED BY <5>3 DEF t
      <4> QED BY <4>1
    <3>4. out = [st EXCEPT !.qa = Tail(@), !.paired = @ \cup {[p |-> head, with |-> match]},
                           !.qs = dropped]
      BY <1>3, <2>2 DEF EmitHead
    <3>5. /\ \A s \in Secondary : match[s] = NearestWithin(st.qs[s], head.t)
          /\ \A s \in Secondary : dropped[s] = DropOlder(st.qs[s], match[s] - Slop)
      OBVIOUS
    <3>6. dropped \in [Secondary -> Seq(Stamps)]
      BY <3>3
    <3> HIDE DEF match, dropped
    <3>7. [p |-> head, with |-> match] \in Pairing
      BY <3>2 DEF Pairing
    <3>8. /\ out.qa = Tail(st.qa) /\ out.qs = dropped /\ out.unmatched = st.unmatched
          /\ out.paired = st.paired \cup {[p |-> head, with |-> match]}
          /\ out.waiting = st.waiting
      BY <3>4 DEF Turn
    <3>9. out \in Turn
      BY <1>1, <2>1, <3>4, <3>6, <3>7 DEF Turn
    <3>10. Paired(st, head, out)
      BY <2>2, <3>2, <3>5, <3>8 DEF Paired
    <3> QED BY <1>3, <3>8, <3>9, <3>10
  <2>3. CASE ~matched
    <3>1. out = [st EXCEPT !.qa = Tail(@), !.unmatched = @ \cup {head}]
      BY <1>3, <2>3 DEF EmitHead
    <3>2. out \in Turn
      BY <1>1, <2>1, <3>1 DEF Turn
    <3>3. /\ out.qa = Tail(st.qa) /\ out.qs = st.qs /\ out.paired = st.paired
          /\ out.unmatched = st.unmatched \cup {head} /\ out.waiting = st.waiting
      BY <3>1 DEF Turn
    <3> QED BY <1>3, <2>3, <3>2, <3>3 DEF Unpaired
  <2> QED BY <2>2, <2>3
<1> QED BY <1>2, <1>3

\* What each turn keeps, try_emit keeps; and it only stops before the queue is
\* empty at a head that some stream has yet to pass.
LEMMA Emitted ==
  ASSUME NEW start \in Turn, ~start.waiting, NEW G, start \in G,
         \A st \in Turn : \A out \in Turn :
           st \in G /\ st.qa # <<>> /\ ~st.waiting /\ Passed(st.qs, st.qa[1].t)
             /\ out.qa = Tail(st.qa) /\ ~out.waiting
             /\ (Paired(st, st.qa[1], out) \/ Unpaired(st, st.qa[1], out))
           => out \in G
  PROVE  \E out \in Turn :
           /\ Turns(start, start.qa) = out
           /\ out.qa # <<>> => ~Passed(out.qs, out.qa[1].t)
           /\ out \in G \/ \E st \in G : st \in Turn /\ ~st.waiting /\ out = [st EXCEPT !.waiting = TRUE]
<1> DEFINE q == start.qa
           n == Len(q)
<1>1. q \in Seq(Message) /\ n \in Nat /\ DOMAIN q = 1 .. n /\ \A i \in 1 .. n : q[i] \in Message
  <2>1. q \in Seq(Message)
    BY DEF Turn
  <2> HIDE DEF q
  <2> QED BY <2>1, LenProperties, ElementOfSeq
<1> HIDE DEF q, n
<1>1a. PICK T : TurnByTurn(T, start, q, n)
  BY <1>1, TurnsUnfold
<1>2. /\ T[0] = start /\ Turns(start, q) = T[n]
      /\ \A k \in 1 .. n : T[k] = EmitHead(T[k - 1], q[k])
  BY <1>1a DEF TurnByTurn
<1> DEFINE Going(st, k) == st \in G /\ ~st.waiting /\ st.qa = SubSeq(q, k + 1, n)
           Stuck(st) == /\ st.waiting /\ st.qa # <<>> /\ ~Passed(st.qs, st.qa[1].t)
                        /\ \E at \in G : at \in Turn /\ ~at.waiting /\ st = [at EXCEPT !.waiting = TRUE]
           Fine == {k \in 0 .. n : T[k] \in Turn /\ (Going(T[k], k) \/ Stuck(T[k]))}
<1>3. 0 \in Fine
  <2>1. SubSeq(q, 1, n) = q
    BY <1>1, SubSeqFull DEF n
  <2>2. Going(T[0], 0)
    BY <1>2, <2>1 DEF q
  <2> HIDE DEF Going
  <2> QED BY <1>1, <1>2, <2>2
<1>4. ASSUME NEW k \in 0 .. n - 1, k \in Fine PROVE k + 1 \in Fine
  <2> DEFINE st == T[k]
             out == T[k + 1]
             head == q[k + 1]
  <2>1. st \in Turn /\ (Going(st, k) \/ Stuck(st))
    BY <1>4
  <2>2. k + 1 \in 1 .. n /\ k + 1 - 1 = k
    BY <1>1
  <2>3. out = EmitHead(st, head) /\ head \in Message
    BY <1>1, <1>2, <2>2
  <2> HIDE DEF st, out, head
  <2>4. /\ st.waiting \/ ~Passed(st.qs, head.t) => out = [st EXCEPT !.waiting = TRUE]
        /\ ~st.waiting /\ Passed(st.qs, head.t) /\ st.qa # <<>> =>
             /\ out \in Turn /\ ~out.waiting /\ out.qa = Tail(st.qa)
             /\ Paired(st, head, out) \/ Unpaired(st, head, out)
    BY <2>1, <2>3, EmitIs
  <2>5. CASE Stuck(st)
    <3>1. out = st
      BY <2>1, <2>4, <2>5 DEF Turn
    <3>2. out \in Turn /\ Stuck(out)
      BY <2>1, <2>5, <3>1
    <3> HIDE DEF Going, Stuck
    <3> QED BY <1>1, <3>2 DEF out
  <2>6. CASE Going(st, k)
    <3>1. /\ st.qa = SubSeq(q, k + 1, n) /\ ~st.waiting /\ st \in G
      BY <2>6
    <3>2. /\ st.qa # <<>> /\ st.qa[1] = head
          /\ Tail(st.qa) = SubSeq(q, k + 2, n)
      <4>1. Len(st.qa) = n - k /\ st.qa[1] = q[k + 1]
        <5>1. k \in 0 .. Len(q) /\ n = Len(q) /\ 1 \in 1 .. Len(q) - k
          BY <1>1 DEF n
        <5> QED BY <1>1, <3>1, <5>1, SuffixIs
      <4>2. st.qa # <<>>
        BY <1>1, <4>1
      <4>3. k + 1 \in 1 .. Len(q) /\ n \in k + 1 .. Len(q) /\ k + 1 + 1 = k + 2
        BY <1>1 DEF n
      <4>4. Tail(SubSeq(q, k + 1, n)) = SubSeq(q, k + 2, n)
        BY <1>1, <4>3, HeadTailOfSubSeq
      <4> QED BY <3>1, <4>1, <4>2, <4>4 DEF head
    <3>3. CASE Passed(st.qs, head.t)
      <4>1. /\ out \in Turn /\ ~out.waiting /\ out.qa = Tail(st.qa)
            /\ Paired(st, head, out) \/ Unpaired(st, head, out)
        BY <2>4, <3>1, <3>2, <3>3
      <4>2. out \in G
        BY <2>1, <3>1, <3>2, <3>3, <4>1
      <4>3. Going(out, k + 1)
        <5>1. k + 1 + 1 = k + 2
          BY <1>1
        <5> QED BY <3>2, <4>1, <4>2, <5>1
      <4> HIDE DEF Going, Stuck
      <4> QED BY <1>1, <4>1, <4>3 DEF out
    <3>4. CASE ~Passed(st.qs, head.t)
      <4>1. out = [st EXCEPT !.waiting = TRUE]
        BY <2>4, <3>4
      <4>2. out \in Turn /\ out.waiting /\ out.qa = st.qa /\ out.qs = st.qs
        BY <2>1, <4>1 DEF Turn
      <4>3. Stuck(out)
        BY <2>1, <3>1, <3>2, <3>4, <4>1, <4>2
      <4> HIDE DEF Going, Stuck
      <4> QED BY <1>1, <4>2, <4>3 DEF out
    <3> QED BY <3>3, <3>4
  <2> QED BY <2>1, <2>5, <2>6
<1>5. n \in Fine
  <2> HIDE DEF Fine
  <2>1. n \in 0 .. n
    BY <1>1
  <2> QED BY <1>1, <1>3, <1>4, <2>1, UpTo
<1>6. CASE Going(T[n], n)
  <2>1. T[n].qa = <<>>
    BY <1>1, <1>6, SubSeqEmpty
  <2> QED BY <1>2, <1>5, <1>6, <2>1 DEF q
<1>7. CASE Stuck(T[n])
  BY <1>2, <1>5, <1>7 DEF q
<1> QED BY <1>5, <1>6, <1>7

----------------------------------------------------------------------------
(* Nothing is lost, and nothing waits in vain.                             *)

SyncTypes ==
  /\ qa \in Seq(Message) /\ qs \in [Secondary -> Seq(Stamps)]
  /\ paired \in SUBSET Pairing /\ unmatched \in SUBSET Message
  /\ overflowed \in SUBSET Message /\ cleared \in SUBSET Message /\ sent \in SUBSET Message
  /\ heard \in [Secondary -> SUBSET Message]

\* The primaries of U are pending, paired or unmatched, each of them once.
Apart(q, pairs, lone, U) ==
  /\ \A i, j \in DOMAIN q : q[i] = q[j] => i = j
  /\ \A e, f \in pairs : e.p = f.p => e = f
  /\ \A i \in DOMAIN q : q[i] \notin lone /\ \A e \in pairs : e.p # q[i]
  /\ \A e \in pairs : e.p \notin lone
  /\ \A m \in Message :
       m \in U <=> (\E i \in DOMAIN q : q[i] = m) \/ (\E e \in pairs : e.p = m) \/ m \in lone

Fates ==
  /\ Apart(qa, paired, unmatched, sent \ (overflowed \cup cleared))
  /\ overflowed \subseteq sent /\ cleared \subseteq sent /\ overflowed \cap cleared = {}

SyncInv == SyncTypes /\ Fates /\ WaitsOnlyWhenBehind

LEMMA ApartEmit ==
  ASSUME NEW U, NEW st \in Turn, NEW out \in Turn,
         Apart(st.qa, st.paired, st.unmatched, U), st.qa # <<>>, out.qa = Tail(st.qa),
         Paired(st, st.qa[1], out) \/ Unpaired(st, st.qa[1], out)
  PROVE  Apart(out.qa, out.paired, out.unmatched, U)
<1> DEFINE q == st.qa
           r == out.qa
           head == q[1]
           n == Len(q)
<1>1. q \in Seq(Message) /\ st.paired \in SUBSET Pairing /\ st.unmatched \in SUBSET Message
  BY DEF Turn
<1>2. /\ n \in Nat \ {0} /\ DOMAIN q = 1 .. n /\ head \in Message
      /\ DOMAIN r = 1 .. n - 1 /\ \A i \in 1 .. n - 1 : r[i] = q[i + 1]
  <2>1. Len(q) \in Nat /\ DOMAIN q = 1 .. Len(q) /\ Len(q) # 0
    BY <1>1, LenProperties, EmptySeq
  <2>2. Tail(q) \in Seq(Message) /\ Len(Tail(q)) = Len(q) - 1
        /\ \A i \in 1 .. Len(Tail(q)) : Tail(q)[i] = q[i + 1]
    BY <1>1, HeadTailProperties
  <2>3. DOMAIN Tail(q) = 1 .. Len(Tail(q))
    BY <2>2, LenProperties
  <2>4. q[1] \in Message
    BY <1>1, <2>1, ElementOfSeq
  <2> QED BY <2>1, <2>2, <2>3, <2>4
<1>3. Apart(q, st.paired, st.unmatched, U) /\ (Paired(st, head, out) \/ Unpaired(st, head, out))
  OBVIOUS
<1> HIDE DEF q, r, head, n
<1>4. /\ \A i, j \in DOMAIN q : q[i] = q[j] => i = j
      /\ \A e, f \in st.paired : e.p = f.p => e = f
      /\ \A i \in DOMAIN q : q[i] \notin st.unmatched /\ \A e \in st.paired : e.p # q[i]
      /\ \A e \in st.paired : e.p \notin st.unmatched
      /\ \A m \in Message :
           m \in U <=> (\E i \in DOMAIN q : q[i] = m) \/ (\E e \in st.paired : e.p = m)
                       \/ m \in st.unmatched
  BY <1>3 DEF Apart
<1>5. \A m : (\E i \in DOMAIN q : q[i] = m) <=> m = head \/ \E i \in DOMAIN r : r[i] = m
  <2>1. head = q[1] /\ 1 \in DOMAIN q
    BY <1>2 DEF head
  <2>2. \A i \in DOMAIN r : i + 1 \in DOMAIN q /\ r[i] = q[i + 1]
    BY <1>2
  <2>3. \A i \in DOMAIN q : i = 1 \/ (i - 1 \in DOMAIN r /\ r[i - 1] = q[i])
    BY <1>2
  <2> QED BY <2>1, <2>2, <2>3
<1>6. \A i \in DOMAIN r : r[i] # head
  <2>1. head = q[1] /\ 1 \in DOMAIN q
    BY <1>2 DEF head
  <2>2. \A i \in DOMAIN r : i + 1 \in DOMAIN q /\ r[i] = q[i + 1] /\ i + 1 # 1
    BY <1>2
  <2> QED BY <1>4, <2>1, <2>2
<1>7. \A i, j \in DOMAIN r : r[i] = r[j] => i = j
  <2>1. ASSUME NEW i \in DOMAIN r, NEW j \in DOMAIN r, r[i] = r[j] PROVE i = j
    <3>1. i + 1 \in DOMAIN q /\ j + 1 \in DOMAIN q /\ q[i + 1] = q[j + 1]
      BY <1>2, <2>1
    <3>2. i + 1 = j + 1
      BY <1>4, <3>1
    <3> QED BY <1>2, <3>2
  <2> QED BY <2>1
<1>8. head \notin st.unmatched /\ \A e \in st.paired : e.p # head
  BY <1>4, <1>5
<1>9. CASE Paired(st, head, out)
  <2>1. PICK match : /\ out.unmatched = st.unmatched
                     /\ out.paired = st.paired \cup {[p |-> head, with |-> match]}
    BY <1>9 DEF Paired
  <2> DEFINE new == [p |-> head, with |-> match]
  <2>2. new.p = head /\ out.paired = st.paired \cup {new}
    BY <2>1
  <2> HIDE DEF new
  <2>3. \A e, f \in out.paired : e.p = f.p => e = f
    BY <1>4, <1>8, <2>2
  <2>4. \A i \in DOMAIN r : r[i] \notin out.unmatched /\ \A e \in out.paired : e.p # r[i]
    BY <1>4, <1>5, <1>6, <2>1, <2>2
  <2>5. \A e \in out.paired : e.p \notin out.unmatched
    BY <1>4, <1>8, <2>1, <2>2
  <2>6. \A m : (\E e \in out.paired : e.p = m) <=> m = head \/ \E e \in st.paired : e.p = m
    BY <2>2
  <2>7. \A m \in Message :
          m \in U <=> (\E i \in DOMAIN r : r[i] = m) \/ (\E e \in out.paired : e.p = m)
                      \/ m \in out.unmatched
    BY <1>4, <1>5, <2>1, <2>6
  <2> QED BY <1>7, <2>3, <2>4, <2>5, <2>7 DEF Apart, r
<1>10. CASE Unpaired(st, head, out)
  <2>1. out.paired = st.paired /\ out.unmatched = st.unmatched \cup {head}
    BY <1>10 DEF Unpaired
  <2>2. \A i \in DOMAIN r : r[i] \notin out.unmatched /\ \A e \in out.paired : e.p # r[i]
    <3>1. ASSUME NEW i \in DOMAIN r
          PROVE  r[i] \notin out.unmatched /\ \A e \in out.paired : e.p # r[i]
      <4>1. PICK j \in DOMAIN q : q[j] = r[i]
        BY <1>5
      <4> QED BY <1>4, <1>6, <2>1, <4>1
    <3> QED BY <3>1
  <2>3. \A e \in out.paired : e.p \notin out.unmatched
    BY <1>4, <1>8, <2>1
  <2>4. \A m \in Message :
          m \in U <=> (\E i \in DOMAIN r : r[i] = m) \/ (\E e \in out.paired : e.p = m)
                      \/ m \in out.unmatched
    BY <1>4, <1>5, <2>1
  <2> QED BY <1>4, <1>7, <2>1, <2>2, <2>3, <2>4 DEF Apart, r
<1> QED BY <1>3, <1>9, <1>10

\* try_emit as a whole, from a queue and the secondary queues.
LEMMA TryEmitIs ==
  ASSUME NEW q \in Seq(Message), NEW queues \in [Secondary -> Seq(Stamps)],
         paired \in SUBSET Pairing, unmatched \in SUBSET Message, TryEmit(q, queues), NEW G,
         [qa |-> q, qs |-> queues, paired |-> paired, unmatched |-> unmatched, waiting |-> FALSE] \in G,
         \A st \in Turn : \A out \in Turn :
           st \in G /\ st.qa # <<>> /\ ~st.waiting /\ Passed(st.qs, st.qa[1].t)
             /\ out.qa = Tail(st.qa) /\ ~out.waiting
             /\ (Paired(st, st.qa[1], out) \/ Unpaired(st, st.qa[1], out))
           => out \in G
  PROVE  /\ qa' \in Seq(Message) /\ qs' \in [Secondary -> Seq(Stamps)]
         /\ paired' \in SUBSET Pairing /\ unmatched' \in SUBSET Message
         /\ qa' # <<>> => ~Passed(qs', qa'[1].t)
         /\ \E st \in G : st \in Turn /\ qa' = st.qa /\ qs' = st.qs /\ paired' = st.paired
                          /\ unmatched' = st.unmatched
<1> DEFINE start == [qa |-> q, qs |-> queues, paired |-> paired, unmatched |-> unmatched,
                     waiting |-> FALSE]
<1>1. start \in Turn /\ start.qa = q /\ ~start.waiting /\ start \in G
  BY DEF Turn
<1>2. /\ qa' = Turns(start, q).qa /\ qs' = Turns(start, q).qs
      /\ paired' = Turns(start, q).paired /\ unmatched' = Turns(start, q).unmatched
  BY DEF TryEmit, Turns
<1> HIDE DEF start
<1>3. PICK out \in Turn :
           /\ Turns(start, q) = out
           /\ out.qa # <<>> => ~Passed(out.qs, out.qa[1].t)
           /\ out \in G \/ \E st \in G : st \in Turn /\ ~st.waiting /\ out = [st EXCEPT !.waiting = TRUE]
  BY <1>1, Emitted
<1>4. /\ out.qa \in Seq(Message) /\ out.qs \in [Secondary -> Seq(Stamps)]
      /\ out.paired \in SUBSET Pairing /\ out.unmatched \in SUBSET Message
  BY DEF Turn
<1>5. \E st \in G : st \in Turn /\ out.qa = st.qa /\ out.qs = st.qs /\ out.paired = st.paired
                    /\ out.unmatched = st.unmatched
  <2>1. \A st \in Turn : /\ [st EXCEPT !.waiting = TRUE].qa = st.qa
                         /\ [st EXCEPT !.waiting = TRUE].qs = st.qs
                         /\ [st EXCEPT !.waiting = TRUE].paired = st.paired
                         /\ [st EXCEPT !.waiting = TRUE].unmatched = st.unmatched
    BY DEF Turn
  <2> QED BY <1>3, <2>1
<1> QED BY <1>2, <1>3, <1>4, <1>5

\* A stream never repeats itself.
LEMMA FreshIsNew ==
  ASSUME NEW said \in SUBSET Message, NEW m \in Fresh(said)
  PROVE  m \in Message /\ m \notin said
<1> DEFINE E == {0} \cup {h.epoch : h \in said}
           newest == Max(E)
<1>1. /\ m \in Message
      /\ \/ m.epoch = newest /\ \A p \in said : p.epoch = newest => p.t < m.t
         \/ m.epoch = newest + 1 /\ \E p \in said : p.epoch = newest /\ m.t < p.t
  BY DEF Fresh
<1>2. \A h \in said : h.epoch \in 0 .. MaxRestarts /\ h.epoch \in E /\ h.t \in Nat
  BY StampTypes DEF Message
<1>3. E \in SUBSET Int /\ E # {} /\ \A x \in E : x <= MaxRestarts
  BY <1>2, SyncAssumption
<1> HIDE DEF E
<1>4. newest \in E /\ \A x \in E : x <= newest
  <2>1. MaxRestarts \in Int
    BY SyncAssumption
  <2> QED BY <1>3, <2>1, GreatestOf
<1> HIDE DEF newest
<1>5. ASSUME m \in said PROVE FALSE
  <2>1. m.epoch <= newest /\ newest \in Int /\ m.t \in Nat /\ m.epoch \in Int
    BY <1>2, <1>3, <1>4, <1>5
  <2>2. m.epoch = newest
    BY <1>1, <2>1
  <2>3. m.t < m.t
    BY <1>1, <1>5, <2>1, <2>2
  <2> QED BY <2>1, <2>3
<1> QED BY <1>1, <1>5

\* What trim_secondary leaves is the end of the queue.  The last message stays;
\* below the hard cap only what is older than asked for goes, and only while
\* QueueSize messages follow it.
LEMMA TrimIs ==
  ASSUME NEW q \in Seq(Stamps), NEW after \in Int
  PROVE  /\ TrimSecondary(q, after) \in Seq(Stamps)
         /\ \E n \in 0 .. Len(q) :
              /\ Len(TrimSecondary(q, after)) = Len(q) - n
              /\ \A i \in 1 .. Len(q) - n : TrimSecondary(q, after)[i] = q[n + i]
              /\ Len(q) > 0 => n < Len(q)
              /\ Len(q) <= MaxSecondary => \A i \in 1 .. n : Len(q) - i >= QueueSize /\ q[i] < after
<1> DEFINE hard   == {i \in DOMAIN q : Len(q) - i < MaxSecondary}
           capped == Popped(q, hard)
           soft   == {i \in DOMAIN capped : Len(capped) - i < QueueSize \/ capped[i] >= after}
<1>1. TrimSecondary(q, after) = Popped(capped, soft)
  BY DEF TrimSecondary, PopUntil, Popped
<1>2. hard \in SUBSET (DOMAIN q) /\ soft \in SUBSET (DOMAIN capped)
  OBVIOUS
<1>3. Len(q) \in Nat /\ DOMAIN q = 1 .. Len(q) /\ \A i \in DOMAIN q : q[i] \in Nat
  BY LenProperties, ElementOfSeq, StampTypes
<1>4. QueueSize \in Nat \ {0} /\ MaxSecondary \in Nat \ {0}
  BY SyncAssumption
<1>5. PICK a \in 0 .. Len(q) : /\ capped = SubSeq(q, a + 1, Len(q))
                               /\ \A i \in 1 .. a : i \notin hard
  <2> HIDE DEF hard
  <2> QED BY <1>2, PoppedIs
<1>6. \A i \in 1 .. a : Len(q) - i >= MaxSecondary
  BY <1>3, <1>4, <1>5
<1> HIDE DEF hard, capped
<1>7. /\ capped \in Seq(Stamps) /\ Len(capped) = Len(q) - a
      /\ DOMAIN capped = 1 .. Len(q) - a
      /\ \A i \in 1 .. Len(q) - a : capped[i] = q[a + i]
  BY <1>5, SuffixIs
<1>8. PICK b \in 0 .. Len(capped) : /\ Popped(capped, soft) = SubSeq(capped, b + 1, Len(capped))
                                    /\ \A i \in 1 .. b : i \notin soft
  <2> HIDE DEF soft
  <2> QED BY <1>2, <1>7, PoppedIs
<1>9. \A i \in 1 .. b : Len(capped) - i >= QueueSize /\ capped[i] < after
  <2>1. \A i \in 1 .. b : i \in DOMAIN capped
    BY <1>3, <1>7
  <2>2. ASSUME NEW i \in 1 .. b PROVE Len(capped) - i >= QueueSize /\ capped[i] < after
    <3>1. i \in DOMAIN capped /\ i \in Int /\ i \in 1 .. Len(q) - a
      BY <1>3, <1>7, <2>1
    <3>2. a + i \in DOMAIN q /\ capped[i] = q[a + i]
      BY <1>3, <1>7, <3>1
    <3>3. capped[i] \in Nat
      BY <1>3, <3>2
    <3>4. ~(Len(capped) - i < QueueSize) /\ ~(capped[i] >= after)
      BY <1>8, <3>1
    <3>5. Len(capped) \in Int
      BY <1>3, <1>7
    <3> QED BY <1>4, <3>1, <3>3, <3>4, <3>5
  <2> QED BY <2>2
<1> HIDE DEF soft
<1> DEFINE r == TrimSecondary(q, after)
<1>10. /\ r \in Seq(Stamps) /\ Len(r) = Len(capped) - b
       /\ \A i \in 1 .. Len(capped) - b : r[i] = capped[b + i]
  BY <1>1, <1>7, <1>8, SuffixIs
<1> HIDE DEF r
<1> DEFINE n == a + b
<1>11. n \in 0 .. Len(q) /\ Len(r) = Len(q) - n
  BY <1>3, <1>7, <1>10
<1>12. ASSUME NEW i \in 1 .. Len(q) - n PROVE r[i] = q[n + i]
  <2>1. i \in 1 .. Len(capped) - b /\ b + i \in 1 .. Len(q) - a /\ a + (b + i) = n + i
    BY <1>3, <1>7
  <2> QED BY <1>7, <1>10, <2>1
<1>13. ASSUME Len(q) > 0 PROVE n < Len(q)
  <2>1. a < Len(q)
    <3>1. CASE a = 0 BY <1>3, <1>13, <3>1
    <3>2. CASE a > 0
      <4>1. a \in 1 .. a
        BY <3>2
      <4>2. Len(q) - a >= MaxSecondary
        BY <1>6, <4>1
      <4> QED BY <1>3, <1>4, <4>2
    <3> QED BY <3>1, <3>2
  <2>2. CASE b = 0 BY <1>3, <2>1, <2>2
  <2>3. CASE b > 0
    <3>1. b \in 1 .. b
      BY <2>3
    <3>2. Len(capped) - b >= QueueSize
      BY <1>9, <3>1
    <3> QED BY <1>3, <1>4, <1>7, <3>2
  <2> QED BY <2>2, <2>3
<1>14. ASSUME Len(q) <= MaxSecondary, NEW i \in 1 .. n
       PROVE  Len(q) - i >= QueueSize /\ q[i] < after
  <2>1. a = 0
    <3>1. ASSUME a > 0 PROVE FALSE
      <4>1. 1 \in 1 .. a
        BY <3>1
      <4>2. Len(q) - 1 >= MaxSecondary
        BY <1>6, <4>1
      <4> QED BY <1>3, <1>4, <1>14, <4>2
    <3> QED BY <3>1
  <2>2. i \in 1 .. b /\ Len(capped) = Len(q) /\ i \in 1 .. Len(q) - a
    BY <1>3, <1>7, <2>1
  <2>3. capped[i] = q[i]
    BY <1>7, <2>1, <2>2
  <2> QED BY <1>9, <2>2, <2>3
<1> HIDE DEF n
<1> QED BY <1>10, <1>11, <1>12, <1>13, <1>14 DEF r

LEMMA BehindIs ==
  ASSUME qs' \in [Secondary -> Seq(Stamps)], qa' \in Seq(Message),
         qa' # <<>> => ~Passed(qs', qa'[1].t)
  PROVE  WaitsOnlyWhenBehind'
<1> SUFFICES ASSUME qa' # <<>>
             PROVE  \E s \in Secondary :
                      qs'[s] = <<>> \/ qs'[s][Len(qs'[s])] < qa'[1].t + Slop
  BY DEF WaitsOnlyWhenBehind
<1>1. PICK s \in Secondary : ~(qs'[s] # <<>> /\ Last(qs'[s]) >= qa'[1].t + Slop)
  BY DEF Passed
<1>2. CASE qs'[s] = <<>> BY <1>2
<1>3. CASE qs'[s] # <<>>
  <2> DEFINE q == qs'[s]
             r == qa'
  <2>1. q \in Seq(Stamps) /\ q # <<>> /\ r \in Seq(Message) /\ r # <<>>
    BY <1>3
  <2> HIDE DEF q, r
  <2>2. Len(q) \in 1 .. Len(q) /\ Len(r) \in Nat \ {0}
    BY <2>1, LenProperties, EmptySeq
  <2>3. q[Len(q)] \in Nat
    BY <2>1, <2>2, ElementOfSeq, StampTypes
  <2>4. r[1] \in Message
    <3>1. 1 \in 1 .. Len(r)
      BY <2>2
    <3> QED BY <2>1, <3>1, ElementOfSeq
  <2>5. r[1].t + Slop \in Nat
    <3>1. r[1].t \in Stamps /\ \A x \in Stamps : x + Slop \in Nat
      BY <2>4, StampTypes
    <3> QED BY <3>1
  <2>6. ~(q[Len(q)] >= r[1].t + Slop)
    BY <1>1, <1>3 DEF q, r, Last
  <2>7. q[Len(q)] < r[1].t + Slop
    BY <2>3, <2>5, <2>6
  <2> QED BY <2>7 DEF q, r
<1> QED BY <1>2, <1>3

\* A new primary joins the queue.
LEMMA ApartAppend ==
  ASSUME NEW q \in Seq(Message), NEW pairs, NEW lone, NEW U, Apart(q, pairs, lone, U),
         NEW m \in Message, m \notin U, \A e \in pairs : e.p \in Message
  PROVE  Apart(Append(q, m), pairs, lone, U \cup {m})
<1> DEFINE r == Append(q, m)
<1>1. /\ DOMAIN q = 1 .. Len(q) /\ Len(q) \in Nat /\ \A i \in DOMAIN q : q[i] \in Message
      /\ DOMAIN r = 1 .. Len(q) + 1 /\ r[Len(q) + 1] = m /\ \A i \in 1 .. Len(q) : r[i] = q[i]
  BY LenProperties, ElementOfSeq, AppendProperties
<1> HIDE DEF r
<1>2. /\ \A i, j \in DOMAIN q : q[i] = q[j] => i = j
      /\ \A e, f \in pairs : e.p = f.p => e = f
      /\ \A i \in DOMAIN q : q[i] \notin lone /\ \A e \in pairs : e.p # q[i]
      /\ \A e \in pairs : e.p \notin lone
      /\ \A x \in Message :
           x \in U <=> (\E i \in DOMAIN q : q[i] = x) \/ (\E e \in pairs : e.p = x) \/ x \in lone
  BY DEF Apart
<1>3. m \notin lone /\ (\A e \in pairs : e.p # m) /\ \A i \in DOMAIN q : q[i] # m
  BY <1>2
<1>4. \A i \in DOMAIN r : i = Len(q) + 1 \/ i \in DOMAIN q
  BY <1>1
<1>5. \A i, j \in DOMAIN r : r[i] = r[j] => i = j
  <2>1. \A i \in DOMAIN q : r[i] = q[i]
    BY <1>1
  <2> QED BY <1>1, <1>2, <1>3, <1>4, <2>1, Zenon
<1>6. \A i \in DOMAIN r : r[i] \notin lone /\ \A e \in pairs : e.p # r[i]
  <2>1. \A i \in DOMAIN q : r[i] = q[i]
    BY <1>1
  <2> QED BY <1>1, <1>2, <1>3, <1>4, <2>1, Zenon
<1>7. \A x : (\E i \in DOMAIN r : r[i] = x) <=> x = m \/ \E i \in DOMAIN q : q[i] = x
  <2>1. \A i \in DOMAIN q : r[i] = q[i] /\ i \in DOMAIN r
    BY <1>1
  <2>2. Len(q) + 1 \in DOMAIN r
    BY <1>1
  <2> QED BY <1>1, <1>4, <2>1, <2>2, Zenon
<1>8. \A x \in Message : x \in U \cup {m} <=>
        (\E i \in DOMAIN r : r[i] = x) \/ (\E e \in pairs : e.p = x) \/ x \in lone
  BY <1>2, <1>7
<1> QED BY <1>2, <1>5, <1>6, <1>8 DEF Apart, r

\* The oldest primaries leave the queue.
LEMMA ApartPop ==
  ASSUME NEW q \in Seq(Message), NEW pairs, NEW lone, NEW U, Apart(q, pairs, lone, U),
         NEW n \in 0 .. Len(q), NEW r, r = SubSeq(q, n + 1, Len(q))
  PROVE  /\ r \in Seq(Message) /\ ToSet(q) \subseteq U
         /\ Apart(r, pairs, lone, U \ (ToSet(q) \ ToSet(r)))
<1>1. /\ DOMAIN q = 1 .. Len(q) /\ Len(q) \in Nat /\ r \in Seq(Message)
      /\ DOMAIN r = 1 .. Len(q) - n /\ \A i \in 1 .. Len(q) - n : r[i] = q[n + i]
      /\ \A i \in DOMAIN q : q[i] \in Message
  BY LenProperties, ElementOfSeq, SuffixIs
<1>2. /\ \A i, j \in DOMAIN q : q[i] = q[j] => i = j
      /\ \A e, f \in pairs : e.p = f.p => e = f
      /\ \A i \in DOMAIN q : q[i] \notin lone /\ \A e \in pairs : e.p # q[i]
      /\ \A e \in pairs : e.p \notin lone
      /\ \A x \in Message :
           x \in U <=> (\E i \in DOMAIN q : q[i] = x) \/ (\E e \in pairs : e.p = x) \/ x \in lone
  BY DEF Apart
<1>3. \A i \in DOMAIN r : n + i \in DOMAIN q /\ r[i] = q[n + i]
  BY <1>1
<1>4. \A i, j \in DOMAIN r : r[i] = r[j] => i = j
  <2>1. ASSUME NEW i \in DOMAIN r, NEW j \in DOMAIN r, r[i] = r[j] PROVE i = j
    <3>1. n + i = n + j
      BY <1>2, <1>3, <2>1
    <3> QED BY <1>1, <3>1
  <2> QED BY <2>1
<1>5. \A i \in DOMAIN r : r[i] \notin lone /\ \A e \in pairs : e.p # r[i]
  BY <1>2, <1>3
<1>6. \A x : (x \in ToSet(q) <=> \E i \in DOMAIN q : q[i] = x)
             /\ (x \in ToSet(r) <=> \E i \in DOMAIN r : r[i] = x)
  BY DEF ToSet
<1>7. \A x \in ToSet(r) : x \in ToSet(q)
  BY <1>3, <1>6
<1>8. \A x \in ToSet(q) : x \notin lone /\ \A e \in pairs : e.p # x
  BY <1>2, <1>6
<1>9. \A x \in Message : x \in U \ (ToSet(q) \ ToSet(r)) <=>
        (\E i \in DOMAIN r : r[i] = x) \/ (\E e \in pairs : e.p = x) \/ x \in lone
  BY <1>2, <1>6, <1>7, <1>8
<1>10. ToSet(q) \subseteq U
  BY <1>1, <1>2, <1>6
<1> QED BY <1>1, <1>2, <1>4, <1>5, <1>9, <1>10 DEF Apart

LEMMA SyncStart == SyncInit => SyncInv
<1> SUFFICES ASSUME SyncInit PROVE SyncInv
  OBVIOUS
<1>1. SyncTypes
  BY DEF SyncInit, SyncTypes
<1>2. Fates
  BY DEF SyncInit, Fates, Apart
<1> QED BY <1>1, <1>2 DEF SyncInv, SyncInit, WaitsOnlyWhenBehind

\* try_emit keeps every primary accounted for, once.
LEMMA EmitKeeps ==
  ASSUME SyncInv, NEW q \in Seq(Message), NEW queues \in [Secondary -> Seq(Stamps)],
         TryEmit(q, queues), NEW U, Apart(q, paired, unmatched, U)
  PROVE  /\ qa' \in Seq(Message) /\ qs' \in [Secondary -> Seq(Stamps)]
         /\ paired' \in SUBSET Pairing /\ unmatched' \in SUBSET Message
         /\ Apart(qa', paired', unmatched', U) /\ WaitsOnlyWhenBehind'
<1> DEFINE G == {st \in Turn : Apart(st.qa, st.paired, st.unmatched, U)}
           start == [qa |-> q, qs |-> queues, paired |-> paired, unmatched |-> unmatched,
                     waiting |-> FALSE]
<1>1. paired \in SUBSET Pairing /\ unmatched \in SUBSET Message
  BY DEF SyncInv, SyncTypes
<1>2. start \in G
  BY <1>1 DEF Turn
<1>3. \A st \in Turn : \A out \in Turn :
        st \in G /\ st.qa # <<>> /\ ~st.waiting /\ Passed(st.qs, st.qa[1].t)
          /\ out.qa = Tail(st.qa) /\ ~out.waiting
          /\ (Paired(st, st.qa[1], out) \/ Unpaired(st, st.qa[1], out))
        => out \in G
  BY ApartEmit
<1>4. \A st \in G : Apart(st.qa, st.paired, st.unmatched, U)
  OBVIOUS
<1> HIDE DEF G
<1>5. /\ qa' \in Seq(Message) /\ qs' \in [Secondary -> Seq(Stamps)]
      /\ paired' \in SUBSET Pairing /\ unmatched' \in SUBSET Message
      /\ qa' # <<>> => ~Passed(qs', qa'[1].t)
      /\ \E st \in G : st \in Turn /\ qa' = st.qa /\ qs' = st.qs /\ paired' = st.paired
                       /\ unmatched' = st.unmatched
  BY <1>1, <1>2, <1>3, TryEmitIs
<1>6. Apart(qa', paired', unmatched', U)
  BY <1>4, <1>5
<1>7. WaitsOnlyWhenBehind'
  BY <1>5, BehindIs
<1> QED BY <1>5, <1>6, <1>7

LEMMA PrimaryKeeps ==
  ASSUME SyncInv, NEW m \in Fresh(sent), AddPrimary(m)
  PROVE  SyncInv'
<1> DEFINE restart == qa # <<>> /\ m.t < qa[1].t
           rest    == IF restart THEN <<>> ELSE qa
           gone    == IF restart THEN ToSet(qa) ELSE {}
           pushed  == Append(rest, m)
           stops   == {i \in DOMAIN pushed : Len(pushed) - i < QueueSize}
           kept    == Popped(pushed, stops)
           queues  == IF restart THEN [s \in Secondary |-> <<>>] ELSE qs
           over    == ToSet(pushed) \ ToSet(kept)
           U       == sent \ (overflowed \cup cleared)
<1>1. /\ qa \in Seq(Message) /\ qs \in [Secondary -> Seq(Stamps)] /\ sent \in SUBSET Message
      /\ paired \in SUBSET Pairing /\ overflowed \in SUBSET Message /\ cleared \in SUBSET Message
      /\ heard \in [Secondary -> SUBSET Message]
  BY DEF SyncInv, SyncTypes
<1>2. m \in Message /\ m \notin sent
  BY <1>1, FreshIsNew
<1>3. /\ Apart(qa, paired, unmatched, U)
      /\ overflowed \subseteq sent /\ cleared \subseteq sent /\ overflowed \cap cleared = {}
  BY DEF SyncInv, Fates
<1>4. /\ overflowed' = overflowed \cup over /\ cleared' = cleared \cup gone
      /\ TryEmit(kept, queues) /\ sent' = sent \cup {m} /\ heard' = heard
  BY DEF AddPrimary, PopUntil, Popped
<1>5. rest \in Seq(Message) /\ queues \in [Secondary -> Seq(Stamps)]
  BY <1>1
<1>6. \E n \in 0 .. Len(qa) : rest = SubSeq(qa, n + 1, Len(qa))
  <2>1. Len(qa) \in Nat
    BY <1>1, LenProperties
  <2> HIDE DEF restart
  <2>2. CASE restart
    <3>1. rest = <<>>
      BY <2>2
    <3>2. SubSeq(qa, Len(qa) + 1, Len(qa)) = <<>>
      BY <2>1
    <3>3. Len(qa) \in 0 .. Len(qa)
      BY <2>1
    <3> HIDE DEF rest
    <3> QED BY <3>1, <3>2, <3>3, Zenon
  <2>3. CASE ~restart
    <3>1. rest = qa /\ SubSeq(qa, 0 + 1, Len(qa)) = qa
      BY <1>1, <2>3, SubSeqFull
    <3> QED BY <2>1, <3>1
  <2> QED BY <2>2, <2>3
<1>7. gone = ToSet(qa) \ ToSet(rest)
  BY DEF ToSet
<1>8. stops \in SUBSET (DOMAIN pushed)
  OBVIOUS
<1> HIDE DEF restart, rest, gone, stops, kept, queues
<1>9. ToSet(qa) \subseteq U /\ Apart(rest, paired, unmatched, U \ gone)
  <2>1. PICK n \in 0 .. Len(qa) : rest = SubSeq(qa, n + 1, Len(qa))
    BY <1>6
  <2> HIDE DEF U
  <2> QED BY <1>1, <1>3, <1>7, <2>1, ApartPop
<1>10. Apart(pushed, paired, unmatched, (U \ gone) \cup {m}) /\ pushed \in Seq(Message)
  <2>1. m \notin U \ gone /\ \A e \in paired : e.p \in Message
    BY <1>1, <1>2 DEF Pairing
  <2> HIDE DEF U
  <2> QED BY <1>2, <1>5, <1>9, <2>1, ApartAppend, AppendProperties
<1> HIDE DEF pushed
<1>11. /\ kept \in Seq(Message) /\ ToSet(pushed) \subseteq (U \ gone) \cup {m}
       /\ Apart(kept, paired, unmatched, ((U \ gone) \cup {m}) \ over)
  <2>1. PICK n \in 0 .. Len(pushed) : kept = SubSeq(pushed, n + 1, Len(pushed))
    BY <1>8, <1>10, PoppedIs DEF kept
  <2> HIDE DEF U
  <2> QED BY <1>10, <2>1, ApartPop
<1>12. gone \subseteq U /\ over \subseteq (U \ gone) \cup {m}
  BY <1>7, <1>9, <1>11
<1> HIDE DEF over
<1>13. ((U \ gone) \cup {m}) \ over = sent' \ (overflowed' \cup cleared')
  BY <1>2, <1>3, <1>4, <1>12
<1>14. /\ overflowed' \subseteq sent' /\ cleared' \subseteq sent' /\ overflowed' \cap cleared' = {}
       /\ sent' \in SUBSET Message /\ overflowed' \in SUBSET Message /\ cleared' \in SUBSET Message
       /\ heard' \in [Secondary -> SUBSET Message]
  BY <1>1, <1>2, <1>3, <1>4, <1>12
<1> DEFINE V == ((U \ gone) \cup {m}) \ over
<1>15. Apart(kept, paired, unmatched, V) /\ V = sent' \ (overflowed' \cup cleared')
  BY <1>11, <1>13
<1> HIDE DEF U, V
<1>16. /\ qa' \in Seq(Message) /\ qs' \in [Secondary -> Seq(Stamps)]
       /\ paired' \in SUBSET Pairing /\ unmatched' \in SUBSET Message
       /\ Apart(qa', paired', unmatched', V) /\ WaitsOnlyWhenBehind'
  BY <1>4, <1>5, <1>11, <1>15, EmitKeeps
<1>17. SyncTypes'
  BY <1>14, <1>16 DEF SyncTypes
<1>18. Fates'
  BY <1>14, <1>15, <1>16 DEF Fates
<1> QED BY <1>16, <1>17, <1>18 DEF SyncInv

LEMMA SecondaryKeeps ==
  ASSUME SyncInv, NEW s \in Secondary, NEW m \in Fresh(heard[s]), AddSecondary(s, m)
  PROVE  SyncInv'
<1> DEFINE restart == qs[s] # <<>> /\ m.t < qs[s][1]
           rest    == IF restart THEN <<>> ELSE qs[s]
           pushed  == Append(rest, m.t)
           oldest  == IF qa = <<>> THEN m.t ELSE qa[1].t
           kept    == TrimSecondary(pushed, oldest - Slop)
           queues  == [qs EXCEPT ![s] = kept]
<1>1. /\ qa \in Seq(Message) /\ qs \in [Secondary -> Seq(Stamps)] /\ sent \in SUBSET Message
      /\ overflowed \in SUBSET Message /\ cleared \in SUBSET Message
      /\ heard \in [Secondary -> SUBSET Message]
  BY DEF SyncInv, SyncTypes
<1>2. m \in Message
  BY <1>1, FreshIsNew
<1>3. Fates
  BY DEF SyncInv
<1>4. /\ TryEmit(qa, queues) /\ heard' = [heard EXCEPT ![s] = @ \cup {m}]
      /\ overflowed' = overflowed /\ cleared' = cleared /\ sent' = sent
  BY DEF AddSecondary
<1>5. m.t \in Stamps /\ m.t \in Nat
  BY <1>2, StampTypes
<1>6. oldest - Slop \in Int
  <2>1. CASE qa = <<>>
    BY <1>5, <2>1, StampTypes
  <2>2. CASE qa # <<>>
    <3>1. qa[1].t \in Nat
      <4>1. 1 \in 1 .. Len(qa)
        BY <1>1, <2>2, LenProperties, EmptySeq
      <4>2. qa[1] \in Message
        BY <1>1, <4>1, ElementOfSeq
      <4> QED BY <4>2, StampTypes
    <3> QED BY <2>2, <3>1, StampTypes
  <2> QED BY <2>1, <2>2
<1>7. rest \in Seq(Stamps)
  BY <1>1
<1> HIDE DEF restart, rest, oldest
<1>8. pushed \in Seq(Stamps)
  BY <1>5, <1>7, AppendProperties
<1> HIDE DEF pushed
<1>9. kept \in Seq(Stamps)
  BY <1>6, <1>8, TrimIs
<1> HIDE DEF kept
<1>10. queues \in [Secondary -> Seq(Stamps)]
  BY <1>1, <1>9
<1> HIDE DEF queues
<1> DEFINE U == sent \ (overflowed \cup cleared)
<1>11. Apart(qa, paired, unmatched, U)
  BY <1>3 DEF Fates
<1>12. U = sent' \ (overflowed' \cup cleared')
  BY <1>4
<1> HIDE DEF U
<1>13. /\ qa' \in Seq(Message) /\ qs' \in [Secondary -> Seq(Stamps)]
       /\ paired' \in SUBSET Pairing /\ unmatched' \in SUBSET Message
       /\ Apart(qa', paired', unmatched', U) /\ WaitsOnlyWhenBehind'
  BY <1>1, <1>4, <1>10, <1>11, EmitKeeps
<1>14. SyncTypes'
  BY <1>1, <1>2, <1>4, <1>13 DEF SyncTypes
<1>15. Fates'
  BY <1>3, <1>4, <1>12, <1>13 DEF Fates
<1> QED BY <1>13, <1>14, <1>15 DEF SyncInv

LEMMA SyncStep ==
  ASSUME SyncInv, [SyncNext]_syncVars
  PROVE  SyncInv'
<1>1. CASE SyncNext
  <2>1. CASE Primaries BY <2>1, PrimaryKeeps DEF Primaries
  <2>2. CASE Secondaries BY <2>2, SecondaryKeeps DEF Secondaries
  <2> QED BY <1>1, <2>1, <2>2 DEF SyncNext
<1>2. CASE UNCHANGED syncVars
  <2>1. /\ qa' = qa /\ qs' = qs /\ paired' = paired /\ unmatched' = unmatched
        /\ overflowed' = overflowed /\ cleared' = cleared /\ sent' = sent /\ heard' = heard
    BY <1>2 DEF syncVars
  <2>2. SyncTypes' = SyncTypes /\ Fates' = Fates /\ WaitsOnlyWhenBehind' = WaitsOnlyWhenBehind
    BY <2>1 DEF SyncTypes, Fates, WaitsOnlyWhenBehind
  <2> QED BY <2>2 DEF SyncInv
<1> QED BY <1>1, <1>2

\* The five fates of a primary.
LEMMA FatesAreAll ==
  ASSUME SyncInv
  PROVE  Accounted
<1> DEFINE P == {e.p : e \in paired}
           fates == <<ToSet(qa), P, unmatched, overflowed, cleared>>
           U == sent \ (overflowed \cup cleared)
<1>1. /\ qa \in Seq(Message) /\ paired \in SUBSET Pairing /\ unmatched \in SUBSET Message
      /\ sent \in SUBSET Message /\ \A i \in DOMAIN qa : qa[i] \in Message
  BY ElementOfSeq, LenProperties DEF SyncInv, SyncTypes
<1>2. /\ overflowed \subseteq sent /\ cleared \subseteq sent /\ overflowed \cap cleared = {}
      /\ \A e, f \in paired : e.p = f.p => e = f
      /\ \A i \in DOMAIN qa : qa[i] \notin unmatched /\ \A e \in paired : e.p # qa[i]
      /\ \A e \in paired : e.p \notin unmatched
      /\ \A m \in Message :
           m \in U <=> (\E i \in DOMAIN qa : qa[i] = m) \/ (\E e \in paired : e.p = m)
                       \/ m \in unmatched
  BY DEF SyncInv, Fates, Apart
<1>3. \A x : /\ x \in ToSet(qa) <=> \E i \in DOMAIN qa : qa[i] = x
             /\ x \in P <=> \E e \in paired : e.p = x
  BY DEF ToSet
<1>4. ToSet(qa) \subseteq Message /\ P \subseteq Message
  BY <1>1, <1>3 DEF Pairing
<1>5. \A m \in Message : m \in U <=> m \in ToSet(qa) \/ m \in P \/ m \in unmatched
  BY <1>2, <1>3
<1>6. ToSet(qa) \cap P = {} /\ ToSet(qa) \cap unmatched = {} /\ P \cap unmatched = {}
  BY <1>2, <1>3
<1> DEFINE Q == ToSet(qa)
<1> HIDE DEF P, Q
<1>7. U = Q \cup P \cup unmatched
  BY <1>1, <1>4, <1>5 DEF Q
<1>8. Q \cap P = {} /\ Q \cap unmatched = {} /\ P \cap unmatched = {}
  BY <1>6 DEF Q
<1>9. /\ DOMAIN fates = 1 .. 5 /\ fates[1] = Q /\ fates[2] = P /\ fates[3] = unmatched
      /\ fates[4] = overflowed /\ fates[5] = cleared
  BY DEF Q
<1>10. Range(fates) = {Q, P, unmatched, overflowed, cleared}
  BY <1>9 DEF Range
<1> HIDE DEF fates
<1>11. UNION Range(fates) = sent
  BY <1>2, <1>7, <1>10
<1>12. \A i, j \in DOMAIN fates : i # j => fates[i] \cap fates[j] = {}
  <2>1. ASSUME NEW i \in 1 .. 5, NEW j \in 1 .. 5, i < j PROVE fates[i] \cap fates[j] = {}
    <3>1. i = 1 \/ i = 2 \/ i = 3 \/ i = 4
      BY <2>1
    <3>2. j = 2 \/ j = 3 \/ j = 4 \/ j = 5
      BY <2>1
    <3>3. /\ Q \cap overflowed = {} /\ Q \cap cleared = {} /\ P \cap overflowed = {}
          /\ P \cap cleared = {} /\ unmatched \cap overflowed = {} /\ unmatched \cap cleared = {}
      BY <1>7
    <3> QED BY <1>2, <1>8, <1>9, <2>1, <3>1, <3>2, <3>3
  <2>2. \A i, j \in 1 .. 5 : i # j => i < j \/ j < i
    OBVIOUS
  <2> QED BY <1>9, <2>1, <2>2
<1> QED BY <1>2, <1>11, <1>12 DEF Accounted, fates, P, Q

\* A primary waits only while some secondary stream has yet to pass it.
THEOREM PairsAreNotHeldBack == SyncSpec => []WaitsOnlyWhenBehind
<1>1. SyncInv => WaitsOnlyWhenBehind
  BY DEF SyncInv
<1> QED BY <1>1, SyncStart, SyncStep, PTL DEF SyncSpec

\* Every primary is pending, paired or reported lost, and only one of these.
THEOREM PrimariesAreAccountedFor == SyncSpec => []Accounted
<1> QED BY SyncStart, SyncStep, FatesAreAll, PTL DEF SyncSpec

----------------------------------------------------------------------------
(* What a pair needs is never evicted.                                     *)

\* A secondary message at d that left its queue is of no use to a primary at x:
\* it is out of the window, or a later one of those kept is as near.
Spent(kept, d, x) == x - d > Slop \/ \E g \in kept : d < g /\ Gap(g, x) <= Gap(d, x)

Ascends(q) == \A i, j \in DOMAIN q : i < j => q[i] < q[j]

\* Of the stamps D the queue q has all that primaries at X may still need.
Covers(q, D, X) ==
  /\ Ascends(q) /\ ToSet(q) \subseteq D
  /\ \A d \in D \ ToSet(q) : \A x \in X : Spent(ToSet(q), d, x)

LEMMA GapIs ==
  ASSUME NEW x \in Nat, NEW y \in Nat
  PROVE  Gap(x, y) \in Nat /\ (x < y => Gap(x, y) = y - x) /\ (~(x < y) => Gap(x, y) = x - y)
BY DEF Gap

\* A stamp that gives way to one that is itself spent is spent.
LEMMA SpentPasses ==
  ASSUME NEW d \in Nat, NEW g \in Nat, NEW x \in Nat, NEW kept \in SUBSET Nat,
         d < g, Gap(g, x) <= Gap(d, x), Spent(kept, g, x)
  PROVE  Spent(kept, d, x)
<1>1. CASE x - g > Slop
  <2>1. x - d > Slop
    BY <1>1, StampTypes
  <2> QED BY <2>1 DEF Spent
<1>2. CASE ~(x - g > Slop)
  <2>1. PICK h \in kept : g < h /\ Gap(h, x) <= Gap(g, x)
    BY <1>2 DEF Spent
  <2>2. d < h /\ Gap(h, x) <= Gap(d, x)
    <3>1. Gap(h, x) \in Nat /\ Gap(g, x) \in Nat /\ Gap(d, x) \in Nat /\ h \in Nat
      BY GapIs
    <3> QED BY <2>1, <3>1
  <2> QED BY <2>2 DEF Spent
<1> QED BY <1>1, <1>2

\* Pops from the front are harmless if what goes is spent.
LEMMA CoversSuffix ==
  ASSUME NEW q \in Seq(Stamps), NEW D \in SUBSET Nat, NEW X \in SUBSET Nat, NEW Y \in SUBSET X,
         Covers(q, D, X), NEW n \in 0 .. Len(q), NEW r \in Seq(Stamps), Len(r) = Len(q) - n,
         \A i \in 1 .. Len(q) - n : r[i] = q[n + i],
         \A i \in 1 .. n : \A x \in Y : Spent(ToSet(r), q[i], x)
  PROVE  Covers(r, D, Y)
<1>1. /\ Len(q) \in Nat /\ DOMAIN q = 1 .. Len(q) /\ DOMAIN r = 1 .. Len(q) - n
      /\ \A i \in DOMAIN q : q[i] \in Nat
      /\ \A i \in DOMAIN r : r[i] \in Nat
  BY LenProperties, ElementOfSeq, StampTypes
<1>2. \A i \in DOMAIN r : n + i \in DOMAIN q /\ r[i] = q[n + i]
  BY <1>1
<1>3. Ascends(r)
  <2>1. ASSUME NEW i \in DOMAIN r, NEW j \in DOMAIN r, i < j PROVE r[i] < r[j]
    <3>1. n + i \in DOMAIN q /\ n + j \in DOMAIN q /\ n + i < n + j
      BY <1>1, <1>2, <2>1
    <3>2. q[n + i] < q[n + j]
      BY <3>1 DEF Covers, Ascends
    <3> QED BY <1>2, <3>2
  <2> QED BY <2>1 DEF Ascends
<1>4. \A x : (x \in ToSet(q) <=> \E i \in DOMAIN q : q[i] = x)
             /\ (x \in ToSet(r) <=> \E i \in DOMAIN r : r[i] = x)
  BY DEF ToSet
<1>5. ToSet(r) \subseteq D
  <2>1. \A d \in ToSet(r) : d \in ToSet(q)
    BY <1>2, <1>4
  <2> QED BY <2>1 DEF Covers
<1>6. ASSUME NEW d \in ToSet(q), d \notin ToSet(r), NEW x \in Y PROVE Spent(ToSet(r), d, x)
  <2>1. PICK i \in DOMAIN q : q[i] = d
    BY <1>4
  <2>2. i \in 1 .. n
    <3>1. ASSUME ~(i \in 1 .. n) PROVE FALSE
      <4>1. i - n \in DOMAIN r /\ n + (i - n) = i
        BY <1>1, <3>1
      <4>2. r[i - n] = d
        BY <1>2, <2>1, <4>1
      <4> QED BY <1>4, <1>6, <4>1, <4>2
    <3> QED BY <3>1
  <2> QED BY <2>1, <2>2
<1>7. ASSUME NEW d \in D, d \notin ToSet(r), NEW x \in Y PROVE Spent(ToSet(r), d, x)
  <2>1. CASE d \in ToSet(q) BY <1>6, <1>7, <2>1
  <2>2. CASE d \notin ToSet(q)
    <3>1. Spent(ToSet(q), d, x) /\ x \in Nat
      BY <2>2 DEF Covers
    <3>2. CASE x - d > Slop BY <3>2 DEF Spent
    <3>3. CASE ~(x - d > Slop)
      <4>1. PICK g \in ToSet(q) : d < g /\ Gap(g, x) <= Gap(d, x)
        BY <3>1, <3>3 DEF Spent
      <4>2. CASE g \in ToSet(r) BY <4>1, <4>2 DEF Spent
      <4>3. CASE g \notin ToSet(r)
        <5>1. Spent(ToSet(r), g, x)
          BY <1>6, <4>3
        <5>2. g \in Nat /\ d \in Nat /\ ToSet(r) \in SUBSET Nat
          BY <1>1, <1>4
        <5> QED BY <3>1, <4>1, <5>1, <5>2, SpentPasses
      <4> QED BY <4>2, <4>3
    <3> QED BY <3>2, <3>3
  <2> QED BY <2>1, <2>2
<1> QED BY <1>3, <1>5, <1>7 DEF Covers

\* A newer stamp joins the queue.
LEMMA CoversAppend ==
  ASSUME NEW q \in Seq(Stamps), NEW D \in SUBSET Nat, NEW X \in SUBSET Nat, Covers(q, D, X),
         NEW t \in Stamps, \A d \in D : d < t
  PROVE  Covers(Append(q, t), D \cup {t}, X)
<1> DEFINE r == Append(q, t)
<1>1. /\ DOMAIN q = 1 .. Len(q) /\ Len(q) \in Nat
      /\ DOMAIN r = 1 .. Len(q) + 1 /\ r[Len(q) + 1] = t /\ \A i \in 1 .. Len(q) : r[i] = q[i]
  BY LenProperties, AppendProperties
<1> HIDE DEF r
<1>2. \A x : (x \in ToSet(q) <=> \E i \in DOMAIN q : q[i] = x)
             /\ (x \in ToSet(r) <=> \E i \in DOMAIN r : r[i] = x)
  BY DEF ToSet
<1>3. ToSet(r) = ToSet(q) \cup {t}
  <2>1. \A i \in DOMAIN r : i = Len(q) + 1 \/ i \in DOMAIN q
    BY <1>1
  <2>2. Len(q) + 1 \in DOMAIN r /\ \A i \in DOMAIN q : i \in DOMAIN r /\ r[i] = q[i]
    BY <1>1
  <2>3. \A x : x \in ToSet(r) <=> x \in ToSet(q) \/ x = t
    BY <1>1, <1>2, <2>1, <2>2, Zenon
  <2> QED BY <2>3
<1>4. ToSet(q) \subseteq D /\ Ascends(q)
  BY DEF Covers
<1>5. Ascends(r)
  <2>1. ASSUME NEW i \in DOMAIN r, NEW j \in DOMAIN r, i < j PROVE r[i] < r[j]
    <3>1. i \in DOMAIN q /\ r[i] = q[i]
      BY <1>1, <2>1
    <3>2. CASE j = Len(q) + 1
      <4>1. q[i] \in D
        BY <1>2, <1>4, <3>1
      <4> QED BY <1>1, <3>1, <3>2, <4>1
    <3>3. CASE j # Len(q) + 1
      <4>1. j \in DOMAIN q /\ r[j] = q[j]
        BY <1>1, <3>3
      <4>2. q[i] < q[j]
        BY <1>4, <2>1, <3>1, <4>1 DEF Ascends
      <4> QED BY <3>1, <4>1, <4>2
    <3> QED BY <3>2, <3>3
  <2> QED BY <2>1 DEF Ascends
<1>6. \A d \in (D \cup {t}) \ ToSet(r) : \A x \in X : Spent(ToSet(r), d, x)
  <2>1. ASSUME NEW d \in D, d \notin ToSet(r), NEW x \in X PROVE Spent(ToSet(r), d, x)
    <3>1. Spent(ToSet(q), d, x)
      BY <1>3, <2>1 DEF Covers
    <3> QED BY <1>3, <3>1 DEF Spent
  <2> QED BY <1>3, <2>1
<1> QED BY <1>3, <1>4, <1>5, <1>6 DEF Covers, r

\* The nearest message of the queue is the nearest of all that were heard.
LEMMA NearestOfAll ==
  ASSUME NEW q \in Seq(Stamps), NEW D \in SUBSET Nat, NEW X \in SUBSET Nat, Covers(q, D, X),
         NEW t \in X
  PROVE  /\ Near(q, t) # {} =>
              /\ NearestWithin(q, t) \in D /\ Gap(NearestWithin(q, t), t) <= Slop
              /\ \A d \in D : Gap(NearestWithin(q, t), t) <= Gap(d, t)
         /\ Near(q, t) = {} => \A d \in D : Gap(d, t) > Slop
<1>1. /\ Len(q) \in Nat /\ DOMAIN q = 1 .. Len(q) /\ \A i \in DOMAIN q : q[i] \in Nat
      /\ Slop \in Nat /\ t \in Nat
  BY LenProperties, ElementOfSeq, StampTypes
<1>2. \A x : x \in ToSet(q) <=> \E i \in DOMAIN q : q[i] = x
  BY DEF ToSet
<1>3. \A d \in D : Gap(d, t) \in Nat /\ (t - d > Slop => Gap(d, t) > Slop)
  <2>1. ASSUME NEW d \in D PROVE Gap(d, t) \in Nat /\ (t - d > Slop => Gap(d, t) > Slop)
    <3>1. d \in Nat
      OBVIOUS
    <3> QED BY <1>1, <3>1 DEF Gap
  <2> QED BY <2>1
<1>4. \A d \in D : d \in ToSet(q) \/ t - d > Slop
                   \/ \E g \in ToSet(q) : Gap(g, t) <= Gap(d, t)
  BY DEF Covers, Spent
<1>5. ToSet(q) \subseteq D
  BY DEF Covers
<1>6. ASSUME Near(q, t) # {}
      PROVE  /\ NearestWithin(q, t) \in D /\ Gap(NearestWithin(q, t), t) <= Slop
             /\ \A d \in D : Gap(NearestWithin(q, t), t) <= Gap(d, t)
  <2>1. PICK i \in Near(q, t) :
           /\ i \in DOMAIN q /\ NearestWithin(q, t) = q[i]
           /\ Gap(q[i], t) <= Slop
           /\ \A j \in DOMAIN q : Gap(q[i], t) <= Gap(q[j], t)
    BY <1>1, <1>6, NearestIs
  <2> DEFINE c == NearestWithin(q, t)
  <2>2. c \in ToSet(q) /\ Gap(c, t) <= Slop /\ \A g \in ToSet(q) : Gap(c, t) <= Gap(g, t)
    BY <1>2, <2>1
  <2> HIDE DEF c
  <2>3. ASSUME NEW d \in D PROVE Gap(c, t) <= Gap(d, t)
    <3>1. Gap(c, t) \in Nat /\ Gap(d, t) \in Nat
      BY <1>3, <1>5, <2>2
    <3>2. CASE d \in ToSet(q) BY <2>2, <3>2
    <3>3. CASE t - d > Slop
      <4>1. Gap(d, t) > Slop
        BY <1>3, <3>3
      <4> QED BY <1>1, <2>2, <3>1, <4>1
    <3>4. CASE \E g \in ToSet(q) : Gap(g, t) <= Gap(d, t)
      <4>1. PICK g \in ToSet(q) : Gap(g, t) <= Gap(d, t)
        BY <3>4
      <4>2. Gap(g, t) \in Nat /\ Gap(c, t) <= Gap(g, t)
        BY <1>3, <1>5, <2>2
      <4> QED BY <3>1, <4>1, <4>2
    <3> QED BY <1>4, <3>2, <3>3, <3>4
  <2> QED BY <1>5, <2>2, <2>3 DEF c
<1>7. ASSUME Near(q, t) = {}, NEW d \in D PROVE Gap(d, t) > Slop
  <2>1. \A g \in ToSet(q) : Gap(g, t) \in Nat /\ Gap(g, t) > Slop
    <3>1. ASSUME NEW i \in DOMAIN q PROVE Gap(q[i], t) \in Nat /\ Gap(q[i], t) > Slop
      <4>1. ~(Gap(q[i], t) <= Slop)
        BY <1>7 DEF Near
      <4>2. Gap(q[i], t) \in Nat
        BY <1>1, GapIs
      <4> QED BY <1>1, <4>1, <4>2
    <3> QED BY <1>2, <3>1
  <2>2. Gap(d, t) \in Nat
    BY <1>3
  <2>3. CASE d \in ToSet(q) BY <2>1, <2>3
  <2>4. CASE t - d > Slop BY <1>3, <2>4
  <2>5. CASE \E g \in ToSet(q) : Gap(g, t) <= Gap(d, t)
    <3>1. PICK g \in ToSet(q) : Gap(g, t) <= Gap(d, t)
      BY <2>5
    <3>2. Gap(g, t) \in Nat /\ Gap(g, t) > Slop
      BY <2>1
    <3> QED BY <1>1, <2>2, <3>1, <3>2
  <2> QED BY <1>4, <2>3, <2>4, <2>5
<1> QED BY <1>6, <1>7

\* What drop_older pops behind a match is spent for the primaries to come.
LEMMA DroppedIsSpent ==
  ASSUME NEW q \in Seq(Stamps), NEW t \in Nat, Near(q, t) # {},
         NEW c, c = NearestWithin(q, t), NEW r, r = DropOlder(q, c - Slop)
  PROVE  \E n \in 0 .. Len(q) :
           /\ r \in Seq(Stamps) /\ Len(r) = Len(q) - n
           /\ \A i \in 1 .. Len(q) - n : r[i] = q[n + i]
           /\ \A i \in 1 .. n : \A x \in Nat : x > t => Spent(ToSet(r), q[i], x)
<1>1. /\ Len(q) \in Nat /\ DOMAIN q = 1 .. Len(q) /\ \A i \in DOMAIN q : q[i] \in Nat
      /\ Slop \in Nat
  BY LenProperties, ElementOfSeq, StampTypes
<1>2. PICK k \in DOMAIN q :
         /\ c = q[k] /\ Gap(c, t) <= Slop
         /\ \A j \in DOMAIN q : Gap(c, t) <= Gap(q[j], t)
  BY NearestIs
<1>3. c \in Nat
  BY <1>1, <1>2
<1> DEFINE u == c - Slop
<1>4. u \in Int
  BY <1>1, <1>3
<1>5. PICK n \in 0 .. Len(q) : DropOlder(q, u) = SubSeq(q, n + 1, Len(q))
                               /\ \A i \in 1 .. n : ~(q[i] > u)
  <2> HIDE DEF u
  <2> QED BY <1>4, DropIs
<1>6. /\ r \in Seq(Stamps) /\ Len(r) = Len(q) - n /\ DOMAIN r = 1 .. Len(q) - n
      /\ \A i \in 1 .. Len(q) - n : r[i] = q[n + i]
  <2>1. r = SubSeq(q, n + 1, Len(q))
    BY <1>5
  <2> QED BY <2>1, SuffixIs
<1>7. ASSUME NEW i \in 1 .. n, NEW x \in Nat, x > t PROVE Spent(ToSet(r), q[i], x)
  <2> DEFINE d == q[i]
  <2>1. i \in DOMAIN q /\ d \in Nat /\ d <= c - Slop
    <3>1. i \in DOMAIN q
      BY <1>1
    <3>2. q[i] \in Nat /\ ~(q[i] > u)
      BY <1>1, <1>5, <3>1
    <3> QED BY <1>1, <1>3, <3>1, <3>2
  <2>2. Gap(c, t) <= Gap(d, t)
    BY <1>2, <2>1
  <2> HIDE DEF d, u
  <2>3. CASE Slop = 0
    <3>1. c = t
      BY <1>2, <1>3, <2>3 DEF Gap
    <3>2. x - d > Slop
      BY <1>3, <1>7, <2>1, <2>3, <3>1
    <3> QED BY <3>2 DEF Spent, d
  <2>4. CASE Slop # 0
    <3>1. c \in ToSet(r)
      <4>1. ~(k \in 1 .. n)
        <5>1. ASSUME k \in 1 .. n PROVE FALSE
          <6>1. ~(c > c - Slop)
            BY <1>2, <1>5, <5>1 DEF u
          <6> QED BY <1>1, <1>3, <2>4, <6>1
        <5> QED BY <5>1
      <4>2. k - n \in DOMAIN r /\ n + (k - n) = k
        BY <1>1, <1>6, <4>1
      <4>3. r[k - n] = c
        BY <1>2, <1>6, <4>2
      <4> QED BY <4>2, <4>3 DEF ToSet
    <3>2. d < c
      BY <1>1, <1>3, <2>1, <2>4
    <3>3. Gap(c, x) <= Gap(d, x)
      <4>1. CASE ~(x < c)
        <5>1. Gap(c, x) = x - c /\ Gap(d, x) = x - d
          BY <1>3, <2>1, <3>2, <4>1 DEF Gap
        <5> QED BY <1>3, <2>1, <3>2, <5>1
      <4>2. CASE x < c
        <5>1. t < c /\ Gap(c, t) = c - t /\ Gap(c, x) = c - x
          BY <1>3, <1>7, <4>2 DEF Gap
        <5>2. c - t <= Slop
          BY <1>2, <5>1
        <5>3. d <= t
          BY <1>1, <1>3, <2>1, <5>2
        <5>4. Gap(d, t) = t - d /\ Gap(d, x) = x - d
          BY <1>7, <2>1, <5>3 DEF Gap
        <5>5. c - t <= t - d
          BY <2>2, <5>1, <5>4
        <5> QED BY <1>3, <1>7, <2>1, <5>1, <5>4, <5>5
      <4> QED BY <4>1, <4>2
    <3> QED BY <3>1, <3>2, <3>3 DEF Spent, d
  <2> QED BY <2>3, <2>4
<1> QED BY <1>6, <1>7

\* Primaries are queued as they come, and those to come are later.
Ordered(q, F) ==
  /\ \A i, j \in DOMAIN q : i < j => q[i].t < q[j].t
  /\ \A i \in DOMAIN q : \A x \in F : q[i].t < x

Pending(q, F) == {q[i].t : i \in DOMAIN q} \cup F

\* No message is nearer than the match, and the stream has passed the window.
Final(pairs, D) ==
  \A e \in pairs : \A s \in Secondary :
    /\ e.with[s] \in D[s] /\ Gap(e.with[s], e.p.t) <= Slop
    /\ \A d \in D[s] : Gap(e.with[s], e.p.t) <= Gap(d, e.p.t)
    /\ \E d \in D[s] : d >= e.p.t + Slop

Starved(lone, D) ==
  \A p \in lone :
    /\ \E s \in Secondary : \A d \in D[s] : Gap(d, p.t) > Slop
    /\ \A s \in Secondary : \E d \in D[s] : d >= p.t + Slop

Streams(q, queues, pairs, lone, D, F) ==
  /\ Ordered(q, F) /\ \A s \in Secondary : Covers(queues[s], D[s], Pending(q, F))
  /\ Final(pairs, D) /\ Starved(lone, D)

\* One more pair, one more primary without one.
LEMMA FinalMore ==
  ASSUME NEW pairs, NEW D, Final(pairs, D), NEW e,
         \A s \in Secondary :
           /\ e.with[s] \in D[s] /\ Gap(e.with[s], e.p.t) <= Slop
           /\ \A d \in D[s] : Gap(e.with[s], e.p.t) <= Gap(d, e.p.t)
           /\ \E d \in D[s] : d >= e.p.t + Slop
  PROVE  Final(pairs \cup {e}, D)
BY DEF Final

LEMMA StarvedMore ==
  ASSUME NEW lone, NEW D, Starved(lone, D), NEW p,
         \E s \in Secondary : \A d \in D[s] : Gap(d, p.t) > Slop,
         \A s \in Secondary : \E d \in D[s] : d >= p.t + Slop
  PROVE  Starved(lone \cup {p}, D)
BY DEF Starved

LEMMA StreamsEmit ==
  ASSUME NEW D \in [Secondary -> SUBSET Nat], NEW F \in SUBSET Nat,
         NEW st \in Turn, NEW out \in Turn,
         Streams(st.qa, st.qs, st.paired, st.unmatched, D, F), st.qa # <<>>,
         Passed(st.qs, st.qa[1].t), out.qa = Tail(st.qa),
         Paired(st, st.qa[1], out) \/ Unpaired(st, st.qa[1], out)
  PROVE  Streams(out.qa, out.qs, out.paired, out.unmatched, D, F)
<1> DEFINE q == st.qa
           r == out.qa
           head == q[1]
           t == head.t
           n == Len(q)
           X == Pending(q, F)
           Y == Pending(r, F)
<1>1. /\ q \in Seq(Message) /\ st.qs \in [Secondary -> Seq(Stamps)]
      /\ out.qs \in [Secondary -> Seq(Stamps)]
  BY DEF Turn
<1>2. /\ n \in Nat \ {0} /\ DOMAIN q = 1 .. n /\ \A i \in DOMAIN q : q[i] \in Message
      /\ DOMAIN r = 1 .. n - 1 /\ \A i \in 1 .. n - 1 : r[i] = q[i + 1]
  <2>1. Len(q) \in Nat /\ DOMAIN q = 1 .. Len(q) /\ Len(q) # 0
    BY <1>1, LenProperties, EmptySeq
  <2>2. Tail(q) \in Seq(Message) /\ Len(Tail(q)) = Len(q) - 1
        /\ \A i \in 1 .. Len(Tail(q)) : Tail(q)[i] = q[i + 1]
    BY <1>1, HeadTailProperties
  <2>3. DOMAIN Tail(q) = 1 .. Len(Tail(q))
    BY <2>2, LenProperties
  <2>4. \A i \in DOMAIN q : q[i] \in Message
    BY <1>1, <2>1, ElementOfSeq
  <2> QED BY <2>1, <2>2, <2>3, <2>4
<1>3. /\ Ordered(q, F) /\ Final(st.paired, D) /\ Starved(st.unmatched, D)
      /\ \A s \in Secondary : Covers(st.qs[s], D[s], X)
  BY DEF Streams
<1>4. Passed(st.qs, t) /\ (Paired(st, head, out) \/ Unpaired(st, head, out))
  OBVIOUS
<1>5. head \in Message /\ t \in Nat /\ 1 \in DOMAIN q /\ head = q[1]
  <2>1. 1 \in DOMAIN q
    BY <1>2
  <2> HIDE DEF q
  <2> QED BY <1>2, <2>1, StampTypes
<1> HIDE DEF q, r, head, t, n
<1>6. \A i \in DOMAIN r : i + 1 \in DOMAIN q /\ r[i] = q[i + 1] /\ 1 < i + 1
  BY <1>2
<1>7. \A i \in DOMAIN q : q[i].t \in Nat
  BY <1>2, StampTypes
<1>8. X \in SUBSET Nat /\ t \in X
  BY <1>5, <1>7 DEF Pending, t
<1>9. Y \in SUBSET X /\ \A x \in Y : x > t
  <2>1. \A i \in DOMAIN r : r[i].t \in X /\ r[i].t > t
    <3>1. ASSUME NEW i \in DOMAIN r PROVE r[i].t \in X /\ r[i].t > t
      <4>1. i + 1 \in DOMAIN q /\ r[i] = q[i + 1] /\ 1 < i + 1
        BY <1>6
      <4>2. q[1].t < q[i + 1].t
        BY <1>3, <1>5, <4>1 DEF Ordered
      <4>3. q[i + 1].t \in Nat /\ t = q[1].t
        BY <1>5, <1>7, <4>1 DEF t
      <4> QED BY <1>5, <4>1, <4>2, <4>3 DEF Pending
    <3> QED BY <3>1
  <2>2. \A x \in F : x \in X /\ x > t
    <3>1. \A x \in F : q[1].t < x /\ x \in Nat
      BY <1>3, <1>5 DEF Ordered
    <3>2. t = q[1].t
      BY <1>5 DEF t
    <3> QED BY <1>5, <3>1, <3>2 DEF Pending
  <2> QED BY <2>1, <2>2 DEF Pending
<1>10. Ordered(r, F)
  <2>1. ASSUME NEW i \in DOMAIN r, NEW j \in DOMAIN r, i < j PROVE r[i].t < r[j].t
    <3>1. i + 1 \in DOMAIN q /\ j + 1 \in DOMAIN q /\ i + 1 < j + 1
      BY <1>2, <1>6, <2>1
    <3>2. q[i + 1].t < q[j + 1].t
      BY <1>3, <3>1 DEF Ordered
    <3> QED BY <1>6, <3>2
  <2>2. \A i \in DOMAIN r : \A x \in F : r[i].t < x
    BY <1>3, <1>6 DEF Ordered
  <2> QED BY <2>1, <2>2 DEF Ordered
<1>11. \A s \in Secondary : \E d \in D[s] : d >= t + Slop
  <2>1. ASSUME NEW s \in Secondary PROVE \E d \in D[s] : d >= t + Slop
    <3> DEFINE p == st.qs[s]
    <3>1. p # <<>> /\ Last(p) >= t + Slop
      BY <1>4 DEF Passed
    <3>2. p \in Seq(Stamps) /\ Covers(p, D[s], X)
      BY <1>1, <1>3
    <3> HIDE DEF p
    <3>3. Len(p) \in DOMAIN p
      BY <3>1, <3>2, LenProperties, EmptySeq
    <3>4. Last(p) \in D[s]
      BY <3>2, <3>3 DEF Last, ToSet, Covers
    <3> QED BY <3>1, <3>4
  <2> QED BY <2>1
<1>12. \A s \in Secondary :
         /\ Near(st.qs[s], t) # {} =>
              /\ NearestWithin(st.qs[s], t) \in D[s] /\ Gap(NearestWithin(st.qs[s], t), t) <= Slop
              /\ \A d \in D[s] : Gap(NearestWithin(st.qs[s], t), t) <= Gap(d, t)
         /\ Near(st.qs[s], t) = {} => \A d \in D[s] : Gap(d, t) > Slop
  <2>1. ASSUME NEW s \in Secondary
        PROVE  /\ Near(st.qs[s], t) # {} =>
                    /\ NearestWithin(st.qs[s], t) \in D[s]
                    /\ Gap(NearestWithin(st.qs[s], t), t) <= Slop
                    /\ \A d \in D[s] : Gap(NearestWithin(st.qs[s], t), t) <= Gap(d, t)
               /\ Near(st.qs[s], t) = {} => \A d \in D[s] : Gap(d, t) > Slop
    <3>1. st.qs[s] \in Seq(Stamps) /\ D[s] \in SUBSET Nat /\ Covers(st.qs[s], D[s], X)
      BY <1>1, <1>3
    <3> HIDE DEF X
    <3> QED BY <1>8, <3>1, NearestOfAll
  <2> QED BY <2>1
<1> HIDE DEF X, Y
<1>13. CASE Paired(st, head, out)
  <2>1. PICK match \in [Secondary -> Stamps] :
          /\ out.unmatched = st.unmatched
          /\ out.paired = st.paired \cup {[p |-> head, with |-> match]}
          /\ \A s \in Secondary : /\ Near(st.qs[s], t) # {}
                                  /\ match[s] = NearestWithin(st.qs[s], t)
                                  /\ out.qs[s] = DropOlder(st.qs[s], match[s] - Slop)
    BY <1>13 DEF Paired, t
  <2> DEFINE e == [p |-> head, with |-> match]
  <2>2. out.paired = st.paired \cup {e} /\ e.p.t = t /\ e.with = match
    BY <2>1 DEF t
  <2> HIDE DEF e
  <2>3. Final(out.paired, D)
    <3>1. \A s \in Secondary :
            /\ e.with[s] \in D[s] /\ Gap(e.with[s], e.p.t) <= Slop
            /\ \A d \in D[s] : Gap(e.with[s], e.p.t) <= Gap(d, e.p.t)
            /\ \E d \in D[s] : d >= e.p.t + Slop
      BY <1>11, <1>12, <2>1, <2>2
    <3> QED BY <1>3, <2>2, <3>1, FinalMore
  <2>4. ASSUME NEW s \in Secondary PROVE Covers(out.qs[s], D[s], Y)
    <3> DEFINE u == st.qs[s]
               v == out.qs[s]
               c == match[s]
    <3>1. u \in Seq(Stamps) /\ D[s] \in SUBSET Nat /\ Covers(u, D[s], X) /\ Near(u, t) # {}
          /\ c = NearestWithin(u, t) /\ v = DropOlder(u, c - Slop)
      BY <1>1, <1>3, <2>1
    <3> HIDE DEF u, v, c
    <3>2. PICK k \in 0 .. Len(u) :
             /\ v \in Seq(Stamps) /\ Len(v) = Len(u) - k
             /\ \A i \in 1 .. Len(u) - k : v[i] = u[k + i]
             /\ \A i \in 1 .. k : \A x \in Nat : x > t => Spent(ToSet(v), u[i], x)
      BY <1>5, <3>1, DroppedIsSpent
    <3>3. \A i \in 1 .. k : \A x \in Y : Spent(ToSet(v), u[i], x)
      BY <1>8, <1>9, <3>2
    <3>4. Covers(v, D[s], Y)
      BY <1>8, <1>9, <3>1, <3>2, <3>3, CoversSuffix
    <3> QED BY <3>4 DEF v
  <2> QED BY <1>3, <1>10, <2>1, <2>3, <2>4 DEF Streams, r, Y
<1>14. CASE Unpaired(st, head, out)
  <2>1. /\ out.paired = st.paired /\ out.qs = st.qs /\ out.unmatched = st.unmatched \cup {head}
        /\ \E s \in Secondary : Near(st.qs[s], t) = {}
    BY <1>14 DEF Unpaired, t
  <2>2. Starved(out.unmatched, D)
    <3>1. \E s \in Secondary : \A d \in D[s] : Gap(d, head.t) > Slop
      BY <1>12, <2>1 DEF t
    <3>2. \A s \in Secondary : \E d \in D[s] : d >= head.t + Slop
      BY <1>11 DEF t
    <3> QED BY <1>3, <2>1, <3>1, <3>2, StarvedMore
  <2>3. ASSUME NEW s \in Secondary PROVE Covers(out.qs[s], D[s], Y)
    <3>1. Covers(st.qs[s], D[s], X)
      BY <1>3
    <3> QED BY <1>9, <2>1, <3>1 DEF Covers
  <2> QED BY <1>3, <1>10, <2>1, <2>2, <2>3 DEF Streams, r, Y
<1> QED BY <1>4, <1>13, <1>14

----------------------------------------------------------------------------
(* The streams, while their clocks are steady.                             *)

\* The stamps heard, and those a primary to come may have.
Times  == [s \in Secondary |-> {h.t : h \in heard[s]}]
Coming == {x \in Nat : /\ \A p \in sent : p.t < x
                       /\ \A s \in Secondary : \A h \in heard[s] : h.t <= x + Lag}

StreamInv == Steady => Streams(qa, qs, paired, unmatched, Times, Coming)

\* The hard cap of a secondary queue is not reached.
Uncapped == \A s \in Secondary : Len(qs[s]) < MaxSecondary

LEMMA SteadyIs ==
  ASSUME heard \in [Secondary -> SUBSET Message]
  PROVE  Steady <=> /\ \A m \in sent : m.epoch = 0
                    /\ \A s \in Secondary : \A m \in heard[s] : m.epoch = 0
<1>1. Range(heard) = {heard[s] : s \in Secondary}
  BY DEF Range
<1>2. \A m : m \in UNION (Range(heard) \cup {sent})
             <=> m \in sent \/ \E s \in Secondary : m \in heard[s]
  BY <1>1
<1> QED BY <1>2 DEF Steady

\* With a steady clock, a stream's next stamp is its greatest.
LEMMA FreshIsLatest ==
  ASSUME NEW said \in SUBSET Message, NEW m \in Fresh(said), m.epoch = 0,
         \A p \in said : p.epoch = 0
  PROVE  \A p \in said : p.t < m.t
<1> DEFINE E == {0} \cup {h.epoch : h \in said}
<1>1. E = {0}
  OBVIOUS
<1>2. Max(E) = 0
  <2>1. E \in SUBSET Int /\ E # {} /\ \A x \in E : x <= 0
    BY <1>1
  <2> HIDE DEF E
  <2>2. Max(E) \in E
    BY <2>1, GreatestOf
  <2> QED BY <1>1, <2>2
<1>3. \/ \A p \in said : p.epoch = 0 => p.t < m.t
      \/ m.epoch = 0 + 1
  BY <1>2 DEF Fresh
<1> QED BY <1>3

\* Integers that ascend are at least as far apart as their places.
LEMMA Spaced ==
  ASSUME NEW q \in Seq(Stamps), Ascends(q), NEW a \in 1 .. Len(q)
  PROVE  q[Len(q)] - q[a] >= Len(q) - a
<1>1. Len(q) \in Nat /\ DOMAIN q = 1 .. Len(q) /\ \A i \in DOMAIN q : q[i] \in Nat
  BY LenProperties, ElementOfSeq, StampTypes
<1> DEFINE n == Len(q) - a
           T == {k \in 0 .. n : q[a + k] - q[a] >= k}
<1>2. n \in Nat /\ a \in DOMAIN q /\ a + 0 = a /\ a + n = Len(q)
  BY <1>1
<1>3. 0 \in T
  BY <1>1, <1>2
<1>4. ASSUME NEW k \in 0 .. n - 1, k \in T PROVE k + 1 \in T
  <2>1. a + k \in DOMAIN q /\ a + (k + 1) \in DOMAIN q /\ a + k < a + (k + 1)
    BY <1>1, <1>2
  <2>2. q[a + k] < q[a + (k + 1)] /\ q[a + k] \in Nat /\ q[a + (k + 1)] \in Nat /\ q[a] \in Nat
    BY <1>1, <1>2, <2>1 DEF Ascends
  <2>3. q[a + k] - q[a] >= k
    BY <1>4
  <2>4. \A u, v, w \in Nat : u < v /\ u - w >= k => v - w >= k + 1
    OBVIOUS
  <2>5. q[a + (k + 1)] - q[a] >= k + 1
    BY <2>2, <2>3, <2>4
  <2>6. k + 1 \in 0 .. n
    BY <1>2
  <2> QED BY <2>5, <2>6
<1>5. n \in T
  <2> HIDE DEF n, T
  <2>1. n \in 0 .. n
    BY <1>2
  <2> QED BY <1>2, <1>3, <1>4, <2>1, UpTo
<1>6. q[a + n] - q[a] >= n
  BY <1>5
<1> QED BY <1>2, <1>6

\* try_emit keeps the streams covered.
LEMMA EmitStreams ==
  ASSUME SyncInv, NEW q \in Seq(Message), NEW queues \in [Secondary -> Seq(Stamps)],
         TryEmit(q, queues), NEW D \in [Secondary -> SUBSET Nat], NEW F \in SUBSET Nat,
         Streams(q, queues, paired, unmatched, D, F)
  PROVE  Streams(qa', qs', paired', unmatched', D, F)
<1> DEFINE G == {st \in Turn : Streams(st.qa, st.qs, st.paired, st.unmatched, D, F)}
           start == [qa |-> q, qs |-> queues, paired |-> paired, unmatched |-> unmatched,
                     waiting |-> FALSE]
<1>1. paired \in SUBSET Pairing /\ unmatched \in SUBSET Message
  BY DEF SyncInv, SyncTypes
<1>2. start \in G
  BY <1>1 DEF Turn
<1>3. \A st \in Turn : \A out \in Turn :
        st \in G /\ st.qa # <<>> /\ ~st.waiting /\ Passed(st.qs, st.qa[1].t)
          /\ out.qa = Tail(st.qa) /\ ~out.waiting
          /\ (Paired(st, st.qa[1], out) \/ Unpaired(st, st.qa[1], out))
        => out \in G
  BY StreamsEmit
<1>4. \A st \in G : Streams(st.qa, st.qs, st.paired, st.unmatched, D, F)
  OBVIOUS
<1> HIDE DEF G
<1>5. \E st \in G : st \in Turn /\ qa' = st.qa /\ qs' = st.qs /\ paired' = st.paired
                    /\ unmatched' = st.unmatched
  BY <1>1, <1>2, <1>3, TryEmitIs
<1> QED BY <1>4, <1>5

\* What was final and what was starved is still so when a later stamp is heard.
LEMMA NewerIsFarther ==
  ASSUME NEW D \in [Secondary -> SUBSET Nat], NEW s \in Secondary, NEW t \in Nat,
         \A d \in D[s] : d < t, NEW pairs \in SUBSET Pairing, NEW lone \in SUBSET Message,
         Final(pairs, D), Starved(lone, D), NEW E, E = [D EXCEPT ![s] = @ \cup {t}]
  PROVE  Final(pairs, E) /\ Starved(lone, E)
<1>1. /\ \A v \in Secondary : D[v] \subseteq E[v] /\ E[v] \subseteq D[v] \cup {t} /\ D[v] \subseteq Nat
      /\ \A v \in Secondary : v # s => E[v] = D[v]
      /\ Slop \in Nat
  BY StampTypes
<1>2. ASSUME NEW x \in Nat, NEW d \in D[s], d >= x + Slop PROVE Gap(t, x) > Slop
  <2>1. d \in Nat /\ d < t
    BY <1>1
  <2>2. ~(t < x) /\ t - x > Slop
    BY <1>1, <1>2, <2>1
  <2> QED BY <2>2 DEF Gap
<1>3. ASSUME NEW e \in pairs, NEW v \in Secondary
      PROVE  /\ e.with[v] \in E[v] /\ Gap(e.with[v], e.p.t) <= Slop
             /\ \A d \in E[v] : Gap(e.with[v], e.p.t) <= Gap(d, e.p.t)
             /\ \E d \in E[v] : d >= e.p.t + Slop
  <2> DEFINE x == e.p.t
             c == e.with[v]
  <2>1. /\ c \in D[v] /\ Gap(c, x) <= Slop /\ \A d \in D[v] : Gap(c, x) <= Gap(d, x)
        /\ \E d \in D[v] : d >= x + Slop
    BY DEF Final
  <2>2. x \in Nat
    <3>1. e.p \in Message
      BY DEF Pairing
    <3> QED BY <3>1, StampTypes
  <2> HIDE DEF x, c
  <2>3. c \in Nat /\ Gap(c, x) \in Nat
    BY <1>1, <2>1, <2>2, GapIs
  <2>4. v = s => Gap(c, x) <= Gap(t, x)
    <3>1. ASSUME v = s PROVE Gap(c, x) <= Gap(t, x)
      <4>1. Gap(t, x) > Slop /\ Gap(t, x) \in Nat
        BY <1>2, <2>1, <2>2, <3>1, GapIs
      <4> QED BY <1>1, <2>1, <2>3, <4>1
    <3> QED BY <3>1
  <2>5. \A d \in E[v] : Gap(c, x) <= Gap(d, x)
    BY <1>1, <2>1, <2>4
  <2>6. \E d \in E[v] : d >= x + Slop
    BY <1>1, <2>1
  <2> QED BY <1>1, <2>1, <2>5, <2>6 DEF x, c
<1>4. ASSUME NEW p \in lone
      PROVE  /\ \E v \in Secondary : \A d \in E[v] : Gap(d, p.t) > Slop
             /\ \A v \in Secondary : \E d \in E[v] : d >= p.t + Slop
  <2>1. p.t \in Nat
    BY StampTypes
  <2>2. /\ \E v \in Secondary : \A d \in D[v] : Gap(d, p.t) > Slop
        /\ \A v \in Secondary : \E d \in D[v] : d >= p.t + Slop
    BY DEF Starved
  <2>3. PICK v \in Secondary : \A d \in D[v] : Gap(d, p.t) > Slop
    BY <2>2
  <2>4. Gap(t, p.t) > Slop \/ v # s
    BY <1>2, <2>1, <2>2
  <2>5. \A d \in E[v] : Gap(d, p.t) > Slop
    BY <1>1, <2>3, <2>4
  <2> QED BY <1>1, <2>2, <2>5
<1> QED BY <1>3, <1>4 DEF Final, Starved

\* Nothing that is still to come has been heard yet.
LEMMA TimesTypes ==
  ASSUME heard \in [Secondary -> SUBSET Message]
  PROVE  Times \in [Secondary -> SUBSET Nat] /\ Coming \in SUBSET Nat
<1>1. ASSUME NEW s \in Secondary PROVE {h.t : h \in heard[s]} \in SUBSET Nat
  <2>1. \A h \in heard[s] : h \in Message
    OBVIOUS
  <2> QED BY <2>1, StampTypes
<1> QED BY <1>1 DEF Times, Coming

LEMMA StreamsPrimary ==
  ASSUME SyncInv, StreamInv, Steady', NEW m \in Fresh(sent), AddPrimary(m),
         \A s \in Secondary : \A h \in heard[s] : h.epoch = m.epoch => h.t <= m.t + Lag
  PROVE  Streams(qa', qs', paired', unmatched', Times', Coming')
<1>1. /\ qa \in Seq(Message) /\ qs \in [Secondary -> Seq(Stamps)] /\ sent \in SUBSET Message
      /\ heard \in [Secondary -> SUBSET Message]
  BY DEF SyncInv, SyncTypes
<1>2. sent' = sent \cup {m} /\ heard' = heard /\ m \in Message
  BY <1>1, FreshIsNew DEF AddPrimary
<1>3. Steady /\ m.epoch = 0 /\ (\A p \in sent : p.epoch = 0)
      /\ \A s \in Secondary : \A h \in heard[s] : h.epoch = 0
  <2>1. heard' \in [Secondary -> SUBSET Message]
    BY <1>1, <1>2
  <2>2. (\A p \in sent' : p.epoch = 0) /\ \A s \in Secondary : \A h \in heard'[s] : h.epoch = 0
    <3>1. ASSUME heard' \in [Secondary -> SUBSET Message]
          PROVE  Steady' <=> /\ \A p \in sent' : p.epoch = 0
                             /\ \A s \in Secondary : \A h \in heard'[s] : h.epoch = 0
      <4>1. Range(heard') = {heard'[s] : s \in Secondary}
        BY <3>1 DEF Range
      <4>2. \A p : p \in UNION (Range(heard') \cup {sent'})
                   <=> p \in sent' \/ \E s \in Secondary : p \in heard'[s]
        BY <4>1
      <4> QED BY <4>2 DEF Steady
    <3> QED BY <2>1, <3>1
  <2>3. (\A p \in sent : p.epoch = 0) /\ m.epoch = 0
        /\ \A s \in Secondary : \A h \in heard[s] : h.epoch = 0
    BY <1>2, <2>2
  <2> QED BY <1>1, <2>3, SteadyIs
<1>4. Streams(qa, qs, paired, unmatched, Times, Coming)
  BY <1>3 DEF StreamInv
<1>5. Times' = Times /\ Times \in [Secondary -> SUBSET Nat] /\ Coming \in SUBSET Nat
  BY <1>1, <1>2, TimesTypes DEF Times
<1>6. m.t \in Nat /\ \A p \in sent : p.t < m.t /\ p.t \in Nat
  BY <1>1, <1>2, <1>3, FreshIsLatest, StampTypes
<1>7. m.t \in Coming
  BY <1>3, <1>6 DEF Coming
<1>8. Coming' \in SUBSET Coming /\ \A x \in Coming' : m.t < x
  BY <1>2 DEF Coming
<1> DEFINE C == Coming'
           D == Times
<1>9. Ordered(qa, Coming) /\ (\A s \in Secondary : Covers(qs[s], D[s], Pending(qa, Coming)))
      /\ Final(paired, D) /\ Starved(unmatched, D)
  BY <1>4 DEF Streams
<1>10. \A i \in DOMAIN qa : qa[i] \in Message /\ qa[i].t \in Nat /\ qa[i].t < m.t
  <2>1. \A i \in DOMAIN qa : qa[i] \in Message
    BY <1>1, ElementOfSeq, LenProperties
  <2>2. \A i \in DOMAIN qa : qa[i].t < m.t
    BY <1>7, <1>9 DEF Ordered
  <2> QED BY <2>1, <2>2, StampTypes
<1> DEFINE pushed == Append(qa, m)
           stops  == {i \in DOMAIN pushed : Len(pushed) - i < QueueSize}
           kept   == Popped(pushed, stops)
<1>11. TryEmit(kept, qs)
  <2>1. ~(qa # <<>> /\ m.t < qa[1].t)
    <3>1. ASSUME qa # <<>> PROVE ~(m.t < qa[1].t)
      <4>1. 1 \in DOMAIN qa
        BY <1>1, <3>1, LenProperties, EmptySeq
      <4> QED BY <1>6, <1>10, <4>1
    <3> QED BY <3>1
  <2> QED BY <2>1 DEF AddPrimary, PopUntil, Popped
<1>12. /\ DOMAIN qa = 1 .. Len(qa) /\ Len(qa) \in Nat /\ pushed \in Seq(Message)
       /\ DOMAIN pushed = 1 .. Len(qa) + 1 /\ pushed[Len(qa) + 1] = m
       /\ \A i \in 1 .. Len(qa) : pushed[i] = qa[i]
  BY <1>1, <1>2, LenProperties, AppendProperties
<1>13. stops \in SUBSET (DOMAIN pushed)
  OBVIOUS
<1> HIDE DEF pushed, stops, C, D
<1>14. /\ \A i \in DOMAIN pushed : pushed[i].t \in Nat
       /\ \A i, j \in DOMAIN pushed : i < j => pushed[i].t < pushed[j].t
       /\ \A i \in DOMAIN pushed : \A x \in C : pushed[i].t < x
       /\ \A i \in DOMAIN pushed : pushed[i].t \in Pending(qa, Coming)
  <2>1. \A i \in DOMAIN pushed : i = Len(qa) + 1 \/ i \in DOMAIN qa
    BY <1>12
  <2>2. ASSUME NEW i \in DOMAIN pushed
        PROVE  pushed[i].t \in Nat /\ pushed[i].t <= m.t /\ pushed[i].t \in Pending(qa, Coming)
    <3>1. CASE i = Len(qa) + 1 BY <1>6, <1>7, <1>12, <3>1 DEF Pending
    <3>2. CASE i \in DOMAIN qa
      <4>1. pushed[i] = qa[i] /\ qa[i].t \in Nat /\ qa[i].t < m.t
        BY <1>10, <1>12, <3>2
      <4> QED BY <1>6, <3>2, <4>1 DEF Pending
    <3> QED BY <2>1, <3>1, <3>2
  <2>3. ASSUME NEW i \in DOMAIN pushed, NEW j \in DOMAIN pushed, i < j
        PROVE  pushed[i].t < pushed[j].t
    <3>1. i \in DOMAIN qa /\ pushed[i] = qa[i]
      BY <1>12, <2>3
    <3>2. CASE j = Len(qa) + 1 BY <1>10, <1>12, <3>1, <3>2
    <3>3. CASE j \in DOMAIN qa
      <4>1. qa[i].t < qa[j].t
        BY <1>9, <2>3, <3>1, <3>3 DEF Ordered
      <4> QED BY <1>12, <3>1, <3>3, <4>1
    <3> QED BY <2>1, <3>2, <3>3
  <2>4. ASSUME NEW i \in DOMAIN pushed, NEW x \in C PROVE pushed[i].t < x
    <3>1. m.t < x /\ x \in Nat
      BY <1>5, <1>8 DEF C
    <3>2. pushed[i].t \in Nat /\ pushed[i].t <= m.t
      BY <2>2
    <3> QED BY <1>6, <3>1, <3>2
  <2> QED BY <2>2, <2>3, <2>4
<1>15. PICK n \in 0 .. Len(pushed) : kept = SubSeq(pushed, n + 1, Len(pushed))
  BY <1>12, <1>13, PoppedIs
<1> HIDE DEF kept
<1>16. /\ kept \in Seq(Message) /\ DOMAIN kept = 1 .. Len(pushed) - n
       /\ \A i \in 1 .. Len(pushed) - n : kept[i] = pushed[n + i]
  BY <1>12, <1>15, SuffixIs
<1>17. \A i \in DOMAIN kept : n + i \in DOMAIN pushed /\ kept[i] = pushed[n + i]
  BY <1>12, <1>16, LenProperties
<1>18. Ordered(kept, C)
  <2>1. ASSUME NEW i \in DOMAIN kept, NEW j \in DOMAIN kept, i < j PROVE kept[i].t < kept[j].t
    <3>1. n + i \in DOMAIN pushed /\ n + j \in DOMAIN pushed /\ n + i < n + j
      BY <1>16, <1>17, <2>1
    <3>2. pushed[n + i].t < pushed[n + j].t
      BY <1>14, <3>1
    <3> QED BY <1>17, <3>2
  <2>2. \A i \in DOMAIN kept : \A x \in C : kept[i].t < x
    BY <1>14, <1>17
  <2> QED BY <2>1, <2>2 DEF Ordered
<1>19. Pending(kept, C) \subseteq Pending(qa, Coming)
  <2>1. \A i \in DOMAIN kept : kept[i].t \in Pending(qa, Coming)
    BY <1>14, <1>17
  <2>2. \A x \in C : x \in Pending(qa, Coming)
    BY <1>8 DEF C, Pending
  <2> QED BY <2>1, <2>2 DEF Pending
<1>20. \A s \in Secondary : Covers(qs[s], D[s], Pending(kept, C))
  <2>1. ASSUME NEW s \in Secondary PROVE Covers(qs[s], D[s], Pending(kept, C))
    <3>1. Covers(qs[s], D[s], Pending(qa, Coming))
      BY <1>9
    <3> QED BY <1>19, <3>1 DEF Covers
  <2> QED BY <2>1
<1>21. Streams(kept, qs, paired, unmatched, D, C)
  BY <1>9, <1>18, <1>20 DEF Streams
<1>22. C \in SUBSET Nat /\ D \in [Secondary -> SUBSET Nat]
  BY <1>5, <1>8 DEF C, D
<1>23. Streams(qa', qs', paired', unmatched', D, C)
  BY <1>1, <1>11, <1>16, <1>21, <1>22, EmitStreams
<1> QED BY <1>5, <1>23 DEF C, D

\* What trim_secondary evicts below the hard cap is spent: it is out of the
\* window of every primary that waits, and when none does, a primary may be
\* behind by Lag, but the QueueSize messages that are kept reach back further.
LEMMA TrimmedIsSpent ==
  ASSUME Lag < QueueSize, NEW p \in Seq(Stamps), Ascends(p), Len(p) > 0, Len(p) <= MaxSecondary,
         NEW t \in Nat, p[Len(p)] = t, NEW oldest \in Nat, NEW X \in SUBSET Nat,
         (\A x \in X : oldest <= x) \/ (oldest = t /\ \A x \in X : t <= x + Lag),
         NEW r, r = TrimSecondary(p, oldest - Slop)
  PROVE  \E n \in 0 .. Len(p) :
           /\ r \in Seq(Stamps) /\ Len(r) = Len(p) - n
           /\ \A i \in 1 .. Len(p) - n : r[i] = p[n + i]
           /\ \A i \in 1 .. n : \A x \in X : Spent(ToSet(r), p[i], x)
<1>1. /\ Len(p) \in Nat /\ DOMAIN p = 1 .. Len(p) /\ \A i \in DOMAIN p : p[i] \in Nat
      /\ Slop \in Nat /\ Lag \in Nat /\ QueueSize \in Nat \ {0}
  BY LenProperties, ElementOfSeq, StampTypes, SyncAssumption
<1> DEFINE after == oldest - Slop
<1>2. after \in Int
  BY <1>1
<1>3. /\ r \in Seq(Stamps)
      /\ \E n \in 0 .. Len(p) :
           /\ Len(r) = Len(p) - n
           /\ \A i \in 1 .. Len(p) - n : r[i] = p[n + i]
           /\ n < Len(p)
           /\ \A i \in 1 .. n : Len(p) - i >= QueueSize /\ p[i] < after
  <2>1. r = TrimSecondary(p, after)
    OBVIOUS
  <2> HIDE DEF after
  <2>2. /\ r \in Seq(Stamps)
        /\ \E n \in 0 .. Len(p) :
             /\ Len(r) = Len(p) - n
             /\ \A i \in 1 .. Len(p) - n : r[i] = p[n + i]
             /\ Len(p) > 0 => n < Len(p)
             /\ Len(p) <= MaxSecondary => \A i \in 1 .. n : Len(p) - i >= QueueSize /\ p[i] < after
    <3>1. /\ TrimSecondary(p, after) \in Seq(Stamps)
          /\ \E n \in 0 .. Len(p) :
               /\ Len(TrimSecondary(p, after)) = Len(p) - n
               /\ \A i \in 1 .. Len(p) - n : TrimSecondary(p, after)[i] = p[n + i]
               /\ Len(p) > 0 => n < Len(p)
               /\ Len(p) <= MaxSecondary =>
                    \A i \in 1 .. n : Len(p) - i >= QueueSize /\ p[i] < after
      BY <1>2, TrimIs
    <3> QED BY <2>1, <3>1, Zenon
  <2> QED BY <2>2
<1>4. PICK n \in 0 .. Len(p) :
        /\ Len(r) = Len(p) - n
        /\ \A i \in 1 .. Len(p) - n : r[i] = p[n + i]
        /\ n < Len(p)
        /\ \A i \in 1 .. n : Len(p) - i >= QueueSize /\ p[i] < after
  BY <1>3
<1>5. ASSUME NEW i \in 1 .. n, NEW x \in X PROVE Spent(ToSet(r), p[i], x)
  <2>1. i \in DOMAIN p /\ p[i] \in Nat /\ p[i] < oldest - Slop
    <3>1. i \in DOMAIN p
      BY <1>1
    <3>2. p[i] < after
      BY <1>4
    <3> QED BY <1>1, <3>1, <3>2
  <2>2. CASE \A y \in X : oldest <= y
    <3>1. oldest <= x /\ x \in Nat
      BY <2>2
    <3>2. x - p[i] > Slop
      BY <1>1, <2>1, <3>1
    <3> QED BY <3>2 DEF Spent
  <2>3. CASE oldest = t /\ \A y \in X : t <= y + Lag
    <3> DEFINE g == p[n + 1]
    <3>1. n + 1 \in DOMAIN p /\ i < n + 1 /\ n \in 1 .. n
      BY <1>1, <1>4
    <3>2. p[i] < g /\ g \in Nat
      BY <1>1, <2>1, <3>1 DEF Ascends
    <3>3. g \in ToSet(r)
      <4>1. 1 \in 1 .. Len(p) - n /\ DOMAIN r = 1 .. Len(p) - n
        BY <1>1, <1>3, <1>4, LenProperties
      <4>2. r[1] = g
        BY <1>4, <4>1
      <4> QED BY <4>1, <4>2 DEF ToSet
    <3>4. Len(p) - n >= QueueSize
      BY <1>4, <3>1
    <3>5. t - g >= Len(p) - (n + 1)
      <4>1. n + 1 \in 1 .. Len(p)
        BY <1>1, <3>1
      <4> QED BY <4>1, Spaced
    <3> HIDE DEF g
    <3>6. t <= x + Lag /\ x \in Nat
      BY <2>3
    <3>7. g <= x
      BY <1>1, <3>2, <3>4, <3>5, <3>6
    <3>8. Gap(g, x) <= Gap(p[i], x)
      <4>1. Gap(p[i], x) = x - p[i]
        BY <2>1, <3>2, <3>6, <3>7 DEF Gap
      <4>2. Gap(g, x) = x - g
        BY <3>2, <3>6, <3>7 DEF Gap
      <4> QED BY <2>1, <3>2, <3>6, <4>1, <4>2
    <3> QED BY <3>2, <3>3, <3>8 DEF Spent
  <2> QED BY <2>2, <2>3
<1> QED BY <1>3, <1>4, <1>5

LEMMA StreamsSecondary ==
  ASSUME Lag < QueueSize, SyncInv, StreamInv, Uncapped, Steady',
         NEW s \in Secondary, NEW m \in Fresh(heard[s]), AddSecondary(s, m)
  PROVE  Streams(qa', qs', paired', unmatched', Times', Coming')
<1>1. /\ qa \in Seq(Message) /\ qs \in [Secondary -> Seq(Stamps)] /\ sent \in SUBSET Message
      /\ heard \in [Secondary -> SUBSET Message]
      /\ paired \in SUBSET Pairing /\ unmatched \in SUBSET Message
  BY DEF SyncInv, SyncTypes
<1>2. sent' = sent /\ heard' = [heard EXCEPT ![s] = @ \cup {m}] /\ m \in Message
  BY <1>1, FreshIsNew DEF AddSecondary
<1>3. Steady /\ m.epoch = 0 /\ (\A p \in sent : p.epoch = 0)
      /\ \A v \in Secondary : \A h \in heard[v] : h.epoch = 0
  <2>1. /\ heard' \in [Secondary -> SUBSET Message] /\ m \in heard'[s]
        /\ \A v \in Secondary : heard[v] \subseteq heard'[v]
    BY <1>1, <1>2
  <2>2. Range(heard') = {heard'[v] : v \in Secondary}
    BY <2>1 DEF Range
  <2>3. \A p : p \in UNION (Range(heard') \cup {sent'})
               <=> p \in sent' \/ \E v \in Secondary : p \in heard'[v]
    BY <2>2
  <2>4. (\A p \in sent' : p.epoch = 0) /\ \A v \in Secondary : \A h \in heard'[v] : h.epoch = 0
    BY <2>3 DEF Steady
  <2>5. (\A p \in sent : p.epoch = 0) /\ m.epoch = 0
        /\ \A v \in Secondary : \A h \in heard[v] : h.epoch = 0
    BY <1>2, <2>1, <2>4
  <2> QED BY <1>1, <2>5, SteadyIs
<1>4. Streams(qa, qs, paired, unmatched, Times, Coming)
  BY <1>3 DEF StreamInv
<1> DEFINE C == Coming'
           D == Times
           E == Times'
           X == Pending(qa, C)
           t == m.t
<1>5. D \in [Secondary -> SUBSET Nat] /\ Coming \in SUBSET Nat /\ t \in Stamps /\ t \in Nat
  BY <1>1, <1>2, TimesTypes, StampTypes
<1>6. E = [D EXCEPT ![s] = @ \cup {t}]
  <2>1. \A v \in Secondary : {h.t : h \in heard'[v]} =
          IF v = s THEN {h.t : h \in heard[v]} \cup {m.t} ELSE {h.t : h \in heard[v]}
    BY <1>1, <1>2
  <2> QED BY <2>1 DEF Times
<1>7. \A d \in D[s] : d < t
  <2>1. \A h \in heard[s] : h.t < m.t
    <3>1. heard[s] \in SUBSET Message /\ \A h \in heard[s] : h.epoch = 0
      BY <1>1, <1>3
    <3> QED BY <1>3, <3>1, FreshIsLatest
  <2>2. D[s] = {h.t : h \in heard[s]}
    BY DEF Times
  <2> QED BY <2>1, <2>2
<1>8. C \in SUBSET Coming /\ \A x \in C : t <= x + Lag
  <2>1. m \in heard'[s] /\ \A v \in Secondary : heard[v] \subseteq heard'[v]
    BY <1>1, <1>2
  <2> QED BY <1>2, <2>1 DEF Coming
<1>9. Ordered(qa, Coming) /\ (\A v \in Secondary : Covers(qs[v], D[v], Pending(qa, Coming)))
      /\ Final(paired, D) /\ Starved(unmatched, D)
  BY <1>4 DEF Streams
<1>10. \A i \in DOMAIN qa : qa[i].t \in Nat
  BY <1>1, ElementOfSeq, LenProperties, StampTypes
<1> HIDE DEF C, D, E
<1>11. X \in SUBSET Nat /\ X \subseteq Pending(qa, Coming) /\ Pending(qa, Coming) \in SUBSET Nat
  BY <1>5, <1>8, <1>10 DEF Pending
<1>12. Ordered(qa, C)
  BY <1>8, <1>9 DEF Ordered
<1>13. Final(paired, E) /\ Starved(unmatched, E)
  BY <1>1, <1>5, <1>6, <1>7, <1>9, NewerIsFarther
<1> DEFINE u == qs[s]
           p == Append(u, t)
           oldest == IF qa = <<>> THEN t ELSE qa[1].t
           r == TrimSecondary(p, oldest - Slop)
<1>14. u \in Seq(Stamps) /\ Covers(u, D[s], Pending(qa, Coming)) /\ Len(u) < MaxSecondary
  BY <1>1, <1>9 DEF Uncapped
<1>15. TryEmit(qa, [qs EXCEPT ![s] = r])
  <2>1. ~(qs[s] # <<>> /\ t < qs[s][1])
    <3>1. ASSUME qs[s] # <<>> PROVE ~(t < qs[s][1])
      <4>1. 1 \in DOMAIN u /\ u[1] \in Nat
        <5>1. u # <<>>
          BY <3>1
        <5> HIDE DEF u
        <5>2. 1 \in DOMAIN u
          BY <1>14, <5>1, LenProperties, EmptySeq
        <5> QED BY <1>14, <5>2, ElementOfSeq, LenProperties, StampTypes
      <4>2. u[1] < t
        <5> HIDE DEF u, t
        <5>1. u[1] \in ToSet(u)
          BY <4>1 DEF ToSet
        <5>2. u[1] \in D[s]
          BY <1>14, <5>1 DEF Covers
        <5> QED BY <1>7, <5>2
      <4> QED BY <1>5, <4>1, <4>2
    <3> QED BY <3>1
  <2> QED BY <2>1 DEF AddSecondary
<1>16. oldest \in Nat /\ ((\A x \in X : oldest <= x) \/ (oldest = t /\ \A x \in X : t <= x + Lag))
  <2>1. CASE qa = <<>>
    <3>1. X = C
      BY <2>1 DEF Pending
    <3> HIDE DEF X, t
    <3> QED BY <1>5, <1>8, <2>1, <3>1
  <2>2. CASE qa # <<>>
    <3>1. 1 \in DOMAIN qa /\ DOMAIN qa = 1 .. Len(qa) /\ Len(qa) \in Nat
      BY <1>1, <2>2, LenProperties, EmptySeq
    <3>2. oldest = qa[1].t /\ oldest \in Nat
      BY <1>10, <2>2, <3>1
    <3>3. \A i \in DOMAIN qa : oldest <= qa[i].t
      <4>1. ASSUME NEW i \in DOMAIN qa PROVE oldest <= qa[i].t
        <5>1. CASE i = 1 BY <3>2, <5>1
        <5>2. CASE i # 1
          <6>1. 1 < i
            BY <3>1, <5>2
          <6>2. qa[1].t < qa[i].t
            BY <1>12, <3>1, <6>1 DEF Ordered
          <6> HIDE DEF oldest
          <6> QED BY <1>10, <3>2, <6>2
        <5> QED BY <5>1, <5>2
      <4> QED BY <4>1
    <3>4. \A x \in C : oldest <= x
      <4>1. ASSUME NEW x \in C PROVE oldest <= x
        <5>1. qa[1].t < x /\ x \in Nat
          BY <1>5, <1>8, <1>12, <3>1 DEF Ordered
        <5> HIDE DEF oldest
        <5> QED BY <3>2, <5>1
      <4> QED BY <4>1
    <3> HIDE DEF oldest, t
    <3>5. \A x \in X : oldest <= x
      BY <3>3, <3>4 DEF Pending
    <3> QED BY <3>2, <3>5
  <2> QED BY <2>1, <2>2
<1> HIDE DEF u, t, oldest, X
<1>17. Covers(u, D[s], X) /\ D[s] \in SUBSET Nat
  BY <1>5, <1>11, <1>14 DEF Covers
<1>18. Covers(p, D[s] \cup {t}, X) /\ D[s] \cup {t} \in SUBSET Nat
  BY <1>5, <1>7, <1>11, <1>14, <1>17, CoversAppend
<1>19. /\ p \in Seq(Stamps) /\ Len(p) = Len(u) + 1 /\ p[Len(u) + 1] = t /\ Len(u) \in Nat
  BY <1>5, <1>14, AppendProperties, LenProperties
<1> HIDE DEF p
<1>20. Len(p) > 0 /\ Len(p) <= MaxSecondary /\ p[Len(p)] = t /\ Ascends(p)
  BY <1>14, <1>18, <1>19, SyncAssumption DEF Covers
<1>21. PICK n \in 0 .. Len(p) :
        /\ r \in Seq(Stamps) /\ Len(r) = Len(p) - n
        /\ \A i \in 1 .. Len(p) - n : r[i] = p[n + i]
        /\ \A i \in 1 .. n : \A x \in X : Spent(ToSet(r), p[i], x)
  BY <1>5, <1>11, <1>16, <1>19, <1>20, TrimmedIsSpent
<1> HIDE DEF r
<1>22. Covers(r, D[s] \cup {t}, X)
  BY <1>11, <1>18, <1>19, <1>21, CoversSuffix
<1> DEFINE queues == [qs EXCEPT ![s] = r]
<1>23. queues \in [Secondary -> Seq(Stamps)]
  BY <1>1, <1>21
<1>24. ASSUME NEW v \in Secondary PROVE Covers(queues[v], E[v], X)
  <2>1. CASE v = s
    <3>1. queues[v] = r /\ E[v] = D[s] \cup {t}
      BY <1>1, <1>5, <1>6, <2>1
    <3> HIDE DEF queues
    <3> QED BY <1>22, <3>1
  <2>2. CASE v # s
    <3>1. queues[v] = qs[v] /\ E[v] = D[v]
      BY <1>1, <1>5, <1>6, <2>2
    <3>2. Covers(qs[v], D[v], Pending(qa, Coming))
      BY <1>9
    <3> HIDE DEF queues
    <3> QED BY <1>11, <3>1, <3>2 DEF Covers
  <2> QED BY <2>1, <2>2
<1> HIDE DEF queues
<1>25. Streams(qa, queues, paired, unmatched, E, C)
  BY <1>12, <1>13, <1>24 DEF Streams, X
<1>26. C \in SUBSET Nat /\ E \in [Secondary -> SUBSET Nat]
  BY <1>5, <1>6, <1>8
<1>27. Streams(qa', qs', paired', unmatched', E, C)
  BY <1>1, <1>15, <1>23, <1>25, <1>26, EmitStreams DEF queues
<1> QED BY <1>27 DEF C, E

LEMMA StreamsStart == SyncInit => StreamInv
<1> SUFFICES ASSUME SyncInit PROVE Streams(qa, qs, paired, unmatched, Times, Coming)
  BY DEF StreamInv
<1>1. Ordered(qa, Coming) /\ Final(paired, Times) /\ Starved(unmatched, Times)
  BY DEF SyncInit, Ordered, Final, Starved
<1>2. \A s \in Secondary : Covers(qs[s], Times[s], Pending(qa, Coming))
  <2>1. \A s \in Secondary : qs[s] = <<>> /\ Times[s] = {}
    BY DEF SyncInit, Times
  <2>2. \A X : Covers(<<>>, {}, X)
    BY DEF Covers, Ascends, ToSet
  <2> QED BY <2>1, <2>2
<1> QED BY <1>1, <1>2 DEF Streams

LEMMA StreamsStep ==
  ASSUME Lag < QueueSize, SyncInv, StreamInv, Uncapped, [SyncNext]_syncVars
  PROVE  StreamInv'
<1>1. CASE SyncNext
  <2> SUFFICES ASSUME Steady' PROVE Streams(qa', qs', paired', unmatched', Times', Coming')
    BY DEF StreamInv
  <2>1. CASE Primaries BY <2>1, StreamsPrimary DEF Primaries
  <2>2. CASE Secondaries BY <2>2, StreamsSecondary DEF Secondaries
  <2> QED BY <1>1, <2>1, <2>2 DEF SyncNext
<1>2. CASE UNCHANGED syncVars
  <2>1. /\ qa' = qa /\ qs' = qs /\ paired' = paired /\ unmatched' = unmatched
        /\ sent' = sent /\ heard' = heard
    BY <1>2 DEF syncVars
  <2>2. Steady' = Steady /\ Times' = Times /\ Coming' = Coming
    BY <2>1 DEF Steady, Times, Coming
  <2> QED BY <2>1, <2>2 DEF StreamInv
<1> QED BY <1>1, <1>2

LEMMA StreamsShow ==
  ASSUME StreamInv
  PROVE  NearestIsFinal /\ NoFalseStarvation
<1> SUFFICES ASSUME Steady
             PROVE  /\ \A e \in paired, s \in Secondary :
                         /\ e.with[s] \in {h.t : h \in heard[s]} /\ Gap(e.with[s], e.p.t) <= Slop
                         /\ \A h \in heard[s] : Gap(e.with[s], e.p.t) <= Gap(h.t, e.p.t)
                    /\ \A p \in unmatched :
                         \E s \in Secondary : \A h \in heard[s] : Gap(h.t, p.t) > Slop
  BY DEF NearestIsFinal, NoFalseStarvation
<1>1. Final(paired, Times) /\ Starved(unmatched, Times)
  BY DEF StreamInv, Streams
<1>2. \A s \in Secondary : Times[s] = {h.t : h \in heard[s]}
  BY DEF Times
<1>3. \A s \in Secondary : \A h \in heard[s] : h.t \in Times[s]
  BY <1>2
<1> QED BY <1>1, <1>2, <1>3 DEF Final, Starved

\* While clocks are steady and no secondary queue is full, the pair the
\* callback gets is final, if no primary is behind by QueueSize messages.
THEOREM PairsAreFinal ==
  ASSUME Lag < QueueSize
  PROVE  SyncSpec /\ []Uncapped => []NearestIsFinal
<1>1. SyncInv /\ StreamInv /\ Uncapped /\ [SyncNext]_syncVars => StreamInv'
  BY StreamsStep
<1>2. StreamInv => NearestIsFinal
  BY StreamsShow
<1> QED BY <1>1, <1>2, SyncStart, SyncStep, StreamsStart, PTL DEF SyncSpec

\* Under the same two conditions, a primary is only reported unmatched if some
\* secondary stream has no message within Slop of it, then or ever after.
THEOREM StarvationIsReal ==
  ASSUME Lag < QueueSize
  PROVE  SyncSpec /\ []Uncapped => []NoFalseStarvation
<1>1. SyncInv /\ StreamInv /\ Uncapped /\ [SyncNext]_syncVars => StreamInv'
  BY StreamsStep
<1>2. StreamInv => NoFalseStarvation
  BY StreamsShow
<1> QED BY <1>1, <1>2, SyncStart, SyncStep, StreamsStart, PTL DEF SyncSpec

=============================================================================
