------------------------- MODULE FeatureNodeProofs -------------------------
(***************************************************************************)
(* What holds of the feature node for every bound: the buffer of head      *)
(* angles that the gate searches ascends and stays within its limit, over  *)
(* clock jumps too; a frame is judged by the angle of its own time; no     *)
(* sequence of parameter requests parts what the node works with from what *)
(* it says it works with; and whichever detector they leave it with, the   *)
(* mask does not depend on what computes it.                               *)
(***************************************************************************)
EXTENDS FeatureNode, MapCache, FiniteSetTheorems, WellFoundedInduction, TLAPS

USE GateAssumption

\* What the arrival of a sample makes of an ascending buffer within its limit.
LEMMA BufferedKeeps ==
  ASSUME NEW sample \in Sample,
         tiltBuf \in Seq(Sample), Len(tiltBuf) <= TiltBufMax, TiltBufSearchable
  PROVE  /\ Buffered(sample) \in Seq(Sample)
         /\ Len(Buffered(sample)) <= TiltBufMax
         /\ \A i, j \in DOMAIN Buffered(sample) :
              i < j => Buffered(sample)[i].t <= Buffered(sample)[j].t
<1> DEFINE restart == tiltBuf # <<>> /\ sample.t < tiltBuf[Len(tiltBuf)].t
           kept    == IF restart THEN <<>> ELSE tiltBuf
           buf     == Append(kept, sample)
           out     == IF Len(buf) > TiltBufMax THEN Tail(buf) ELSE buf
<1>1. Buffered(sample) = out
  BY DEF Buffered
<1>2. kept \in Seq(Sample) /\ Len(kept) <= TiltBufMax
  OBVIOUS
<1>3. \A i, j \in 1 .. Len(kept) : i < j => kept[i].t <= kept[j].t
  BY DEF TiltBufSearchable
<1>4. \A i \in 1 .. Len(kept) : kept[i].t <= sample.t
  <2> SUFFICES ASSUME NEW i \in 1 .. Len(kept) PROVE kept[i].t <= sample.t
    OBVIOUS
  <2>1. ~restart /\ kept = tiltBuf /\ tiltBuf # <<>>
    BY <1>2
  <2>2. /\ Len(tiltBuf) \in 1 .. Len(tiltBuf)
        /\ tiltBuf[i] \in Sample /\ tiltBuf[Len(tiltBuf)] \in Sample
    BY <2>1
  <2>3. tiltBuf[i].t <= tiltBuf[Len(tiltBuf)].t
    <3>1. CASE i = Len(tiltBuf)
      BY <2>2, <3>1 DEF Sample, Stamp
    <3>2. CASE i # Len(tiltBuf)
      <4>1. /\ i \in DOMAIN tiltBuf /\ Len(tiltBuf) \in DOMAIN tiltBuf
            /\ i < Len(tiltBuf)
        BY <2>1, <2>2, <3>2
      <4> QED
        BY <4>1 DEF TiltBufSearchable
    <3> QED
      BY <3>1, <3>2
  <2> QED
    BY <2>1, <2>2, <2>3 DEF Sample, Stamp
<1> HIDE DEF kept
<1>5. /\ buf \in Seq(Sample) /\ Len(buf) = Len(kept) + 1
      /\ \A i \in 1 .. Len(buf) :
           buf[i] = IF i = Len(buf) THEN sample ELSE kept[i]
  BY <1>2
<1>6. \A i, j \in 1 .. Len(buf) : i < j => buf[i].t <= buf[j].t
  BY <1>2, <1>3, <1>4, <1>5
<1> HIDE DEF buf
<1>7. out \in Seq(Sample) /\ Len(out) <= TiltBufMax
  BY <1>2, <1>5
<1>8. \A i, j \in 1 .. Len(out) : i < j => out[i].t <= out[j].t
  <2>1. CASE Len(buf) > TiltBufMax
    <3>1. /\ Len(out) = Len(buf) - 1
          /\ \A i \in 1 .. Len(out) : out[i] = buf[i + 1]
      BY <1>5, <2>1
    <3> QED
      BY <1>5, <1>6, <3>1
  <2>2. CASE ~(Len(buf) > TiltBufMax)
    BY <1>6, <2>2
  <2> QED
    BY <2>1, <2>2
<1> HIDE DEF out
<1> QED
  BY <1>1, <1>7, <1>8

----------------------------------------------------------------------------

GateInv == GateTypeOK /\ TiltBufSearchable

LEMMA InitGateInv == Init => GateInv
BY DEF Init, GateInit, GateInv, GateTypeOK, TiltBufSearchable, NoVerdict,
       Answer, Stamp, Sample

LEMMA NextGateInv == GateInv /\ [Next]_vars => GateInv'
<1> SUFFICES ASSUME GateTypeOK, TiltBufSearchable, [Next]_vars
             PROVE  GateTypeOK' /\ TiltBufSearchable'
  BY DEF GateInv
<1>1. CASE UNCHANGED gateVars
  BY <1>1 DEF gateVars, GateTypeOK, TiltBufSearchable
<1>2. ASSUME NEW t \in Stamp, Tilt(t)
      PROVE  GateTypeOK' /\ TiltBufSearchable'
  <2> DEFINE sample == [t |-> now, angle |-> head[t], pass |-> rewinds]
  <2>1. t \in 0 .. now /\ tiltBuf' = Buffered(sample)
    BY <1>2 DEF Tilt, GateTypeOK, Stamp
  <2>2. sample \in Sample
    BY <2>1 DEF GateTypeOK, Sample, Angle
  <2>3. /\ tiltBuf \in Seq(Sample) /\ Len(tiltBuf) <= TiltBufMax
    BY DEF GateTypeOK
  <2> HIDE DEF sample
  <2>4. /\ tiltBuf' \in Seq(Sample) /\ Len(tiltBuf') <= TiltBufMax
        /\ \A i, j \in DOMAIN tiltBuf' : i < j => tiltBuf'[i].t <= tiltBuf'[j].t
    BY <2>1, <2>2, <2>3, BufferedKeeps
  <2>5. TiltBufSearchable'
    BY <2>4 DEF TiltBufSearchable
  <2>6. GateTypeOK'
    BY <1>2, <2>1, <2>4 DEF Tilt, GateTypeOK, Stamp
  <2> QED
    BY <2>5, <2>6
<1>3. ASSUME NEW t \in Stamp, Ping(t, Skipping)
      PROVE  GateTypeOK' /\ TiltBufSearchable'
  <2>1. TiltBufSearchable'
    BY <1>3 DEF Ping, TiltBufSearchable
  <2>2. Covers(t) \in BOOLEAN
    BY DEF Covers
  <2>3. verdict' \in [t : -1 .. now, covered : BOOLEAN, gated : BOOLEAN,
                      answer : Answer]
    BY <1>3, <2>2 DEF Ping, GateTypeOK, Stamp, Answer
  <2>4. GateTypeOK'
    BY <1>3, <2>3 DEF Ping, GateTypeOK
  <2> QED
    BY <2>1, <2>4
<1>4. CASE Tick
  BY <1>4 DEF Tick, GateTypeOK, TiltBufSearchable, Stamp, Angle
<1>5. CASE Rewind
  BY <1>5 DEF Rewind, GateTypeOK, TiltBufSearchable, Stamp, NoVerdict, Answer
<1> QED
  BY <1>1, <1>2, <1>3, <1>4, <1>5 DEF Next, vars

----------------------------------------------------------------------------
(* The gate.  What the buffer holds of this pass was measured shortly      *)
(* before it arrived, and the next was not long in coming; what it holds   *)
(* of earlier passes comes first and is strictly older.                    *)

\* Sample i is the angle of the head at m.
MeasuredAt(i, m) ==
  /\ m \in 0 .. now /\ head[m] = tiltBuf[i].angle
  /\ m <= tiltBuf[i].t /\ tiltBuf[i].t - m <= TiltLate
  /\ i < Len(tiltBuf) => tiltBuf[i + 1].t - m <= Spread
  /\ i = Len(tiltBuf) => m = lastTilt

SampledInv ==
  /\ lastTilt >= 0 => now - lastTilt <= Spread
  /\ \A i \in DOMAIN tiltBuf :
       /\ tiltBuf[i].pass <= rewinds
       /\ tiltBuf[i].pass = rewinds => /\ tiltBuf[i].t <= now
                                       /\ \E m \in 0 .. now : MeasuredAt(i, m)
  /\ \A i, j \in DOMAIN tiltBuf : i < j =>
       /\ tiltBuf[i].pass <= tiltBuf[j].pass
       /\ tiltBuf[i].pass # tiltBuf[j].pass => tiltBuf[i].t < tiltBuf[j].t

\* The buffer loses some of its oldest, all if the clock went back.
LEMMA BufferedShape ==
  ASSUME NEW sample \in Sample, tiltBuf \in Seq(Sample)
  PROVE  \E drop \in 0 .. Len(tiltBuf) :
           /\ Len(Buffered(sample)) = Len(tiltBuf) + 1 - drop
           /\ DOMAIN Buffered(sample) = 1 .. Len(tiltBuf) + 1 - drop
           /\ \A i \in 1 .. Len(tiltBuf) - drop : Buffered(sample)[i] = tiltBuf[i + drop]
           /\ Buffered(sample)[Len(tiltBuf) + 1 - drop] = sample
           /\ drop = Len(tiltBuf) \/ tiltBuf[Len(tiltBuf)].t <= sample.t
<1> DEFINE restart == tiltBuf # <<>> /\ sample.t < tiltBuf[Len(tiltBuf)].t
           Append1(s) == IF Len(Append(s, sample)) > TiltBufMax
                         THEN Tail(Append(s, sample)) ELSE Append(s, sample)
<1>1. CASE restart
  <2>1. Buffered(sample) = Append1(<<>>)
    BY <1>1 DEF Buffered
  <2>2. Append1(<<>>) = <<sample>>
    OBVIOUS
  <2> HIDE DEF Append1, restart
  <2>3. Len(tiltBuf) \in 0 .. Len(tiltBuf) /\ Len(tiltBuf) + 1 - Len(tiltBuf) = 1
    OBVIOUS
  <2>4. /\ Len(Buffered(sample)) = 1 /\ DOMAIN Buffered(sample) = 1 .. 1
        /\ Buffered(sample)[1] = sample /\ 1 .. Len(tiltBuf) - Len(tiltBuf) = {}
    BY <2>1, <2>2
  <2> WITNESS Len(tiltBuf) \in 0 .. Len(tiltBuf)
  <2> QED BY <2>3, <2>4
<1>2. CASE ~restart
  <2>1. Buffered(sample) = Append1(tiltBuf)
    BY <1>2 DEF Buffered
  <2>2. Len(tiltBuf) = 0 \/ tiltBuf[Len(tiltBuf)].t <= sample.t
    <3>1. CASE tiltBuf = <<>>
      BY <3>1
    <3>2. CASE tiltBuf # <<>>
      <4>1. tiltBuf[Len(tiltBuf)] \in Sample
        BY <3>2
      <4> QED BY <1>2, <3>2, <4>1 DEF Sample, Stamp
    <3> QED BY <3>1, <3>2
  <2>3. CASE Len(tiltBuf) + 1 > TiltBufMax
    <3>1. Len(tiltBuf) >= 1
      BY <2>3
    <3>2. Append1(tiltBuf) = Tail(Append(tiltBuf, sample))
      BY <2>3
    <3> QED BY <2>1, <2>2, <3>1, <3>2
  <2>4. CASE ~(Len(tiltBuf) + 1 > TiltBufMax)
    BY <2>1, <2>2, <2>4
  <2> QED BY <2>3, <2>4
<1> QED BY <1>1, <1>2

\* Every nonempty set of natural numbers has a least element: the intervals
\* from zero to its members have a smallest one.
LEMMA LeastOf ==
  ASSUME NEW T \in SUBSET Nat, T # {}
  PROVE  \E m \in T : \A k \in T : m <= k
<1> DEFINE Intervals == {0 .. m : m \in T}
<1>1. \A m \in T : (0 .. m) \in FiniteSubsetsOf(Nat)
  BY FS_Interval DEF FiniteSubsetsOf
<1>2. Intervals \subseteq FiniteSubsetsOf(Nat) /\ Intervals # {}
  BY <1>1
<1>3. PICK x \in Intervals : \A y \in Intervals : ~(<<y, x>> \in StrictSubsetOrdering(Nat))
  BY <1>2, WFMin, FS_StrictSubsetOrderingWellFounded
<1>4. PICK m \in T : x = 0 .. m
  OBVIOUS
<1>5. ASSUME NEW k \in T, k < m PROVE FALSE
  <2>1. 0 .. k \subseteq 0 .. m /\ m \in 0 .. m /\ m \notin 0 .. k
    BY <1>5
  <2>2. <<0 .. k, 0 .. m>> \in StrictSubsetOrdering(Nat)
    BY <2>1 DEF StrictSubsetOrdering
  <2> QED BY <1>3, <1>4, <2>2
<1> QED BY <1>5

\* What the gate takes for the angle at a stamp the buffer reaches back to was
\* the angle of the head at a tick near it.
LEMMA CoveredAngles ==
  ASSUME GateInv, SampledInv, NEW t \in Stamp, t <= now, Covers(t),
         NEW phi \in TiltAt(t)
  PROVE  \E u \in 0 .. now : head[u] = phi /\ u >= t - Spread /\ u <= t + Spread
<1> DEFINE n  == Len(tiltBuf)
           hi == Min({i \in DOMAIN tiltBuf : tiltBuf[i].t >= t})
<1>1. PICK c \in DOMAIN tiltBuf : tiltBuf[c].t <= t /\ tiltBuf[c].pass = rewinds
  BY DEF Covers
<1>2. /\ n \in Nat /\ DOMAIN tiltBuf = 1 .. n
      /\ \A i \in 1 .. n : tiltBuf[i] \in Sample
  BY DEF GateInv, GateTypeOK
<1>3. /\ c \in 1 .. n /\ 1 \in 1 .. n /\ n \in 1 .. n
      /\ rewinds \in Int /\ t \in Int /\ now \in Int /\ Spread \in Nat
      /\ \A i \in 1 .. n : tiltBuf[i].t \in Int /\ tiltBuf[i].pass \in Int
  <2>1. c \in 1 .. n /\ 1 \in 1 .. n /\ n \in 1 .. n
    BY <1>1, <1>2
  <2>2. rewinds \in Int /\ t \in Int /\ now \in Int /\ Spread \in Nat
    BY DEF GateInv, GateTypeOK, Stamp, Spread
  <2>3. \A i \in 1 .. n : tiltBuf[i].t \in Int /\ tiltBuf[i].pass \in Int
    BY <1>2 DEF Stamp, Sample
  <2> QED BY <2>1, <2>2, <2>3
<1>4. \A i \in 1 .. n : c <= i => /\ tiltBuf[i].pass = rewinds
                                  /\ tiltBuf[c].t <= tiltBuf[i].t
  BY <1>1, <1>2, <1>3 DEF SampledInv, GateInv, TiltBufSearchable
<1>5. \A i \in 1 .. n : tiltBuf[i].t = tiltBuf[c].t => tiltBuf[i].pass = rewinds
  BY <1>1, <1>2, <1>3, <1>4 DEF SampledInv
<1> DEFINE Near(i) == \E u \in 0 .. now : /\ head[u] = tiltBuf[i].angle
                                          /\ u >= t - Spread /\ u <= t + Spread
\* A sample that arrived by t, the next after t or none at all.
<1>6. ASSUME NEW i \in 1 .. n, tiltBuf[i].pass = rewinds, tiltBuf[i].t <= t,
             i = n \/ tiltBuf[i + 1].t >= t
      PROVE  Near(i)
  <2>1. PICK m \in 0 .. now : MeasuredAt(i, m)
    BY <1>2, <1>6 DEF SampledInv
  <2>2. m <= t
    BY <1>3, <1>6, <2>1 DEF MeasuredAt
  <2>3. CASE i = n
    BY <1>3, <2>1, <2>2, <2>3 DEF MeasuredAt, SampledInv
  <2>4. CASE i # n
    <3>0. n \in Nat
      BY <1>2
    <3> HIDE DEF n
    <3>1. i + 1 \in 1 .. n /\ i < n
      BY <3>0, <2>4
    <3> USE DEF n
    <3>2. tiltBuf[i + 1].t >= t /\ tiltBuf[i + 1].t - m <= Spread
      BY <1>6, <2>1, <2>4, <3>1 DEF MeasuredAt
    <3>3. tiltBuf[i + 1].t \in Int
      BY <1>3, <3>1
    <3>4. m >= t - Spread /\ m <= t + Spread
      BY <1>3, <2>2, <3>2, <3>3
    <3> QED BY <2>1, <3>4 DEF MeasuredAt
  <2> QED BY <2>3, <2>4
\* A sample that arrives at t or later, not long after one of this pass.
<1>7. ASSUME NEW i \in 1 .. n, tiltBuf[i].pass = rewinds, tiltBuf[i].t >= t,
             \/ tiltBuf[i].t = t
             \/ i > 1 /\ tiltBuf[i - 1].pass = rewinds /\ tiltBuf[i - 1].t <= t
      PROVE  Near(i)
  <2>1. PICK m \in 0 .. now : MeasuredAt(i, m)
    BY <1>2, <1>7 DEF SampledInv
  <2>2. tiltBuf[i].t - t <= Spread
    <3>1. CASE tiltBuf[i].t = t
      BY <1>3, <3>1
    <3>2. CASE tiltBuf[i].t # t
      <4>1. /\ i - 1 \in 1 .. n /\ i - 1 < n /\ (i - 1) + 1 = i
            /\ tiltBuf[i - 1].pass = rewinds /\ tiltBuf[i - 1].t <= t
        BY <1>2, <1>7, <3>2
      <4>2. PICK l \in 0 .. now : MeasuredAt(i - 1, l)
        BY <1>2, <4>1 DEF SampledInv
      <4>3. l <= t /\ tiltBuf[i].t - l <= Spread
        BY <1>3, <4>1, <4>2 DEF MeasuredAt
      <4>4. l \in Int /\ tiltBuf[i].t \in Int
        BY <1>3
      <4> QED BY <1>3, <4>3, <4>4
    <3> QED BY <3>1, <3>2
  <2>3. m <= tiltBuf[i].t /\ tiltBuf[i].t - m <= Spread
    BY <1>3, <2>1 DEF MeasuredAt, Spread
  <2> QED BY <1>3, <1>7, <2>1, <2>2, <2>3 DEF MeasuredAt
<1> SUFFICES \E i \in 1 .. n : phi = tiltBuf[i].angle /\ Near(i)
  OBVIOUS
<1> HIDE DEF Near
<1>8. CASE t >= tiltBuf[n].t
  <2>1. tiltBuf[n].pass = rewinds /\ Near(n)
    BY <1>3, <1>4, <1>6, <1>8
  <2>2. CASE t <= tiltBuf[1].t
    <3>1. tiltBuf[1].t = tiltBuf[c].t /\ tiltBuf[1].t = t
      BY <1>1, <1>2, <1>3, <2>2 DEF GateInv, TiltBufSearchable
    <3>2. Near(1)
      BY <1>3, <1>5, <1>7, <3>1
    <3>3. phi \in {tiltBuf[1].angle, tiltBuf[n].angle}
      BY <1>3, <1>8, <2>2 DEF TiltAt
    <3> QED BY <1>3, <2>1, <3>2, <3>3
  <2>3. CASE ~(t <= tiltBuf[1].t)
    <3>1. phi = tiltBuf[n].angle
      BY <1>2, <1>3, <1>8, <2>3 DEF TiltAt
    <3> QED BY <1>3, <2>1, <3>1
  <2> QED BY <2>2, <2>3
<1>9. CASE ~(t >= tiltBuf[n].t)
  <2>1. c < n /\ tiltBuf[n].t > t /\ tiltBuf[1].t <= tiltBuf[c].t
    <3>1. c # n /\ tiltBuf[n].t > t
      BY <1>1, <1>3, <1>9
    <3>2. c = 1 \/ /\ 1 \in DOMAIN tiltBuf /\ c \in DOMAIN tiltBuf /\ 1 < c
      BY <1>2, <1>3
    <3>3. tiltBuf[1].t <= tiltBuf[c].t
      BY <1>3, <3>2 DEF GateInv, TiltBufSearchable
    <3>4. c < n
      BY <1>3, <3>1
    <3> QED BY <3>1, <3>3, <3>4
  <2>2. CASE t <= tiltBuf[1].t
    <3>1. tiltBuf[1].t = tiltBuf[c].t /\ tiltBuf[1].t = t
      BY <1>1, <1>3, <2>1, <2>2
    <3>2. Near(1)
      BY <1>3, <1>5, <1>7, <3>1
    <3>3. phi = tiltBuf[1].angle
      BY <1>3, <2>1, <3>1 DEF TiltAt
    <3> QED BY <1>3, <3>2, <3>3
  <2>3. CASE ~(t <= tiltBuf[1].t)
    <3> DEFINE T == {i \in DOMAIN tiltBuf : tiltBuf[i].t >= t}
    <3>1. hi \in 1 .. n /\ tiltBuf[hi].t >= t /\ \A i \in 1 .. n : tiltBuf[i].t >= t => hi <= i
      <4>1. T \in SUBSET Nat /\ n \in T
        BY <1>2, <1>3, <2>1
      <4>2. \E m \in T : \A k \in T : m <= k
        BY <4>1, LeastOf
      <4>3. hi \in T /\ \A k \in T : hi <= k
        BY <4>2 DEF Min
      <4> QED BY <1>2, <4>3
    <3> HIDE DEF hi
    <3>2. hi > 1 /\ hi - 1 \in 1 .. n /\ tiltBuf[hi - 1].t < t
      BY <1>2, <1>3, <2>3, <3>1
    <3>3. phi \in (IF tiltBuf[hi].t = t THEN {tiltBuf[hi].angle}
                   ELSE {tiltBuf[hi - 1].angle, tiltBuf[hi].angle})
      BY <1>2, <1>3, <2>1, <2>3 DEF TiltAt, hi
    <3>4. CASE tiltBuf[hi].t = t
      <4>1. tiltBuf[hi].pass = rewinds
        <5>1. CASE c <= hi
          BY <1>4, <3>1, <5>1
        <5>2. CASE hi < c
          <6>1. tiltBuf[hi].t = tiltBuf[c].t
            BY <1>1, <1>2, <1>3, <3>1, <3>4, <5>2 DEF GateInv, TiltBufSearchable
          <6> QED BY <1>5, <3>1, <6>1
        <5> QED BY <1>3, <3>1, <5>1, <5>2
      <4>2. Near(hi)
        BY <1>3, <1>7, <3>1, <3>4, <4>1
      <4> QED BY <3>1, <3>3, <3>4, <4>2
    <3>5. CASE tiltBuf[hi].t # t
      <4>1. tiltBuf[hi].t > t /\ c <= hi - 1
        <5>1. tiltBuf[hi].t > t
          BY <1>3, <3>1, <3>5
        <5>2. c # hi
          BY <1>1, <1>3, <5>1
        <5>3. ~(hi < c)
          BY <1>1, <1>2, <1>3, <3>1, <5>1 DEF GateInv, TiltBufSearchable
        <5> QED BY <1>3, <3>1, <5>1, <5>2, <5>3
      <4>2. tiltBuf[hi].pass = rewinds /\ tiltBuf[hi - 1].pass = rewinds
        BY <1>3, <1>4, <3>1, <3>2, <4>1
      <4>3. Near(hi - 1)
        <5>1. (hi - 1) + 1 = hi /\ tiltBuf[hi - 1].t <= t
          BY <1>3, <3>1, <3>2
        <5> QED BY <1>6, <3>1, <3>2, <4>2, <5>1
      <4>4. Near(hi)
        BY <1>3, <1>7, <3>1, <3>2, <4>2
      <4> QED BY <3>1, <3>2, <3>3, <3>5, <4>3, <4>4
    <3> QED BY <3>4, <3>5
  <2> QED BY <2>2, <2>3
<1> QED BY <1>8, <1>9

LEMMA InitSampledInv == Init => SampledInv
BY DEF Init, GateInit, SampledInv

\* A sample that arrives: the one before it was still close.
LEMMA TiltKeepsSampled ==
  ASSUME GateInv, GateInv', SampledInv, NEW t \in Stamp, Tilt(t)
  PROVE  SampledInv'
<1> DEFINE sample == [t |-> now, angle |-> head[t], pass |-> rewinds]
           n == Len(tiltBuf)
<1>1. /\ t \in 0 .. now /\ now - t <= TiltLate /\ tiltBuf' = Buffered(sample)
      /\ \A i \in DOMAIN tiltBuf : tiltBuf[i].pass # rewinds => tiltBuf[i].t # now
      /\ lastTilt' = t /\ UNCHANGED <<now, head, rewinds>>
  BY DEF Tilt, GateInv, GateTypeOK, Stamp
<1>2. sample \in Sample
  BY <1>1 DEF GateInv, GateTypeOK, Sample, Angle
<1>3. /\ tiltBuf \in Seq(Sample) /\ n \in Nat /\ DOMAIN tiltBuf = 1 .. n
      /\ sample.t = now /\ sample.angle = head[t] /\ sample.pass = rewinds
  BY DEF GateInv, GateTypeOK
<1> HIDE DEF sample
<1>4. PICK drop \in 0 .. n :
        /\ Len(tiltBuf') = n + 1 - drop /\ DOMAIN tiltBuf' = 1 .. n + 1 - drop
        /\ \A i \in 1 .. n - drop : tiltBuf'[i] = tiltBuf[i + drop]
        /\ tiltBuf'[n + 1 - drop] = sample
        /\ drop = n \/ tiltBuf[n].t <= sample.t
  BY <1>1, <1>2, <1>3, BufferedShape
<1>5. /\ \A i \in 1 .. n : tiltBuf[i].t \in Int /\ tiltBuf[i].pass \in Int
      /\ now \in Int /\ rewinds \in Int /\ Spread \in Nat /\ TiltLate <= Spread
      /\ TiltLate \in Nat /\ lastTilt \in Int
  <2>1. \A i \in 1 .. n : tiltBuf[i] \in Sample
    BY <1>3
  <2>2. \A i \in 1 .. n : tiltBuf[i].t \in Int /\ tiltBuf[i].pass \in Int
    BY <2>1 DEF Sample, Stamp
  <2>3. now \in Int /\ rewinds \in Int /\ lastTilt \in Int
    BY DEF Stamp, GateInv, GateTypeOK
  <2>4. Spread \in Nat /\ TiltLate <= Spread /\ TiltLate \in Nat
    BY DEF Spread
  <2> QED BY <2>2, <2>3, <2>4
<1>0. n \in Nat /\ drop \in 0 .. n
  BY <1>3
<1> HIDE DEF n
<1>6. \A i \in 1 .. n + 1 - drop :
        i = n + 1 - drop \/ (i \in 1 .. n - drop /\ i + drop \in 1 .. n)
  BY <1>0
\* What is not older than the sample's pass is older than the sample.
<1>7. \A i \in 1 .. n : drop # n =>
        /\ tiltBuf[i].pass <= rewinds
        /\ tiltBuf[i].t <= now /\ (tiltBuf[i].pass # rewinds => tiltBuf[i].t < now)
  <2> SUFFICES ASSUME NEW i \in 1 .. n, drop # n
               PROVE  /\ tiltBuf[i].pass <= rewinds /\ tiltBuf[i].t <= now
                      /\ (tiltBuf[i].pass # rewinds => tiltBuf[i].t < now)
    OBVIOUS
  <2>1. tiltBuf[i].pass <= rewinds
    BY <1>3 DEF SampledInv
  <2>2. tiltBuf[i].t <= tiltBuf[n].t /\ n \in 1 .. n
    <3>0. n \in 1 .. n /\ (i = n \/ i < n)
      BY <1>0
    <3>1. i = n \/ (i \in DOMAIN tiltBuf /\ n \in DOMAIN tiltBuf /\ i < n)
      BY <1>3, <3>0
    <3> QED BY <3>0, <1>5, <3>1 DEF GateInv, TiltBufSearchable
  <2>3. tiltBuf[i].t <= now
    BY <1>3, <1>4, <1>5, <2>2
  <2> QED BY <1>1, <1>3, <1>5, <2>1, <2>3
<1>8. lastTilt' >= 0 => now' - lastTilt' <= Spread
  BY <1>1, <1>5
<1>9. ASSUME NEW i \in DOMAIN tiltBuf'
      PROVE  /\ tiltBuf'[i].pass <= rewinds'
             /\ tiltBuf'[i].pass = rewinds' => /\ tiltBuf'[i].t <= now'
                                               /\ \E m \in 0 .. now' : MeasuredAt(i, m)'
  <2>1. CASE i = n + 1 - drop
    <3>1. MeasuredAt(i, t)'
      BY <1>1, <1>3, <1>4, <1>5, <2>1 DEF MeasuredAt
    <3> QED BY <1>1, <1>3, <1>4, <1>5, <2>1, <3>1
  <2>2. CASE i \in 1 .. n - drop /\ i + drop \in 1 .. n
    <3>1. tiltBuf'[i] = tiltBuf[i + drop] /\ drop # n
      BY <1>3, <1>4, <2>2
    <3>2. tiltBuf[i + drop].pass <= rewinds /\ tiltBuf[i + drop].t <= now
      BY <1>7, <2>2, <3>1
    <3>3. ASSUME tiltBuf[i + drop].pass = rewinds
          PROVE  \E m \in 0 .. now' : MeasuredAt(i, m)'
      <4>1. PICK m \in 0 .. now : MeasuredAt(i + drop, m)
        BY <1>3, <2>2, <3>3 DEF SampledInv
      <4>2. /\ m \in 0 .. now' /\ head'[m] = tiltBuf'[i].angle
            /\ m <= tiltBuf'[i].t /\ tiltBuf'[i].t - m <= TiltLate
            /\ i # Len(tiltBuf')
        BY <1>1, <1>3, <1>4, <2>2, <3>1, <4>1 DEF MeasuredAt
      <4>3. tiltBuf'[i + 1].t - m <= Spread
        <5>1. CASE i + drop = n
          <6>1. m = lastTilt /\ now - lastTilt <= Spread
            BY <4>1, <5>1 DEF MeasuredAt, SampledInv, n
          <6>2. tiltBuf'[i + 1].t = now
            BY <1>3, <1>4, <5>1
          <6> QED BY <6>1, <6>2
        <5>2. CASE i + drop # n
          <6>1. /\ i + 1 \in 1 .. n - drop /\ (i + 1) + drop = (i + drop) + 1
                /\ i + drop < n
            BY <1>3, <2>2, <5>2
          <6>2. tiltBuf'[i + 1] = tiltBuf[(i + drop) + 1]
            BY <1>4, <6>1
          <6> QED BY <4>1, <6>1, <6>2 DEF MeasuredAt, n
        <5> QED BY <5>1, <5>2
      <4> QED BY <4>2, <4>3 DEF MeasuredAt
    <3> QED BY <1>1, <3>1, <3>2, <3>3
  <2> QED BY <1>4, <1>6, <2>1, <2>2
<1>10. ASSUME NEW i \in DOMAIN tiltBuf', NEW j \in DOMAIN tiltBuf', i < j
       PROVE  /\ tiltBuf'[i].pass <= tiltBuf'[j].pass
              /\ tiltBuf'[i].pass # tiltBuf'[j].pass => tiltBuf'[i].t < tiltBuf'[j].t
  <2>1. i \in 1 .. n - drop /\ i + drop \in 1 .. n /\ drop # n
    BY <1>3, <1>4, <1>6, <1>10
  <2>2. tiltBuf'[i] = tiltBuf[i + drop]
    BY <1>4, <2>1
  <2>3. CASE j = n + 1 - drop
    BY <1>3, <1>4, <1>7, <2>1, <2>2, <2>3
  <2>4. CASE j \in 1 .. n - drop /\ j + drop \in 1 .. n
    <3>1. tiltBuf'[j] = tiltBuf[j + drop] /\ i + drop < j + drop
      BY <1>4, <1>10, <2>1, <2>4
    <3> QED BY <1>3, <2>1, <2>2, <2>4, <3>1 DEF SampledInv
  <2> QED BY <1>4, <1>6, <2>3, <2>4
<1> QED BY <1>8, <1>9, <1>10 DEF SampledInv

LEMMA NextSampledInv ==
  ASSUME GateInv, GateInv', SampledInv, [Next]_vars
  PROVE  SampledInv'
<1>1. CASE UNCHANGED <<now, head, tiltBuf, lastTilt, rewinds>>
  BY <1>1 DEF SampledInv, MeasuredAt
<1>2. CASE UNCHANGED gateVars
  BY <1>1, <1>2 DEF gateVars
<1>3. ASSUME NEW t \in Stamp, Ping(t, Skipping) PROVE SampledInv'
  BY <1>1, <1>3 DEF Ping
<1>4. CASE Tick
  <2>1. /\ now' = now + 1 /\ now \in Nat /\ UNCHANGED <<tiltBuf, lastTilt, rewinds>>
        /\ \A u \in 0 .. now : head'[u] = head[u] /\ u \in 0 .. now'
        /\ lastTilt >= 0 => now' - lastTilt <= Spread
    BY <1>4 DEF Tick, GateInv, GateTypeOK, Stamp, Spread
  <2>2. ASSUME NEW i, NEW m \in 0 .. now, MeasuredAt(i, m) PROVE MeasuredAt(i, m)'
    BY <2>1, <2>2 DEF MeasuredAt
  <2>3. ASSUME NEW i \in DOMAIN tiltBuf PROVE tiltBuf[i].t \in Int
    <3>1. tiltBuf[i] \in Sample
      BY DEF GateInv, GateTypeOK
    <3> QED BY <3>1 DEF Sample, Stamp
  <2> QED BY <2>1, <2>2, <2>3 DEF SampledInv
<1>5. CASE Rewind
  <2>1. /\ rewinds \in Int /\ rewinds' = rewinds + 1 /\ tiltBuf' = tiltBuf /\ lastTilt' = -1
    BY <1>5 DEF Rewind, GateInv, GateTypeOK
  <2>2. ASSUME NEW i \in DOMAIN tiltBuf PROVE tiltBuf[i].pass \in Int
    <3>1. tiltBuf[i] \in Sample
      BY DEF GateInv, GateTypeOK
    <3> QED BY <3>1 DEF Sample
  <2>3. \A i \in DOMAIN tiltBuf : tiltBuf[i].pass <= rewinds' /\ tiltBuf[i].pass # rewinds'
    BY <2>1, <2>2 DEF SampledInv
  <2> QED BY <2>1, <2>3 DEF SampledInv
<1> QED
  BY <1>2, <1>3, <1>4, <1>5, TiltKeepsSampled DEF Next, vars

----------------------------------------------------------------------------
(* Tuning.  Inductive as it stands, once the parameters are known to be    *)
(* the named ones: a request that is taken changes members and declared    *)
(* alike, and one that leaves the detector alone names none of the fields  *)
(* it is built from.                                                       *)

TuningInv ==
  /\ DOMAIN members = Names /\ DOMAIN declared = Names /\ sets \in 0 .. MaxSets
  /\ TuningIsAtomic

LEMMA InitTuningInv == Init => TuningInv
BY TuningAssumption DEF Init, TuningInit, TuningInv, TuningIsAtomic, AsMembers

\* Cutting the stored parameters to members is cutting each request as it
\* comes.
LEMMA CutAsSet ==
  ASSUME NEW request, NEW p, DOMAIN p = Names
  PROVE  AsMembers(Overlay(request, p)) = Overlay(AsMembers(request), AsMembers(p))
BY DEF AsMembers, Overlay

LEMMA NextTuningInv == TuningInv /\ [Next]_vars => TuningInv'
<1> SUFFICES ASSUME TuningInv, [Next]_vars PROVE TuningInv'
  OBVIOUS
<1>1. CASE UNCHANGED tuningVars
  BY <1>1 DEF tuningVars, TuningInv, TuningIsAtomic
<1>2. ASSUME NEW request \in Requests, SetParameters(request)
      PROVE  TuningInv'
  <2>1. sets' \in 0 .. MaxSets
    BY <1>2, TuningAssumption DEF SetParameters, TuningInv
  <2>2. CASE ~Accepted(request)
    BY <1>2, <2>1, <2>2 DEF SetParameters, TuningInv, TuningIsAtomic
  <2>3. CASE Accepted(request)
    <3>1. members' = Staged(request) /\ declared' = Overlay(request, declared)
      BY <1>2, <2>3 DEF SetParameters
    <3>2. /\ members' = AsMembers(declared')
          /\ DOMAIN members' = Names /\ DOMAIN declared' = Names
      <4>1. AsMembers(declared') = Overlay(AsMembers(request), AsMembers(declared))
        BY <3>1, CutAsSet DEF TuningInv
      <4>2. DOMAIN members' = Names /\ DOMAIN declared' = Names
        BY <3>1 DEF Staged, Overlay
      <4> QED BY <3>1, <4>1, <4>2 DEF Staged, TuningInv, TuningIsAtomic
    <3>3. detector' = Built(members')
      <4>1. CASE Rebuilds(request)
        BY <1>2, <2>3, <4>1 DEF SetParameters
      <4>2. CASE ~Rebuilds(request)
        <5>1. detector' = detector
          BY <1>2, <2>3, <4>2 DEF SetParameters
        <5>2. \A n \in {"Ntc", "Ngc", "Pfa", "rank"} : members'[n] = members[n]
          BY <3>1, <4>2 DEF Staged, Overlay, AsMembers, Rebuilds, Names, TuningInv
        <5>3. Built(members') = Built(members)
          BY <5>2 DEF Built, RankOf
        <5> QED
          BY <5>1, <5>3 DEF TuningInv, TuningIsAtomic
      <4> QED
        BY <4>1, <4>2
    <3> QED
      BY <2>1, <3>2, <3>3 DEF TuningInv, TuningIsAtomic
  <2> QED
    BY <2>2, <2>3
<1> QED
  BY <1>1, <1>2 DEF Next, vars

----------------------------------------------------------------------------

\* Every variable of the node keeps its type.
THEOREM NodeTypeCorrect == Spec => []TypeOK
<1>1. GateInv /\ TuningInv => TypeOK
  BY DEF GateInv, TuningInv, TypeOK
<1>2. Spec => []GateInv
  BY InitGateInv, NextGateInv, PTL DEF Spec
<1>3. Spec => []TuningInv
  BY InitTuningInv, NextTuningInv, PTL DEF Spec
<1> QED
  BY <1>1, <1>2, <1>3, PTL

\* tilt_at bisects a buffer whose times ascend, and that never outgrows its
\* limit, however the two streams and the clock's jumps back interleave.
THEOREM SearchedBufferAscends == Spec => []TiltBufSearchable
<1>1. Spec => []GateInv
  BY InitGateInv, NextGateInv, PTL DEF Spec
<1>2. GateInv => TiltBufSearchable
  BY DEF GateInv
<1> QED
  BY <1>1, <1>2, PTL

\* No frame taken while the head was steep all around its stamp reaches the
\* planar SLAM, and none is gated that had no steep head near, however late
\* either stream is: for every delay, gap, slack and buffer.
THEOREM FramesAreJudged == Spec => []JudgedByItsTime
<1>1. Init => JudgedByItsTime
  BY DEF Init, GateInit, NoVerdict, JudgedByItsTime
<1>2. GateInv /\ SampledInv /\ JudgedByItsTime /\ [Next]_vars => JudgedByItsTime'
  <2> SUFFICES ASSUME GateInv, SampledInv, JudgedByItsTime, [Next]_vars
               PROVE  JudgedByItsTime'
    OBVIOUS
  <2>0. DOMAIN head = 0 .. now /\ now \in Nat
    BY DEF GateInv, GateTypeOK, Stamp
  <2>1. CASE UNCHANGED <<head, verdict>>
    BY <2>1 DEF JudgedByItsTime
  <2>2. CASE UNCHANGED gateVars
    BY <2>1, <2>2 DEF gateVars
  <2>3. ASSUME NEW t \in Stamp, Tilt(t) PROVE JudgedByItsTime'
    BY <2>1, <2>3 DEF Tilt
  <2>4. ASSUME NEW t \in Stamp, Ping(t, Skipping) PROVE JudgedByItsTime'
    <3>1. PICK phi \in TiltAt(t) :
            /\ verdict'.t = t /\ verdict'.covered = Covers(t)
            /\ verdict'.gated = (phi = "steep")
            /\ verdict'.answer = "cloud" => phi # "steep"
      BY <2>4 DEF Ping
    <3>2. head' = head /\ t <= now
      BY <2>4 DEF Ping
    <3>3. CASE ~Covers(t)
      BY <3>1, <3>3 DEF JudgedByItsTime
    <3>4. CASE Covers(t)
      <4>1. PICK u \in 0 .. now : head[u] = phi /\ u >= t - Spread /\ u <= t + Spread
        BY <3>2, <3>4, CoveredAngles
      <4>2. phi = "level" \/ phi = "steep"
        BY <4>1 DEF GateInv, GateTypeOK, Angle
      <4>3. u \in DOMAIN head'
        BY <2>0, <3>2, <4>1
      <4> QED BY <3>1, <3>2, <4>1, <4>2, <4>3 DEF JudgedByItsTime
    <3> QED BY <3>3, <3>4
  <2>5. CASE Tick
    <3>1. /\ verdict' = verdict /\ DOMAIN head' = 0 .. now + 1
          /\ \A u \in 0 .. now : head'[u] = head[u] /\ u \in 0 .. now + 1
      BY <2>0, <2>5 DEF Tick
    <3> QED BY <2>0, <3>1 DEF JudgedByItsTime
  <2>6. CASE Rewind
    BY <2>6 DEF Rewind, NoVerdict, JudgedByItsTime
  <2> QED BY <2>2, <2>3, <2>4, <2>5, <2>6 DEF Next, vars
<1>3. Spec => []GateInv
  BY InitGateInv, NextGateInv, PTL DEF Spec
<1>4. GateInv /\ GateInv' /\ SampledInv /\ [Next]_vars => SampledInv'
  BY NextSampledInv
<1>5. Spec => []SampledInv
  BY InitSampledInv, <1>3, <1>4, PTL DEF Spec
<1> QED
  BY <1>1, <1>2, <1>3, <1>5, PTL DEF Spec

\* Whatever parameters are set, alone or together, whole or decimal, and
\* whichever of them are refused, the members are the stored parameters, cut
\* as a launch would cut them, and the detector is theirs.
THEOREM TuningNeverSplits == Spec => []TuningIsAtomic
<1>1. Spec => []TuningInv
  BY InitTuningInv, NextTuningInv, PTL DEF Spec
<1>2. TuningInv => TuningIsAtomic
  BY DEF TuningInv
<1> QED
  BY <1>1, <1>2, PTL

----------------------------------------------------------------------------
(***************************************************************************)
(* The detectors.  The prefix sums telescope, so their differences are the *)
(* sums of the half windows; the kernel's passes put the least cells left  *)
(* in place one after another and lose none, so the cell in rank's place   *)
(* is the window's order statistic.                                        *)
(***************************************************************************)

\* Induction up to n, for a set in place of a predicate.
LEMMA UpTo ==
  ASSUME NEW n \in Nat, NEW T, 0 \in T, \A k \in 0 .. n - 1 : k \in T => k + 1 \in T
  PROVE  0 .. n \subseteq T
<1> DEFINE Bad == {k \in 0 .. n : k \notin T}
<1>1. ASSUME Bad # {} PROVE FALSE
  <2>1. PICK m \in Bad : \A k \in Bad : m <= k
    <3>1. Bad \in SUBSET Nat
      OBVIOUS
    <3> HIDE DEF Bad
    <3> QED BY <1>1, <3>1, LeastOf
  <2>2. m # 0 /\ m - 1 \in 0 .. n - 1 /\ m - 1 \notin Bad
    BY <2>1
  <2> QED BY <2>2
<1> QED BY <1>1

\* So has every nonempty bounded set of integers, and a greatest one.
LEMMA GreatestOf ==
  ASSUME NEW n \in Int, NEW T \in SUBSET Int, \A x \in T : x <= n, T # {}
  PROVE  Max(T) \in T /\ \A k \in T : k <= Max(T)
<1> DEFINE D == {n - x : x \in T}
<1>1. D \in SUBSET Nat /\ D # {}
  <2>1. \A x \in T : n - x \in Nat
    OBVIOUS
  <2> QED BY <2>1
<1> HIDE DEF D
<1>2. PICK d \in D : \A e \in D : d <= e
  BY <1>1, LeastOf
<1>3. PICK m \in T : d = n - m
  BY <1>2 DEF D
<1>4. \A k \in T : k <= m
  <2>1. \A k \in T : n - k \in D
    BY DEF D
  <2> QED BY <1>2, <1>3, <2>1
<1>5. \E x \in T : \A y \in T : x >= y
  BY <1>3, <1>4
<1> QED BY <1>5 DEF Max


SumTable(I, g, S) ==
  /\ I \in [SUBSET S -> Int] /\ I[{}] = 0
  /\ \A s \in SUBSET S : \A x \in s : I[s] = g[x] + I[s \ {x}]

LEMMA SumOverUnfold ==
  ASSUME NEW S, IsFiniteSet(S), NEW g, \A k \in S : g[k] \in Int
  PROVE  \E I : SumTable(I, g, S) /\ SumOver(g, S) = I[S]
<1> DEFINE n == Cardinality(S)
           Small(k) == {s \in SUBSET S : Cardinality(s) <= k}
           Pick(s) == CHOOSE x \in s : TRUE
           Step(s, r) == IF s = {} THEN 0 ELSE g[Pick(s)] + r
           Fold(I, k) == I = [s \in Small(k) |-> Step(s, I[s \ {Pick(s)}])]
           Good == {k \in 0 .. n : \E I : Fold(I, k)}
<1>1. /\ n \in Nat
      /\ \A s \in SUBSET S : IsFiniteSet(s) /\ Cardinality(s) \in 0 .. n
      /\ \A s \in SUBSET S : \A x \in s :
           s \ {x} \in SUBSET S /\ Cardinality(s \ {x}) = Cardinality(s) - 1
  BY FS_CardinalityType, FS_Subset, FS_RemoveElement
<1>2. \A s \in SUBSET S : s # {} => Pick(s) \in s
  OBVIOUS
<1> HIDE DEF Pick
<1>3. /\ \A k \in 0 .. n - 1 : \A s \in Small(k + 1) : s # {} => s \ {Pick(s)} \in Small(k)
      /\ \A k \in 0 .. n - 1 : Small(k) \subseteq Small(k + 1)
      /\ Small(n) = SUBSET S
  <2> HIDE DEF n
  <2>1. ASSUME NEW k \in 0 .. n - 1, NEW s \in Small(k + 1), s # {}
        PROVE  s \ {Pick(s)} \in Small(k)
    BY <1>1, <1>2, <2>1
  <2>2. \A k \in 0 .. n - 1 : Small(k) \subseteq Small(k + 1)
    BY <1>1
  <2>3. Small(n) = SUBSET S
    BY <1>1
  <2> HIDE DEF Small
  <2> QED BY <2>1, <2>2, <2>3
<1>4. Small(0) = {{}}
  <2>1. \A s \in SUBSET S : Cardinality(s) = 0 <=> s = {}
    BY <1>1, FS_EmptySet
  <2> QED BY <1>1, <2>1
<1> HIDE DEF Small
<1>5. ASSUME NEW I, NEW k \in 0 .. n - 1, Fold(I, k)
      PROVE  Fold([s \in Small(k + 1) |-> Step(s, I[s \ {Pick(s)}])], k + 1)
  <2> DEFINE J == [s \in Small(k + 1) |-> Step(s, I[s \ {Pick(s)}])]
  <2>1. \A a, b : Step({}, a) = Step({}, b)
    OBVIOUS
  <2> HIDE DEF Step
  <2>2. \A s \in Small(k) : J[s] = I[s]
    BY <1>3, <1>5
  <2> HIDE DEF J
  <2>3. \A s \in Small(k + 1) : s # {} => J[s \ {Pick(s)}] = I[s \ {Pick(s)}]
    BY <1>3, <2>2
  <2>4. \A s \in Small(k + 1) : Step(s, I[s \ {Pick(s)}]) = Step(s, J[s \ {Pick(s)}])
    BY <2>1, <2>3
  <2> QED BY <2>4 DEF J
<1>6. \E I : Fold(I, 0)
  <2>1. Fold([s \in {{}} |-> 0], 0)
    BY <1>4
  <2> QED BY <2>1
<1>7. 0 .. n \subseteq Good
  <2> HIDE DEF Fold
  <2>1. 0 \in Good
    BY <1>1, <1>6
  <2>2. ASSUME NEW k \in 0 .. n - 1, k \in Good PROVE k + 1 \in Good
    <3>1. \E I : Fold(I, k + 1)
      BY <1>5, <2>2
    <3> QED BY <1>1, <3>1
  <2> HIDE DEF Good
  <2> QED BY <1>1, <2>1, <2>2, UpTo
<1> DEFINE All(I) == I = [s \in SUBSET S |-> Step(s, I[s \ {Pick(s)}])]
<1>8. All(CHOOSE I : All(I))
  <2>1. \E I : All(I)
    <3>1. \E I : Fold(I, n)
      <4> HIDE DEF Fold
      <4> QED BY <1>1, <1>7
    <3> QED BY <1>3, <3>1
  <2> HIDE DEF All
  <2> QED BY <2>1
<1>10. SumOver(g, S) = (CHOOSE I : All(I))[S]
  BY DEF SumOver, MapThenSumSet, MapThenFoldSet, Pick
<1>11. PICK I : All(I) /\ SumOver(g, S) = I[S]
  BY <1>8, <1>10
<1>12. I[{}] = 0 /\ \A s \in SUBSET S : s # {} => I[s] = g[Pick(s)] + I[s \ {Pick(s)}]
  BY <1>11
<1> DEFINE Ints == {k \in 0 .. n : \A s \in Small(k) : I[s] \in Int}
<1>13. I \in [SUBSET S -> Int]
  <2>1. 0 \in Ints
    <3>1. \A s \in Small(0) : I[s] = 0
      BY <1>4, <1>12
    <3> QED BY <1>1, <3>1
  <2>2. ASSUME NEW k \in 0 .. n - 1, k \in Ints PROVE k + 1 \in Ints
    <3>1. ASSUME NEW s \in Small(k + 1) PROVE I[s] \in Int
      <4>1. CASE s = {} BY <4>1, <1>12
      <4>2. CASE s # {}
        <5>1. s \in SUBSET S
          BY DEF Small
        <5>2. g[Pick(s)] \in Int /\ I[s \ {Pick(s)}] \in Int
          BY <1>2, <1>3, <2>2, <4>2, <5>1
        <5>3. I[s] = g[Pick(s)] + I[s \ {Pick(s)}]
          BY <1>12, <4>2, <5>1
        <5> HIDE DEF Small
        <5> QED BY <5>2, <5>3
      <4> QED BY <4>1, <4>2
    <3> QED BY <1>1, <3>1
  <2>3. n \in Ints
    <3> HIDE DEF Ints, n
    <3> QED BY <1>1, <2>1, <2>2, UpTo
  <2> QED BY <1>3, <1>11, <2>3
<1> DEFINE Sums == {k \in 0 .. n : \A s \in Small(k) : \A x \in s : I[s] = g[x] + I[s \ {x}]}
<1>14. \A s \in SUBSET S : \A x \in s : I[s] = g[x] + I[s \ {x}]
  <2>1. 0 \in Sums
    BY <1>1, <1>4
  <2>2. ASSUME NEW k \in 0 .. n - 1, k \in Sums PROVE k + 1 \in Sums
    <3>1. ASSUME NEW s \in Small(k + 1), NEW x \in s PROVE I[s] = g[x] + I[s \ {x}]
      <4> DEFINE c == Pick(s)
      <4>1. s \in SUBSET S /\ c \in s /\ I[s] = g[c] + I[s \ {c}]
        BY <1>2, <1>12 DEF Small
      <4>2. CASE c = x BY <4>1, <4>2
      <4>3. CASE c # x
        <5> HIDE DEF c
        <5>1. s \ {c} \in Small(k) /\ s \ {x} \in Small(k)
          BY <1>1, <4>1 DEF Small
        <5>2. I[s \ {c}] = g[x] + I[(s \ {c}) \ {x}] /\ I[s \ {x}] = g[c] + I[(s \ {x}) \ {c}]
          BY <2>2, <4>1, <4>3, <5>1
        <5>3. (s \ {c}) \ {x} = (s \ {x}) \ {c} /\ (s \ {c}) \ {x} \in SUBSET S
          BY <4>1
        <5> DEFINE r == I[(s \ {c}) \ {x}]
        <5>4. r \in Int /\ g[x] \in Int /\ g[c] \in Int
          BY <1>13, <4>1, <5>3
        <5>5. I[s] = g[c] + (g[x] + r) /\ I[s \ {x}] = g[c] + r
          BY <4>1, <5>2, <5>3
        <5> HIDE DEF r
        <5> QED BY <5>4, <5>5
      <4> QED BY <4>2, <4>3
    <3> QED BY <1>1, <3>1
  <2>3. n \in Sums
    <3> HIDE DEF Sums, n
    <3> QED BY <1>1, <2>1, <2>2, UpTo
  <2> QED BY <1>3, <2>3
<1> QED BY <1>11, <1>12, <1>13, <1>14 DEF SumTable

\* The intensities of a beam are numbers.
LEMMA BeamCells ==
  ASSUME NEW beam \in Beam
  PROVE  Rows \in Nat /\ \A i \in 0 .. Rows - 1 : beam[i] \in Int
<1>1. \A i \in 0 .. Rows - 1 : beam[i] \in Cells
  BY DEF Beam
<1>2. \A c \in Cells : c \in Int
  BY DetectorAssumption
<1> QED BY <1>1, <1>2, DetectorAssumption

\* A table of prefix sums follows the recursion it is defined by.
LEMMA PrefixUnfold ==
  ASSUME NEW beam \in Beam
  PROVE  /\ PrefixSums(beam)[0] = 0
         /\ \A i \in 1 .. Rows : PrefixSums(beam)[i] = PrefixSums(beam)[i - 1] + beam[i - 1]
         /\ \A i \in 0 .. Rows : PrefixSums(beam)[i] \in Int
<1> DEFINE Step(i, r) == IF i = 0 THEN 0 ELSE r + beam[i - 1]
           Table(P, k) == P = [i \in 0 .. k |-> Step(i, P[i - 1])]
           Good == {k \in 0 .. Rows : \E P : Table(P, k)}
<1>1. Rows \in Nat /\ \A i \in 0 .. Rows - 1 : beam[i] \in Int
  BY BeamCells
<1>2. ASSUME NEW P, NEW k \in 0 .. Rows - 1, Table(P, k)
      PROVE  Table([i \in 0 .. k + 1 |-> Step(i, P[i - 1])], k + 1)
  <2> DEFINE Q == [i \in 0 .. k + 1 |-> Step(i, P[i - 1])]
  <2>1. \A r, s : Step(0, r) = Step(0, s)
    OBVIOUS
  <2> HIDE DEF Step
  <2>2. 0 .. k \subseteq 0 .. k + 1 /\ \A i \in 0 .. k + 1 : i # 0 => i - 1 \in 0 .. k
    OBVIOUS
  <2>3. \A i \in 0 .. k : Q[i] = P[i]
    BY <1>2, <2>2
  <2> HIDE DEF Q
  <2>4. \A i \in 0 .. k + 1 : Step(i, P[i - 1]) = Step(i, Q[i - 1])
    BY <2>1, <2>2, <2>3
  <2> QED BY <2>4 DEF Q
<1>3. \E P : Table(P, 0)
  <2>1. 0 .. 0 = {0}
    OBVIOUS
  <2>2. Table([i \in {0} |-> 0], 0)
    BY <2>1
  <2> QED BY <2>2
<1>4. 0 .. Rows \subseteq Good
  <2> HIDE DEF Table
  <2>1. 0 \in Good
    BY <1>1, <1>3
  <2>2. ASSUME NEW k \in 0 .. Rows - 1, k \in Good PROVE k + 1 \in Good
    <3>1. \E P : Table(P, k + 1)
      BY <1>2, <2>2
    <3> QED BY <1>1, <3>1
  <2> HIDE DEF Good
  <2> QED BY <1>1, <2>1, <2>2, UpTo
<1>5. Table(CHOOSE P : Table(P, Rows), Rows)
  <2> HIDE DEF Table
  <2>1. Rows \in Good
    BY <1>1, <1>4
  <2> QED BY <2>1
<1>6. PrefixSums(beam) = CHOOSE P : Table(P, Rows)
  BY DEF PrefixSums
<1>7. PICK P : Table(P, Rows) /\ PrefixSums(beam) = P
  BY <1>5, <1>6
<1>8. P[0] = 0 /\ \A i \in 1 .. Rows : P[i] = P[i - 1] + beam[i - 1]
  BY <1>1, <1>7
<1> DEFINE Ints == {k \in 0 .. Rows : P[k] \in Int}
<1>9. 0 .. Rows \subseteq Ints
  <2> HIDE DEF Table
  <2>1. 0 \in Ints
    BY <1>1, <1>8
  <2>2. ASSUME NEW k \in 0 .. Rows - 1, k \in Ints PROVE k + 1 \in Ints
    <3>1. k + 1 \in 1 .. Rows /\ (k + 1) - 1 = k
      BY <1>1
    <3>2. P[k + 1] = P[k] + beam[k]
      BY <1>8, <3>1
    <3> QED BY <1>1, <2>2, <3>1, <3>2
  <2> HIDE DEF Ints
  <2> QED BY <1>1, <2>1, <2>2, UpTo
<1> HIDE DEF Table
<1> QED BY <1>7, <1>8, <1>9

\* The sum of an interval of cells is the difference of two prefix sums.
LEMMA PrefixDifference ==
  ASSUME NEW beam \in Beam, NEW a \in Int, NEW b \in Int, 0 <= a, a <= b + 1, b < Rows
  PROVE  SumOver(beam, a .. b) = PrefixSums(beam)[b + 1] - PrefixSums(beam)[a]
<1> DEFINE P == PrefixSums(beam)
           m == b + 1 - a
<1>1. /\ \A i \in 1 .. Rows : P[i] = P[i - 1] + beam[i - 1]
      /\ \A i \in 0 .. Rows : P[i] \in Int
  BY PrefixUnfold
<1> HIDE DEF P
<1>2. Rows \in Nat /\ \A i \in 0 .. Rows - 1 : beam[i] \in Int
  BY BeamCells
<1>3. IsFiniteSet(a .. b) /\ \A i \in a .. b : beam[i] \in Int
  BY <1>2, FS_Interval
<1>4. PICK I : SumTable(I, beam, a .. b) /\ SumOver(beam, a .. b) = I[a .. b]
  BY <1>3, SumOverUnfold
<1> DEFINE Right == {k \in 0 .. m : I[a .. a + k - 1] = P[a + k] - P[a]}
<1>5. 0 \in Right
  <2>1. a .. a + 0 - 1 = {} /\ a + 0 = a /\ a \in 0 .. Rows /\ 0 \in 0 .. m
    BY <1>2
  <2>2. I[{}] = 0 /\ P[a] \in Int
    BY <1>1, <1>4, <2>1 DEF SumTable
  <2> QED BY <2>1, <2>2
<1>6. ASSUME NEW k \in 0 .. m - 1, k \in Right PROVE k + 1 \in Right
  <2> DEFINE s == a .. a + (k + 1) - 1
             x == a + k
  <2>1. s \in SUBSET (a .. b) /\ x \in s /\ s \ {x} = a .. a + k - 1
    OBVIOUS
  <2>2. I[s] = beam[x] + I[a .. a + k - 1]
    <3> HIDE DEF s, x
    <3>1. I[s] = beam[x] + I[s \ {x}]
      BY <1>4, <2>1 DEF SumTable
    <3> QED BY <2>1, <3>1
  <2>3. x + 1 \in 1 .. Rows /\ (x + 1) - 1 = x /\ x \in 0 .. Rows /\ x \in 0 .. Rows - 1
    BY <1>2
  <2>4. P[x + 1] = P[x] + beam[x]
    BY <1>1, <2>3
  <2>5. P[x] \in Int /\ P[x + 1] \in Int /\ beam[x] \in Int /\ P[a] \in Int
    BY <1>1, <1>2, <2>3
  <2>6. I[a .. a + k - 1] = P[x] - P[a]
    BY <1>6
  <2>7. x + 1 = a + (k + 1)
    OBVIOUS
  <2> HIDE DEF x, s
  <2>8. I[s] = P[x + 1] - P[a]
    BY <2>2, <2>4, <2>5, <2>6
  <2> QED BY <2>7, <2>8 DEF s
<1>7. m \in Right
  <2>1. m \in Nat /\ m \in 0 .. m
    OBVIOUS
  <2> HIDE DEF Right, m
  <2> QED BY <1>5, <1>6, <2>1, UpTo
<1>8. a + m - 1 = b /\ a + m = b + 1
  OBVIOUS
<1> QED BY <1>4, <1>7, <1>8 DEF P

\* A pass of the selection sort swaps the least cell from k on into place.
LEMMA SelectedSwaps ==
  ASSUME NEW n \in Nat, NEW t \in [1 .. n -> Nat], NEW k \in 1 .. n
  PROVE  \E pos \in k .. n :
           /\ Selected(t, k) = [t EXCEPT ![k] = t[pos], ![pos] = t[k]]
           /\ \A j \in k .. n : t[pos] <= t[j]
<1> DEFINE V == {t[j] : j \in k .. n}
           least == Min(V)
           A == {j \in k .. n : t[j] = least}
           pos == Min(A)
<1>1. Len(t) = n
  OBVIOUS
<1>2. least \in V /\ \A x \in V : least <= x
  <2>1. V \in SUBSET Nat /\ V # {}
    OBVIOUS
  <2> HIDE DEF V
  <2>2. \E m \in V : \A x \in V : m <= x
    BY <2>1, LeastOf
  <2> QED BY <2>2 DEF Min
<1>3. pos \in A
  <2>1. A \in SUBSET Nat /\ A # {}
    <3> HIDE DEF least
    <3> QED BY <1>2
  <2> HIDE DEF A
  <2>2. \E m \in A : \A x \in A : m <= x
    BY <2>1, LeastOf
  <2> QED BY <2>2 DEF Min
<1> HIDE DEF pos
<1>4. pos \in k .. n /\ t[pos] = least
  BY <1>3
<1>5. \A j \in k .. n : t[pos] <= t[j]
  BY <1>2, <1>4
<1>6. Selected(t, k) = [t EXCEPT ![k] = least, ![pos] = t[k]]
  BY <1>1 DEF Selected, pos
<1> HIDE DEF least
<1> QED BY <1>4, <1>5, <1>6

\* The selection sort of the kernel, as a fold over its passes.
Passes(start, q) == FoldLeft(Selected, start, q)

PassByPass(T, start, q, n) ==
  /\ T[0] = start
  /\ \A k \in 1 .. n : T[k] = Selected(T[k - 1], q[k])
  /\ Passes(start, q) = T[n]

\* The passes follow one another.
LEMMA PassesUnfold ==
  ASSUME NEW start, NEW q, NEW n \in Nat, DOMAIN q = 1 .. n
  PROVE  \E T : PassByPass(T, start, q, n)
<1> DEFINE Top(s)     == Max(s)
           Step(s, r) == IF s = {} THEN start ELSE Selected(r, q[Top(s)])
           Fold(I, k) == I = [s \in SUBSET (1 .. k) |-> Step(s, I[s \ {Top(s)}])]
           Good       == {k \in 0 .. n : \E I : Fold(I, k)}
<1>1. ASSUME NEW k \in Nat, NEW s \in SUBSET (1 .. k + 1), s # {}
      PROVE  Top(s) \in s /\ s \ {Top(s)} \in SUBSET (1 .. k)
  <2>1. s \in SUBSET Int /\ k + 1 \in Int /\ \A x \in s : x <= k + 1
    OBVIOUS
  <2>2. Top(s) \in s /\ \A x \in s : x <= Top(s)
    BY <1>1, <2>1, GreatestOf
  <2>3. \A x \in s : x \in 1 .. k + 1
    OBVIOUS
  <2> HIDE DEF Top
  <2>4. \A x \in s \ {Top(s)} : x \in 1 .. k
    <3>1. Top(s) \in 1 .. k + 1
      BY <2>2, <2>3
    <3>2. ASSUME NEW x \in s, x # Top(s) PROVE x \in 1 .. k
      <4>1. x \in 1 .. k + 1 /\ x <= Top(s)
        BY <2>2, <2>3
      <4> QED BY <3>1, <3>2, <4>1
    <3> QED BY <3>2
  <2> QED BY <2>2, <2>4
<1> HIDE DEF Top
<1>2. ASSUME NEW I, NEW k \in 0 .. n - 1, Fold(I, k)
      PROVE  Fold([s \in SUBSET (1 .. k + 1) |-> Step(s, I[s \ {Top(s)}])], k + 1)
  <2> DEFINE J == [s \in SUBSET (1 .. k + 1) |-> Step(s, I[s \ {Top(s)}])]
  <2>1. \A a, b : Step({}, a) = Step({}, b)
    OBVIOUS
  <2> HIDE DEF Step
  <2>2. SUBSET (1 .. k) \subseteq SUBSET (1 .. k + 1)
    OBVIOUS
  <2>3. \A s \in SUBSET (1 .. k) : J[s] = I[s]
    BY <1>2, <2>2
  <2> HIDE DEF J
  <2>4. \A s \in SUBSET (1 .. k + 1) : s # {} => J[s \ {Top(s)}] = I[s \ {Top(s)}]
    <3>1. k \in Nat
      OBVIOUS
    <3>2. \A s \in SUBSET (1 .. k + 1) : s # {} => s \ {Top(s)} \in SUBSET (1 .. k)
      BY <1>1, <3>1
    <3> QED BY <2>3, <3>2
  <2>5. \A s \in SUBSET (1 .. k + 1) : Step(s, I[s \ {Top(s)}]) = Step(s, J[s \ {Top(s)}])
    BY <2>1, <2>4
  <2> QED BY <2>5 DEF J
<1>3. \E I : Fold(I, 0)
  <2>1. SUBSET (1 .. 0) = {{}}
    OBVIOUS
  <2>2. Fold([s \in {{}} |-> start], 0)
    BY <2>1
  <2> QED BY <2>2
<1>4. 0 .. n \subseteq Good
  <2> HIDE DEF Fold
  <2>1. 0 \in Good
    BY <1>3
  <2>2. ASSUME NEW k \in 0 .. n - 1, k \in Good PROVE k + 1 \in Good
    <3>1. \E I : Fold(I, k + 1)
      BY <1>2, <2>2
    <3> QED BY <3>1
  <2> HIDE DEF Good
  <2> QED BY <2>1, <2>2, UpTo
<1>5. Fold(CHOOSE I : Fold(I, n), n)
  <2> HIDE DEF Fold
  <2>1. n \in Good
    BY <1>4
  <2> QED BY <2>1
<1>6. Passes(start, q) = (CHOOSE I : Fold(I, n))[1 .. n]
  BY DEF Passes, FoldLeft, MapThenFoldSet, Top
<1>7. PICK I : Fold(I, n) /\ Passes(start, q) = I[1 .. n]
  BY <1>5, <1>6
<1> DEFINE T == [k \in 0 .. n |-> I[1 .. k]]
<1>8. T[0] = start
  <2>1. 1 .. 0 = {} /\ {} \in SUBSET (1 .. n)
    OBVIOUS
  <2>2. I[{}] = start
    BY <1>7, <2>1
  <2> QED BY <2>1, <2>2
<1>9. ASSUME NEW k \in 1 .. n PROVE T[k] = Selected(T[k - 1], q[k])
  <2>1. Max(1 .. k) = k
    <3>1. Max(1 .. k) \in 1 .. k /\ \A j \in 1 .. k : j <= Max(1 .. k)
      <4>1. k \in 1 .. k /\ k \in Int
        OBVIOUS
      <4>2. 1 .. k \in SUBSET Int /\ \A x \in 1 .. k : x <= k
        OBVIOUS
      <4>3. 1 .. k # {}
        BY <4>1
      <4> QED BY <4>1, <4>2, <4>3, GreatestOf
    <3> QED BY <3>1
  <2>2. (1 .. k) \ {k} = 1 .. k - 1 /\ 1 .. k \in SUBSET (1 .. n) /\ 1 .. k # {}
    OBVIOUS
  <2>3. I[1 .. k] = Selected(I[(1 .. k) \ {k}], q[k])
    BY <1>7, <2>1, <2>2 DEF Top
  <2>4. k \in 0 .. n /\ k - 1 \in 0 .. n
    OBVIOUS
  <2> QED BY <2>2, <2>3, <2>4
<1>10. Passes(start, q) = T[n]
  BY <1>7
<1> HIDE DEF T
<1>11. PassByPass(T, start, q, n)
  BY <1>8, <1>9, <1>10 DEF PassByPass
<1> QED BY <1>11

\* After k passes the first k cells are in place: the others are no less, and
\* the cells are still those of the start, in the order p with inverse q.
PlacedUpTo(t, start, n, k) ==
  /\ t \in [1 .. n -> Nat]
  /\ \E p, q \in [1 .. n -> 1 .. n] :
       \A j \in 1 .. n : q[p[j]] = j /\ p[q[j]] = j /\ t[j] = start[p[j]]
  /\ \A i \in 1 .. k : \A j \in i .. n : t[i] <= t[j]

LEMMA PassPlaces ==
  ASSUME NEW n \in Nat, NEW start \in [1 .. n -> Nat], NEW k \in 1 .. n, NEW t,
         PlacedUpTo(t, start, n, k - 1)
  PROVE  PlacedUpTo(Selected(t, k), start, n, k)
<1> DEFINE u == Selected(t, k)
<1>1. t \in [1 .. n -> Nat]
  BY DEF PlacedUpTo
<1>2. PICK pos \in k .. n : /\ u = [t EXCEPT ![k] = t[pos], ![pos] = t[k]]
                           /\ \A j \in k .. n : t[pos] <= t[j]
  BY <1>1, SelectedSwaps
<1> HIDE DEF u
<1> DEFINE sw == [j \in 1 .. n |-> IF j = k THEN pos ELSE IF j = pos THEN k ELSE j]
<1>3. /\ sw \in [1 .. n -> 1 .. n]
      /\ \A j \in 1 .. n : sw[sw[j]] = j
      /\ sw[k] = pos
      /\ \A i \in 1 .. k - 1 : sw[i] = i
      /\ \A i \in 1 .. k : \A j \in i .. n : sw[j] \in i .. n
  OBVIOUS
<1>4. u \in [1 .. n -> Nat] /\ \A j \in 1 .. n : u[j] = t[sw[j]]
  <2>1. pos \in 1 .. n /\ t[pos] \in Nat /\ t[k] \in Nat
    BY <1>1
  <2> QED BY <1>1, <1>2, <2>1
<1> HIDE DEF sw
<1>5. PICK p \in [1 .. n -> 1 .. n], q \in [1 .. n -> 1 .. n] :
        \A j \in 1 .. n : q[p[j]] = j /\ p[q[j]] = j /\ t[j] = start[p[j]]
  BY DEF PlacedUpTo
<1> DEFINE p2 == [j \in 1 .. n |-> p[sw[j]]]
           q2 == [j \in 1 .. n |-> sw[q[j]]]
<1>6. p2 \in [1 .. n -> 1 .. n] /\ q2 \in [1 .. n -> 1 .. n]
  BY <1>3
<1>7. ASSUME NEW j \in 1 .. n
      PROVE  q2[p2[j]] = j /\ p2[q2[j]] = j /\ u[j] = start[p2[j]]
  <2>0. sw[j] \in 1 .. n
    BY <1>3
  <2>1. p2[j] = p[sw[j]] /\ sw[j] \in 1 .. n /\ p[sw[j]] \in 1 .. n
    BY <2>0
  <2>2. q2[p2[j]] = sw[q[p[sw[j]]]]
    BY <2>1
  <2>3. q2[j] = sw[q[j]] /\ q[j] \in 1 .. n /\ sw[q[j]] \in 1 .. n
    BY <1>3
  <2>4. p2[q2[j]] = p[sw[sw[q[j]]]]
    BY <2>3
  <2> HIDE DEF p2, q2
  <2>5. q[p[sw[j]]] = sw[j] /\ sw[sw[j]] = j /\ sw[sw[q[j]]] = q[j] /\ p[q[j]] = j
    BY <1>3, <1>5, <2>1, <2>3
  <2>6. u[j] = t[sw[j]] /\ t[sw[j]] = start[p[sw[j]]]
    BY <1>4, <1>5, <2>1
  <2> QED BY <2>1, <2>2, <2>4, <2>5, <2>6
<1>8. \E a, b \in [1 .. n -> 1 .. n] :
        \A j \in 1 .. n : b[a[j]] = j /\ a[b[j]] = j /\ u[j] = start[a[j]]
  <2> HIDE DEF p2, q2
  <2> QED BY <1>6, <1>7
<1>9. ASSUME NEW i \in 1 .. k, NEW j \in i .. n PROVE u[i] <= u[j]
  <2>0. j \in 1 .. n /\ i \in 1 .. n
    OBVIOUS
  <2>1. j \in 1 .. n /\ i \in 1 .. n /\ sw[j] \in i .. n
    BY <1>3, <2>0
  <2>2. u[j] = t[sw[j]] /\ u[i] = t[sw[i]]
    BY <1>4, <2>1
  <2>3. CASE i = k
    BY <1>2, <1>3, <2>1, <2>2, <2>3
  <2>4. CASE i # k
    <3>1. i \in 1 .. k - 1
      BY <2>4
    <3>2. \A l \in i .. n : t[i] <= t[l]
      BY <3>1 DEF PlacedUpTo
    <3> QED BY <1>3, <2>1, <2>2, <3>1, <3>2
  <2> QED BY <2>3, <2>4
<1>10. PlacedUpTo(u, start, n, k)
  BY <1>4, <1>8, <1>9 DEF PlacedUpTo
<1> QED BY <1>10 DEF u

LEMMA SelectionSorts ==
  ASSUME NEW n \in Nat, NEW start \in [1 .. n -> Nat], NEW m \in 0 .. n
  PROVE  PlacedUpTo(Passes(start, [pass \in 1 .. m |-> pass]), start, n, m)
<1> DEFINE q == [pass \in 1 .. m |-> pass]
<1>1. m \in Nat /\ DOMAIN q = 1 .. m /\ \A k \in 1 .. m : q[k] = k
  OBVIOUS
<1> HIDE DEF q
<1>2. PICK T : PassByPass(T, start, q, m)
  BY <1>1, PassesUnfold
<1>3. /\ T[0] = start /\ Passes(start, q) = T[m]
      /\ \A k \in 1 .. m : T[k] = Selected(T[k - 1], k)
  BY <1>1, <1>2 DEF PassByPass
<1> DEFINE Good == {k \in 0 .. m : PlacedUpTo(T[k], start, n, k)}
<1>4. 0 \in Good
  <2> DEFINE id == [j \in 1 .. n |-> j]
  <2>1. id \in [1 .. n -> 1 .. n] /\ \A j \in 1 .. n : id[j] = j
    OBVIOUS
  <2> HIDE DEF id
  <2>2. \E a, b \in [1 .. n -> 1 .. n] :
          \A j \in 1 .. n : b[a[j]] = j /\ a[b[j]] = j /\ start[j] = start[a[j]]
    <3>1. \A j \in 1 .. n : id[id[j]] = j /\ start[j] = start[id[j]]
      BY <2>1
    <3> QED BY <2>1, <3>1
  <2>3. \A i \in 1 .. 0 : \A j \in i .. n : start[i] <= start[j]
    OBVIOUS
  <2>4. PlacedUpTo(start, start, n, 0)
    BY <2>2, <2>3 DEF PlacedUpTo
  <2> QED BY <1>3, <2>4
<1>5. ASSUME NEW k \in 0 .. m - 1, k \in Good PROVE k + 1 \in Good
  <2>1. k + 1 \in 1 .. m /\ k + 1 \in 1 .. n /\ (k + 1) - 1 = k
    OBVIOUS
  <2>2. PlacedUpTo(T[k], start, n, (k + 1) - 1)
    BY <1>5, <2>1
  <2>3. T[k + 1] = Selected(T[k], k + 1)
    BY <1>3, <2>1
  <2>4. PlacedUpTo(T[k + 1], start, n, k + 1)
    BY <2>1, <2>2, <2>3, PassPlaces
  <2> QED BY <2>1, <2>4
<1>6. m \in Good
  <2> HIDE DEF Good
  <2>1. m \in 0 .. m
    BY <1>1
  <2> QED BY <1>1, <1>4, <1>5, <2>1, UpTo
<1> QED BY <1>3, <1>6 DEF q

\* The n cells in the order pos, with inverse of, are t, whose first r are in
\* place.
Scan(beam, cells, n, r, pos, of, t) ==
  /\ pos \in [1 .. n -> cells] /\ of \in [cells -> 1 .. n] /\ t \in [1 .. n -> Nat]
  /\ \A j \in 1 .. n : of[pos[j]] = j /\ t[j] = beam[pos[j]]
  /\ \A i \in cells : pos[of[i]] = i
  /\ \A i \in 1 .. r : \A j \in i .. n : t[i] <= t[j]

\* What r - 1 others are no greater than, and the rest no less, is the order
\* statistic of rank r - 1.
LEMMA PlacedIsOrderStatistic ==
  ASSUME NEW beam, NEW cells, NEW n \in Nat, NEW r \in 1 .. n, NEW pos, NEW of, NEW t,
         Scan(beam, cells, n, r, pos, of, t)
  PROVE  OrderStatistic(beam, cells, r - 1) = t[r]
<1> USE DEF Scan
<1> DEFINE Below(x) == {i \in cells : beam[i] < x}
           UpToIt(x) == {i \in cells : beam[i] <= x}
           Values == {beam[i] : i \in cells}
           Is(x) == Cardinality(Below(x)) <= r - 1 /\ Cardinality(UpToIt(x)) > r - 1
<1>1. IsFiniteSet(cells)
  <2>1. pos \in Surjection(1 .. n, cells)
    BY DEF Surjection
  <2>2. IsFiniteSet(1 .. n)
    BY FS_Interval
  <2> QED BY <2>1, <2>2, FS_Surjection
<1>2. \A i \in cells : of[i] \in 1 .. n /\ beam[i] = t[of[i]] /\ beam[i] \in Nat
  OBVIOUS
<1>3. t[r] \in Values
  <2>1. pos[r] \in cells /\ t[r] = beam[pos[r]]
    OBVIOUS
  <2> QED BY <2>1
<1>4. \A x : /\ IsFiniteSet(Below(x)) /\ Cardinality(Below(x)) \in Nat
             /\ IsFiniteSet(UpToIt(x)) /\ Cardinality(UpToIt(x)) \in Nat
  <2> SUFFICES ASSUME NEW x
               PROVE  /\ IsFiniteSet(Below(x)) /\ Cardinality(Below(x)) \in Nat
                      /\ IsFiniteSet(UpToIt(x)) /\ Cardinality(UpToIt(x)) \in Nat
    OBVIOUS
  <2>1. Below(x) \in SUBSET cells /\ UpToIt(x) \in SUBSET cells
    OBVIOUS
  <2> HIDE DEF Below, UpToIt
  <2> QED BY <1>1, <2>1, FS_Subset, FS_CardinalityType
<1>5. Cardinality(Below(t[r])) <= r - 1
  <2> DEFINE B == Below(t[r])
             f == [i \in B |-> of[i]]
  <2>1. \A i \in B : of[i] \in 1 .. r - 1
    <3> SUFFICES ASSUME NEW i \in B, of[i] >= r PROVE FALSE
      BY <1>2
    <3>1. i \in cells /\ beam[i] < t[r]
      OBVIOUS
    <3>2. of[i] \in r .. n /\ beam[i] = t[of[i]]
      BY <1>2, <3>1
    <3>3. t[r] <= t[of[i]] /\ t[r] \in Nat /\ t[of[i]] \in Nat
      BY <3>2
    <3> QED BY <3>1, <3>2, <3>3
  <2>2. \A i, j \in B : of[i] = of[j] => i = j
    OBVIOUS
  <2> HIDE DEF B
  <2>3. f \in Injection(B, 1 .. r - 1)
    BY <2>1, <2>2 DEF Injection, IsInjective
  <2>4. IsFiniteSet(1 .. r - 1) /\ Cardinality(1 .. r - 1) = r - 1
    BY FS_Interval
  <2>5. Cardinality(B) <= r - 1
    BY <2>3, <2>4, FS_Injection
  <2> QED BY <2>5 DEF B
<1>6. Cardinality(UpToIt(t[r])) > r - 1
  <2> DEFINE U == UpToIt(t[r])
             f == [j \in 1 .. r |-> pos[j]]
  <2>1. \A j \in 1 .. r : pos[j] \in U
    <3> SUFFICES ASSUME NEW j \in 1 .. r PROVE pos[j] \in U
      OBVIOUS
    <3>1. j \in 1 .. n /\ r \in j .. n
      OBVIOUS
    <3>2. t[j] <= t[r] /\ pos[j] \in cells /\ beam[pos[j]] = t[j]
      BY <3>1
    <3> QED BY <3>2
  <2>2. \A i, j \in 1 .. r : pos[i] = pos[j] => i = j
    <3>1. \A i \in 1 .. r : i \in 1 .. n
      OBVIOUS
    <3> QED BY <3>1
  <2>3. IsFiniteSet(U) /\ Cardinality(U) \in Nat
    BY <1>4
  <2> HIDE DEF U
  <2>4. f \in Injection(1 .. r, U)
    BY <2>1, <2>2 DEF Injection, IsInjective
  <2>5. Cardinality(1 .. r) = r
    BY FS_Interval
  <2>6. r <= Cardinality(U)
    BY <2>3, <2>4, <2>5, FS_Injection
  <2>7. Cardinality(U) > r - 1
    BY <2>3, <2>6
  <2> QED BY <2>7 DEF U
<1>7. Is(t[r])
  BY <1>5, <1>6
<1>8. ASSUME NEW x \in Values, NEW y \in Values, x < y, Is(x), Is(y) PROVE FALSE
  <2>1. x \in Nat /\ y \in Nat
    BY <1>2
  <2>2. UpToIt(x) \subseteq Below(y)
    BY <1>2, <1>8, <2>1
  <2> DEFINE A == UpToIt(x)
             B == Below(y)
  <2>3. A \in SUBSET B /\ IsFiniteSet(B) /\ Cardinality(A) \in Nat /\ Cardinality(B) \in Nat
    BY <1>4, <2>2
  <2>4. Cardinality(A) > r - 1 /\ Cardinality(B) <= r - 1
    BY <1>8
  <2> HIDE DEF A, B
  <2>5. Cardinality(A) <= Cardinality(B)
    BY <2>3, FS_Subset
  <2> QED BY <2>3, <2>4, <2>5
<1>9. \A x \in Values : Is(x) => x = t[r]
  <2> SUFFICES ASSUME NEW x \in Values, Is(x), x # t[r] PROVE FALSE
    OBVIOUS
  <2>1. x \in Nat /\ t[r] \in Nat
    BY <1>2
  <2>2. x < t[r] \/ t[r] < x
    BY <2>1
  <2> HIDE DEF Is, Values
  <2> QED BY <1>3, <1>7, <1>8, <2>2
<1>10. OrderStatistic(beam, cells, r - 1) = CHOOSE x \in Values : Is(x)
  BY DEF OrderStatistic
<1> HIDE DEF Is, Values
<1> QED BY <1>3, <1>7, <1>9, <1>10

\* The scan of a window in row order, and where in it a row is met.
Nth(d, row, j) == IF j <= Train(d) THEN row - Border(d) + j - 1
                  ELSE row + Guard(d) + j - Train(d)
At(d, row, i)  == IF i < row THEN i - row + Border(d) + 1
                  ELSE i - row - Guard(d) + Train(d)

LEMMA ScanIsWindow ==
  ASSUME NEW d, NEW row \in Int, Train(d) \in Nat, Guard(d) \in Nat
  PROVE  LET cells == LeadingCells(d, row) \cup LaggingCells(d, row)
             n     == 2 * Train(d)
         IN  /\ \A j \in 1 .. n : /\ Nth(d, row, j) \in cells
                                  /\ At(d, row, Nth(d, row, j)) = j
             /\ \A i \in cells : /\ At(d, row, i) \in 1 .. n
                                 /\ Nth(d, row, At(d, row, i)) = i
<1> DEFINE T == Train(d)
           G == Guard(d)
           cells == LeadingCells(d, row) \cup LaggingCells(d, row)
           n == 2 * T
<1>1. \A i : i \in cells <=> \/ i \in row - (T + G) .. row - G - 1
                             \/ i \in row + G + 1 .. row + (T + G)
  BY DEF LeadingCells, LaggingCells, Border
<1>2. \A j : Nth(d, row, j) = IF j <= T THEN row - (T + G) + j - 1 ELSE row + G + j - T
  BY DEF Nth, Border
<1>3. \A i : At(d, row, i) = IF i < row THEN i - row + (T + G) + 1 ELSE i - row - G + T
  BY DEF At, Border
<1>4. T \in Nat /\ G \in Nat
  OBVIOUS
<1> HIDE DEF T, G, cells
<1>5. ASSUME NEW j \in 1 .. n
      PROVE  Nth(d, row, j) \in cells /\ At(d, row, Nth(d, row, j)) = j
  <2>1. CASE j <= T
    <3>1. Nth(d, row, j) = row - (T + G) + j - 1
      BY <1>2, <2>1
    <3>2. row - (T + G) + j - 1 \in row - (T + G) .. row - G - 1
      BY <1>4, <2>1
    <3>3. At(d, row, row - (T + G) + j - 1) = j
      BY <1>3, <1>4, <3>2
    <3> QED BY <1>1, <3>1, <3>2, <3>3
  <2>2. CASE ~(j <= T)
    <3>1. Nth(d, row, j) = row + G + j - T
      BY <1>2, <2>2
    <3>2. row + G + j - T \in row + G + 1 .. row + (T + G)
      BY <1>4, <2>2
    <3>3. At(d, row, row + G + j - T) = j
      BY <1>3, <1>4, <3>2
    <3> QED BY <1>1, <3>1, <3>2, <3>3
  <2> QED BY <2>1, <2>2
<1>6. ASSUME NEW i \in cells
      PROVE  At(d, row, i) \in 1 .. n /\ Nth(d, row, At(d, row, i)) = i
  <2>1. CASE i \in row - (T + G) .. row - G - 1
    <3>1. At(d, row, i) = i - row + (T + G) + 1
      BY <1>3, <1>4, <2>1
    <3>2. i - row + (T + G) + 1 \in 1 .. T
      BY <1>4, <2>1
    <3>3. Nth(d, row, i - row + (T + G) + 1) = i
      BY <1>2, <1>4, <2>1, <3>2
    <3> QED BY <1>4, <3>1, <3>2, <3>3
  <2>2. CASE i \in row + G + 1 .. row + (T + G)
    <3>1. At(d, row, i) = i - row - G + T
      BY <1>3, <1>4, <2>2
    <3>2. i - row - G + T \in T + 1 .. n
      BY <1>4, <2>2
    <3>3. Nth(d, row, i - row - G + T) = i
      BY <1>2, <1>4, <2>2, <3>2
    <3> QED BY <1>4, <3>1, <3>2, <3>3
  <2> QED BY <1>1, <2>1, <2>2
<1> QED BY <1>5, <1>6 DEF cells, T

\* What the kernel's buffer holds in rank's place after rank + 1 passes is the
\* order statistic of the window.
LEMMA SortedIsStatistic ==
  ASSUME NEW d, Train(d) \in Nat, Guard(d) \in Nat,
         d.rank \in 0 .. 2 * Train(d) - 1, 2 * Train(d) <= MaxOsCells,
         NEW beam \in Beam, NEW row \in Interior(d)
  PROVE  Passes(Gathered(beam, d, row), [pass \in 1 .. d.rank + 1 |-> pass])[d.rank + 1]
           = OrderStatistic(beam, LeadingCells(d, row) \cup LaggingCells(d, row), d.rank)
<1> DEFINE cells == LeadingCells(d, row) \cup LaggingCells(d, row)
           n     == 2 * Train(d)
           r     == d.rank + 1
           pos    == [j \in 1 .. n |-> Nth(d, row, j)]
           of    == [i \in cells |-> At(d, row, i)]
           start == Gathered(beam, d, row)
           t     == Passes(start, [pass \in 1 .. r |-> pass])
<1>0. Border(d) = Train(d) + Guard(d)
  BY DEF Border
<1>1. /\ row \in Int /\ row - Border(d) >= 0 /\ row + Border(d) <= Rows - 1
      /\ n \in Nat /\ r \in 1 .. n /\ r \in 0 .. n /\ d.rank = r - 1 /\ Rows \in Nat
  BY <1>0, DetectorAssumption DEF Interior
<1>2. /\ \A j \in 1 .. n : Nth(d, row, j) \in cells /\ At(d, row, Nth(d, row, j)) = j
      /\ \A i \in cells : At(d, row, i) \in 1 .. n /\ Nth(d, row, At(d, row, i)) = i
  BY <1>1, ScanIsWindow
<1>3. \A i \in cells : i \in 0 .. Rows - 1
  BY <1>0, <1>1 DEF LeadingCells, LaggingCells
<1>4. \A i \in cells : beam[i] \in Nat
  <2>1. \A i \in 0 .. Rows - 1 : beam[i] \in Cells
    BY DEF Beam
  <2> QED BY <1>3, <2>1, DetectorAssumption
<1>5. start = [j \in 1 .. n |-> beam[Nth(d, row, j)]]
  <2>1. Min({2 * Train(d), MaxOsCells}) = 2 * Train(d)
    <3>1. MaxOsCells \in Nat /\ 2 * Train(d) \in Nat
      BY <1>1, DetectorAssumption
    <3> DEFINE a == 2 * Train(d)
    <3>2. a <= MaxOsCells /\ a \in Nat
      BY <3>1
    <3> HIDE DEF a
    <3>3. \A x \in {a, MaxOsCells} : a <= x
      BY <3>1, <3>2
    <3>4. \A x \in {a, MaxOsCells} : (\A y \in {a, MaxOsCells} : x <= y) => x = a
      BY <3>1, <3>2
    <3>5. Min({a, MaxOsCells}) = a
      BY <3>3, <3>4 DEF Min
    <3> QED BY <3>5 DEF a
  <2> QED BY <2>1 DEF Gathered, Nth
<1> HIDE DEF cells, n, r, start
<1>6. pos \in [1 .. n -> cells] /\ \A j \in 1 .. n : pos[j] = Nth(d, row, j)
  BY <1>2
<1>7. of \in [cells -> 1 .. n] /\ \A i \in cells : of[i] = At(d, row, i)
  BY <1>2
<1> HIDE DEF pos, of
<1>8. /\ start \in [1 .. n -> Nat]
      /\ \A j \in 1 .. n : start[j] = beam[pos[j]]
  BY <1>2, <1>4, <1>5, <1>6
<1>9. PlacedUpTo(t, start, n, r)
  BY <1>1, <1>8, SelectionSorts
<1> HIDE DEF t
<1>10. PICK p \in [1 .. n -> 1 .. n], q \in [1 .. n -> 1 .. n] :
         \A j \in 1 .. n : q[p[j]] = j /\ p[q[j]] = j /\ t[j] = start[p[j]]
  BY <1>9 DEF PlacedUpTo
<1> DEFINE pos2 == [j \in 1 .. n |-> pos[p[j]]]
           of2 == [i \in cells |-> q[of[i]]]
<1>11. pos2 \in [1 .. n -> cells] /\ \A j \in 1 .. n : pos2[j] = pos[p[j]]
  BY <1>6
<1>12. of2 \in [cells -> 1 .. n] /\ \A i \in cells : of2[i] = q[of[i]]
  BY <1>7
<1> HIDE DEF pos2, of2
<1>13. ASSUME NEW j \in 1 .. n PROVE of2[pos2[j]] = j /\ t[j] = beam[pos2[j]]
  <2>1. p[j] \in 1 .. n /\ pos[p[j]] \in cells
    BY <1>6
  <2>2. of[pos[p[j]]] = p[j]
    BY <1>2, <1>6, <1>7, <2>1
  <2>3. of2[pos2[j]] = q[of[pos[p[j]]]]
    BY <1>11, <1>12, <2>1
  <2>4. q[p[j]] = j /\ t[j] = start[p[j]]
    BY <1>10
  <2>5. start[p[j]] = beam[pos[p[j]]]
    BY <1>8, <2>1
  <2> QED BY <1>11, <2>2, <2>3, <2>4, <2>5
<1>14. ASSUME NEW i \in cells PROVE pos2[of2[i]] = i
  <2>1. of[i] \in 1 .. n /\ q[of[i]] \in 1 .. n
    BY <1>7
  <2>2. pos2[of2[i]] = pos[p[q[of[i]]]]
    BY <1>11, <1>12, <2>1
  <2>3. p[q[of[i]]] = of[i]
    BY <1>10, <2>1
  <2>4. pos[of[i]] = Nth(d, row, At(d, row, i))
    BY <1>6, <1>7, <2>1
  <2> QED BY <1>2, <2>2, <2>3, <2>4
<1>15. t \in [1 .. n -> Nat] /\ \A i \in 1 .. r : \A j \in i .. n : t[i] <= t[j]
  BY <1>9 DEF PlacedUpTo
<1>16. OrderStatistic(beam, cells, r - 1) = t[r]
  <2>1. r \in 1 .. n /\ n \in Nat
    BY <1>1
  <2>2. pos2 \in [1 .. n -> cells] /\ of2 \in [cells -> 1 .. n]
    BY <1>11, <1>12
  <2>3. /\ \A j \in 1 .. n : of2[pos2[j]] = j /\ t[j] = beam[pos2[j]]
        /\ \A i \in cells : pos2[of2[i]] = i
    BY <1>13, <1>14
  <2>4. Scan(beam, cells, n, r, pos2, of2, t)
    BY <1>15, <2>2, <2>3 DEF Scan
  <2> QED BY <2>1, <2>4, PlacedIsOrderStatistic
<1>17. r = d.rank + 1
  BY DEF r
<1> QED BY <1>1, <1>16, <1>17 DEF t, start, cells

\* The three detectors make the same mask of every image.
LEMMA DetectorsAgree ==
  ASSUME NEW d, NEW alg \in Algs, Train(d) \in Nat, Guard(d) \in Nat,
         d.rank \in 0 .. 2 * Train(d) - 1
  PROVE  Agrees(d, alg)
<1> SUFFICES ASSUME NEW beam \in Beam,
                    NEW deviceWorks \in BOOLEAN, NEW eightBit \in BOOLEAN
             PROVE  Detect(beam, d, alg, deviceWorks, eightBit) = Window(beam, d, alg)
  BY DEF Agrees
<1>1. ASSUME alg # "OS" PROVE Kernel(beam, d, alg) = Window(beam, d, alg)
  BY <1>1 DEF Kernel, Window
<1>2. ASSUME alg = "OS", Takes(d, alg) PROVE Kernel(beam, d, alg) = Window(beam, d, alg)
  <2>1. 2 * Train(d) <= MaxOsCells
    BY <1>2 DEF Takes
  <2> DEFINE S(row) == Passes(Gathered(beam, d, row), [pass \in 1 .. d.rank + 1 |-> pass])[d.rank + 1]
             W(row) == OrderStatistic(beam, LeadingCells(d, row) \cup LaggingCells(d, row), d.rank)
  <2>2. \A row \in Interior(d) : S(row) = W(row)
    BY <2>1, SortedIsStatistic
  <2>3. Kernel(beam, d, alg) = {row \in Interior(d) : Hit(beam[row], S(row), d, alg)}
    BY <1>2 DEF Kernel, Passes
  <2>4. Window(beam, d, alg) = {row \in Interior(d) : Hit(beam[row], W(row), d, alg)}
    BY <1>2 DEF Window
  <2> HIDE DEF S, W
  <2> QED BY <2>2, <2>3, <2>4
<1>3. ASSUME alg # "OS" PROVE Prefix(beam, d, alg) = Window(beam, d, alg)
  <2> DEFINE P == PrefixSums(beam)
             L(row) == SumOver(beam, LeadingCells(d, row))
             R(row) == SumOver(beam, LaggingCells(d, row))
             PL(row) == P[row - Guard(d)] - P[row - Border(d)]
             PR(row) == P[row + Border(d) + 1] - P[row + Guard(d) + 1]
  <2>1. ASSUME NEW row \in Interior(d) PROVE L(row) = PL(row) /\ R(row) = PR(row)
    <3>1. Border(d) = Train(d) + Guard(d) /\ Border(d) \in Nat /\ Rows \in Nat
      BY DetectorAssumption DEF Border
    <3>2. row \in Int /\ row - Border(d) >= 0 /\ row + Border(d) <= Rows - 1
      BY <3>1 DEF Interior
    <3>3. /\ row - Border(d) \in Int /\ row - Guard(d) - 1 \in Int
          /\ 0 <= row - Border(d) /\ row - Border(d) <= (row - Guard(d) - 1) + 1
          /\ row - Guard(d) - 1 < Rows /\ (row - Guard(d) - 1) + 1 = row - Guard(d)
      BY <3>1, <3>2
    <3>4. /\ row + Guard(d) + 1 \in Int /\ row + Border(d) \in Int
          /\ 0 <= row + Guard(d) + 1 /\ row + Guard(d) + 1 <= (row + Border(d)) + 1
          /\ row + Border(d) < Rows
      BY <3>1, <3>2
    <3>5. L(row) = P[(row - Guard(d) - 1) + 1] - P[row - Border(d)]
      BY <3>3, PrefixDifference DEF LeadingCells
    <3>6. R(row) = P[(row + Border(d)) + 1] - P[row + Guard(d) + 1]
      BY <3>4, PrefixDifference DEF LaggingCells
    <3> QED BY <3>3, <3>5, <3>6
  <2>2. Prefix(beam, d, alg)
          = {row \in Interior(d) : Hit(beam[row], Combined(alg, PL(row), PR(row)), d, alg)}
    BY DEF Prefix
  <2>3. Window(beam, d, alg)
          = {row \in Interior(d) : Hit(beam[row], Combined(alg, L(row), R(row)), d, alg)}
    BY <1>3 DEF Window
  <2> HIDE DEF L, R, PL, PR
  <2> QED BY <2>1, <2>2, <2>3
<1> QED BY <1>1, <1>2, <1>3 DEF Detect, Takes

----------------------------------------------------------------------------

DetectorNames == {"Ntc", "Ngc", "Pfa", "rank"}

\* What the node works with was given to it, and makes a detector.
TunedInv ==
  /\ TuningInv /\ Buildable(members) /\ members["alg"] \in Algs
  /\ \A n \in DetectorNames : members[n] \in Given(n)

LEMMA InitTunedInv == Init => TunedInv
<1> SUFFICES ASSUME Init PROVE TunedInv
  OBVIOUS
<1>1. TuningInv
  BY InitTuningInv
<1>2. members = AsMembers(Startup)
  BY DEF Init, TuningInit
<1>3. Buildable(members)
  BY <1>2, TuningAssumption
<1>4. members["alg"] = Startup["alg"]
  BY <1>2, TuningAssumption DEF AsMembers, Names
<1>5. \A n \in DetectorNames : members[n] \in Given(n)
  BY <1>2 DEF Given
<1> QED BY <1>1, <1>3, <1>4, <1>5, NodeAssumption DEF TunedInv

LEMMA NextTunedInv == TunedInv /\ [Next]_vars => TunedInv'
<1> SUFFICES ASSUME TunedInv, [Next]_vars PROVE TunedInv'
  OBVIOUS
<1>1. TuningInv'
  BY NextTuningInv DEF TunedInv
<1>2. CASE members' = members
  BY <1>1, <1>2 DEF TunedInv, Buildable, RankOf
<1>3. ASSUME NEW request \in Requests, Accepted(request),
             members' = Staged(request)
      PROVE  TunedInv'
  <2> DEFINE m == Staged(request)
  <2>1. \A n \in Names : m[n] = IF n \in DOMAIN request THEN AsMembers(request)[n]
                                                        ELSE members[n]
    BY DEF Staged, Overlay, AsMembers
  <2>2. DetectorNames \subseteq Names /\ "alg" \in Names
    BY DEF DetectorNames, Names
  <2> HIDE DEF m
  <2>3. m["alg"] \in Algs
    <3>1. CASE "alg" \in DOMAIN request
      <4>1. m["alg"] = request["alg"]
        BY <2>1, <2>2, <3>1 DEF AsMembers
      <4> QED BY <1>3, <3>1, <4>1, NodeAssumption DEF Accepted
    <3>2. CASE "alg" \notin DOMAIN request
      BY <2>1, <2>2, <3>2 DEF TunedInv
    <3> QED BY <3>1, <3>2
  <2>4. ASSUME NEW n \in DetectorNames PROVE m[n] \in Given(n)
    <3>1. CASE n \in DOMAIN request
      BY <2>1, <2>2, <3>1 DEF Given
    <3>2. CASE n \notin DOMAIN request
      BY <2>1, <2>2, <3>2 DEF TunedInv
    <3> QED BY <3>1, <3>2
  <2>5. Buildable(m)
    <3>1. CASE Rebuilds(request)
      BY <1>3, <3>1 DEF Accepted, m
    <3>2. CASE ~Rebuilds(request)
      <4>1. \A n \in DetectorNames : m[n] = members[n]
        BY <2>1, <2>2, <3>2 DEF Rebuilds, DetectorNames
      <4> QED BY <4>1 DEF TunedInv, Buildable, RankOf, DetectorNames
    <3> QED BY <3>1, <3>2
  <2> QED BY <1>1, <1>3, <2>3, <2>4, <2>5 DEF TunedInv, m
<1>4. CASE [Next]_vars
  <2>1. CASE UNCHANGED tuningVars
    BY <1>2, <2>1 DEF tuningVars
  <2>2. ASSUME NEW request \in Requests, SetParameters(request) PROVE TunedInv'
    BY <1>2, <1>3, <2>2 DEF SetParameters
  <2> QED BY <2>1, <2>2 DEF Next, vars
<1> QED BY <1>4

\* Whatever sequence of requests an operator makes, refused ones included, the
\* detector the node ends up with makes the same mask of every image on the
\* processor, from the prefix sums and on the device: for every number of range
\* bins, every intensity, every threshold and every buffer of the kernel.  It
\* takes Ngc not to be negative, which CFAR's constructor does not ask: with a
\* negative one the two halves of the window overlap.
THEOREM TwinsNeverPart ==
  ASSUME \A n \in Given("Ngc") : n >= 0
  PROVE  Spec => []TwinsAgree
<1>1. TunedInv => TwinsAgree
  <2> SUFFICES ASSUME TunedInv PROVE TwinsAgree
    OBVIOUS
  <2> DEFINE p == [Ntc |-> members["Ntc"], Ngc |-> members["Ngc"],
                   Pfa |-> members["Pfa"], rank |-> members["rank"]]
  <2>1. /\ p.Ntc \in Given("Ntc") /\ p.Ngc \in Given("Ngc")
        /\ p.Pfa \in Given("Pfa") /\ p.rank \in Given("rank")
    BY DEF TunedInv, DetectorNames
  <2>2. RankOf(p) = RankOf(members) /\ Built(p) = Built(members)
    BY DEF RankOf, Built
  <2>3. Buildable(p) /\ detector = Built(p)
    BY <2>2 DEF TunedInv, TuningInv, TuningIsAtomic, Buildable
  <2>4. p.Ntc \in Int /\ p.Ngc \in Int /\ p.Ngc >= 0 /\ p.rank \in Int
    <3>1. ASSUME NEW v \in Int PROVE AsInt(v) \in Int
      BY DEF AsInt
    <3>2. ASSUME NEW name \in {"Ntc", "Ngc", "rank"} PROVE Given(name) \subseteq Int
      <4>1. ASSUME NEW q, name \in DOMAIN q, q[name] \in Int
            PROVE  AsMembers(q)[name] \in Int
        BY <3>1, <4>1 DEF AsMembers
      <4>2. name \in DOMAIN Startup
        BY TuningAssumption DEF Names
      <4> QED BY <4>1, <4>2, NodeAssumption DEF Given
    <3> QED BY <2>1, <3>2
  <2>5. p \in [Ntc : Given("Ntc"), Ngc : Given("Ngc"), Pfa : Given("Pfa"), rank : Given("rank")]
    BY <2>1
  <2> HIDE DEF p
  <2>6. /\ Train(detector) \in Nat /\ Guard(detector) \in Nat
        /\ detector.rank \in 0 .. 2 * Train(detector) - 1
    <3>1. detector.Ntc = p.Ntc /\ detector.Ngc = p.Ngc /\ detector.rank = RankOf(p)
      BY <2>3 DEF Built
    <3>2. p.Ntc % 2 = 0 /\ RankOf(p) \in 0 .. p.Ntc - 1
      BY <2>3 DEF Buildable
    <3>3. p.Ntc >= 1 /\ 2 * (p.Ntc \div 2) = p.Ntc /\ p.Ntc \div 2 \in Nat /\ p.Ngc \div 2 \in Nat
      BY <2>4, <3>2
    <3> QED BY <3>1, <3>2, <3>3 DEF Train, Guard
  <2>7. Agrees(detector, members["alg"]) /\ members["alg"] \in Algs
    BY <2>6, DetectorsAgree DEF TunedInv
  <2>8. detector \in Describable
    BY <2>3, <2>5 DEF Describable
  <2> DEFINE u == [d |-> detector, alg |-> members["alg"]]
  <2>9. u \in {v \in [d : Describable, alg : Algs] : Agrees(v.d, v.alg)}
    BY <2>7, <2>8
  <2>10. <<detector, members["alg"]>> = <<u.d, u.alg>>
    OBVIOUS
  <2> HIDE DEF u
  <2> QED BY <2>9, <2>10 DEF TwinsAgree, Agreeing
<1> QED BY <1>1, InitTunedInv, NextTunedInv, PTL DEF Spec

----------------------------------------------------------------------------
(***************************************************************************)
(* For any number of consumers, geometries, addresses and rebuilds: no     *)
(* image is sampled through a mixture of maps or through memory nobody     *)
(* uploaded, and a consumer that has the device to itself samples through  *)
(* the maps of its own ping.                                               *)
(*                                                                         *)
(* The host's part of the argument: buffers in use are never handed out,   *)
(* so a consumer's maps are those of its geometry.  The device's part: a   *)
(* key that is not void stands for a pair of maps, and a version that no   *)
(* other consumer can have counts the rebuilds of the only one there is.   *)
(***************************************************************************)

\* Nobody but c has ever built maps.
Alone(c) == \A d \in Consumers \ {c} : version[d] = 0

HostType ==
  /\ geom \in [Consumers -> Geometry \cup {Null}]
  /\ maps \in [Consumers -> Places \cup {Null}]
  /\ version \in [Consumers -> Nat]
  /\ heap \in [Addresses -> Content \cup {Null}]

\* A consumer either has built maps or has none, its maps are those of its
\* geometry, and no buffer serves twice.
HostInv ==
  /\ HostType
  /\ \A c \in Consumers :
       /\ geom[c] # Null => version[c] > 0 /\ maps[c] # Null
       /\ maps[c] # Null => /\ geom[c] # Null /\ maps[c].x # maps[c].y
                            /\ heap[maps[c].x] = Pair(geom[c]).x
                            /\ heap[maps[c].y] = Pair(geom[c]).y
  /\ \A c, d \in Consumers : c # d /\ maps[c] # Null /\ maps[d] # Null =>
       {maps[c].x, maps[c].y} \cap {maps[d].x, maps[d].y} = {}

\* A consumer in its callback has the maps of its ping; between callbacks no
\* image is left.
CallInv ==
  /\ DOMAIN at = Consumers /\ DOMAIN ping = Consumers /\ DOMAIN image = Consumers
  /\ \A c \in Consumers :
       IF at[c] = "idle" THEN image[c] = Null
                         ELSE ping[c] = geom[c] /\ geom[c] \in Geometry

\* A key that is not void is that of a pair of maps that fit; it is not newer
\* than the maps of a consumer that is alone, and if it is of the same version
\* the pair is its own.
KeyInv ==
  /\ key \in [version : Nat \cup {-1}, size : Nat,
              x : Addresses \cup {Null}, y : Addresses \cup {Null}]
  /\ capacity \in Nat
  /\ key.version # -1 =>
       /\ key.size <= capacity
       /\ \E g \in Geometry : device = Pair(g)
       /\ \A c \in Consumers : Alone(c) =>
            /\ key.version <= version[c]
            /\ key.version = version[c] => device = Pair(geom[c])

CacheInv == HostInv /\ CallInv /\ KeyInv /\ SampledAsBuilt

----------------------------------------------------------------------------

LEMMA CacheInit == HostInit => CacheInv
BY CacheAssumption
DEF HostInit, CacheInv, HostInv, HostType, CallInv, KeyInv, NoKey, SampledAsBuilt

\* What the host of a consumer in its callback holds.
LEMMA HostHasPair ==
  ASSUME HostInv, CallInv, NEW c \in Consumers, at[c] # "idle"
  PROVE  /\ HostMaps(c) = Pair(geom[c]) /\ geom[c] \in Geometry /\ ping[c] = geom[c]
         /\ version[c] \in Nat /\ version[c] > 0 /\ Size(c) \in Nat
         /\ maps[c].x \in Addresses /\ maps[c].y \in Addresses
<1>1. geom[c] \in Geometry /\ ping[c] = geom[c]
  BY DEF CallInv
<1>2. geom[c] # Null
  BY <1>1, CacheAssumption
<1>3. version[c] \in Nat /\ version[c] > 0 /\ maps[c] # Null
  BY <1>2 DEF HostInv, HostType
<1>4. maps[c] \in Places /\ HostMaps(c) = Pair(geom[c])
  BY <1>3 DEF HostInv, HostType, HostMaps, Pair
<1>5. Size(c) \in Nat
  BY <1>1, CacheAssumption DEF Size, Geometry
<1> QED BY <1>1, <1>3, <1>4, <1>5 DEF Places

----------------------------------------------------------------------------
(* The host's steps.                                                       *)

LEMMA HitKeeps ==
  ASSUME CacheInv, NEW c \in Consumers, NEW g \in Geometry, CacheHit(c, g)
  PROVE  CacheInv'
<1>1. HostInv' /\ KeyInv'
  BY DEF CacheInv, HostInv, HostType, KeyInv, Alone, CacheHit, host, gpu
<1>2. CallInv'
  BY DEF CacheInv, CallInv, CacheHit, host
<1>3. image[c] = Null /\ image' = image /\ version' = version
  BY DEF CacheInv, CallInv, CacheHit, host
<1>4. \A d \in Consumers : d # c => ping'[d] = ping[d]
  BY DEF CacheInv, CallInv, CacheHit
<1>5. SampledAsBuilt'
  BY <1>3, <1>4 DEF CacheInv, SampledAsBuilt
<1> QED BY <1>1, <1>2, <1>5 DEF CacheInv

LEMMA ReturnKeeps ==
  ASSUME CacheInv, NEW c \in Consumers, Return(c)
  PROVE  CacheInv'
<1>1. HostInv' /\ KeyInv'
  BY DEF CacheInv, HostInv, HostType, KeyInv, Alone, Return, host, gpu
<1>2. CallInv'
  BY DEF CacheInv, CallInv, Return, host
<1>3. image'[c] = Null /\ version' = version
  BY DEF CacheInv, CallInv, Return, host
<1>4. \A d \in Consumers : d # c => ping'[d] = ping[d] /\ image'[d] = image[d]
  BY DEF CacheInv, CallInv, Return
<1>5. SampledAsBuilt'
  BY <1>3, <1>4 DEF CacheInv, SampledAsBuilt
<1> QED BY <1>1, <1>2, <1>5 DEF CacheInv

LEMMA EnterKeeps ==
  ASSUME CacheInv, NEW c \in Consumers, Enter(c)
  PROVE  CacheInv'
<1>1. HostInv' /\ KeyInv'
  BY DEF CacheInv, HostInv, HostType, KeyInv, Alone, Enter, host, gpu
<1>2. CallInv'
  BY DEF CacheInv, CallInv, Enter, host
<1>3. SampledAsBuilt'
  BY DEF CacheInv, SampledAsBuilt, Enter, host
<1> QED BY <1>1, <1>2, <1>3 DEF CacheInv

\* New maps go to buffers that are free, so nobody else's are touched.
LEMMA RebuildKeeps ==
  ASSUME CacheInv, NEW c \in Consumers, NEW g \in Geometry,
         NEW x \in Addresses, NEW y \in Addresses, Rebuild(c, g, x, y)
  PROVE  CacheInv'
<1>1. /\ x # y /\ heap[x] = Null /\ heap[y] = Null /\ at[c] = "idle"
      /\ heap' = [a \in Addresses |->
                    CASE a = x -> Pair(g).x [] a = y -> Pair(g).y
                      [] maps[c] # Null /\ a \in {maps[c].x, maps[c].y} -> Null
                      [] OTHER -> heap[a]]
      /\ maps' = [maps EXCEPT ![c] = [x |-> x, y |-> y]]
      /\ geom' = [geom EXCEPT ![c] = g]
      /\ version' = [version EXCEPT ![c] = @ + 1]
      /\ at' = [at EXCEPT ![c] = "remap"]
      /\ ping' = [ping EXCEPT ![c] = g]
      /\ UNCHANGED <<gpu, image>>
  BY DEF Rebuild
<1>2. /\ [x |-> x, y |-> y] \in Places /\ [x |-> x, y |-> y] # Null /\ g # Null
      /\ Pair(g).x \in Content /\ Pair(g).y \in Content
  BY CacheAssumption DEF Places, Content, Pair
<1>3. HostType'
  <2>1. heap' \in [Addresses -> Content \cup {Null}]
    <3>1. ASSUME NEW a \in Addresses PROVE heap'[a] \in Content \cup {Null}
      BY <1>1, <1>2 DEF CacheInv, HostInv, HostType
    <3> QED BY <1>1, <3>1
  <2>2. version' \in [Consumers -> Nat]
    BY <1>1 DEF CacheInv, HostInv, HostType
  <2>3. geom' \in [Consumers -> Geometry \cup {Null}]
    BY <1>1 DEF CacheInv, HostInv, HostType
  <2>4. maps' \in [Consumers -> Places \cup {Null}]
    BY <1>1, <1>2 DEF CacheInv, HostInv, HostType
  <2> QED BY <2>1, <2>2, <2>3, <2>4 DEF HostType
<1>4. /\ geom'[c] = g /\ maps'[c] = [x |-> x, y |-> y] /\ version'[c] = version[c] + 1
      /\ version[c] \in Nat /\ heap'[x] = Pair(g).x /\ heap'[y] = Pair(g).y
      /\ ping'[c] = g /\ at'[c] = "remap"
  <2>1. maps[c] # Null => {x, y} \cap {maps[c].x, maps[c].y} = {}
    <3> SUFFICES ASSUME maps[c] # Null
                 PROVE  {x, y} \cap {maps[c].x, maps[c].y} = {}
      OBVIOUS
    <3>1. geom[c] \in Geometry
      BY DEF CacheInv, HostInv, HostType
    <3>2. Pair(geom[c]).x \in Content /\ Pair(geom[c]).y \in Content
      BY <3>1 DEF Content, Pair
    <3>3. heap[maps[c].x] # Null /\ heap[maps[c].y] # Null
      BY <3>2, CacheAssumption DEF CacheInv, HostInv
    <3> QED BY <1>1, <3>3
  <2>2. heap'[x] = Pair(g).x /\ heap'[y] = Pair(g).y
    BY <1>1, <2>1
  <2> QED BY <1>1, <2>2 DEF CacheInv, HostInv, HostType, CallInv
<1>5. ASSUME NEW d \in Consumers, d # c
      PROVE  /\ geom'[d] = geom[d] /\ maps'[d] = maps[d] /\ version'[d] = version[d]
             /\ at'[d] = at[d] /\ ping'[d] = ping[d]
  BY <1>1, <1>5 DEF CacheInv, HostInv, HostType, CallInv
\* The buffers of the others are in use.
<1>6. ASSUME NEW d \in Consumers, d # c, maps[d] # Null
      PROVE  /\ maps[d] \in Places /\ geom[d] \in Geometry
             /\ maps[d].x \notin {x, y} /\ maps[d].y \notin {x, y}
             /\ heap'[maps[d].x] = heap[maps[d].x] /\ heap'[maps[d].y] = heap[maps[d].y]
  <2>1. maps[d] \in Places /\ geom[d] \in Geometry
    BY <1>6 DEF CacheInv, HostInv, HostType
  <2>2. Pair(geom[d]).x \in Content /\ Pair(geom[d]).y \in Content
    BY <2>1 DEF Content, Pair
  <2>3. heap[maps[d].x] # Null /\ heap[maps[d].y] # Null
    BY <1>6, <2>2, CacheAssumption DEF CacheInv, HostInv
  <2>4. maps[d].x \notin {x, y} /\ maps[d].y \notin {x, y}
    BY <1>1, <2>3
  <2>5. maps[c] # Null => {maps[c].x, maps[c].y} \cap {maps[d].x, maps[d].y} = {}
    BY <1>6 DEF CacheInv, HostInv
  <2>6. maps[d].x \in Addresses /\ maps[d].y \in Addresses
    BY <2>1 DEF Places
  <2> QED BY <1>1, <2>1, <2>4, <2>5, <2>6
<1>7. HostInv'
  <2>1. ASSUME NEW d \in Consumers
        PROVE  /\ geom'[d] # Null => version'[d] > 0 /\ maps'[d] # Null
               /\ maps'[d] # Null => /\ geom'[d] # Null /\ maps'[d].x # maps'[d].y
                                     /\ heap'[maps'[d].x] = Pair(geom'[d]).x
                                     /\ heap'[maps'[d].y] = Pair(geom'[d]).y
    <3>1. CASE d = c
      BY <1>1, <1>2, <1>4, <3>1
    <3>2. CASE d # c
      BY <1>5, <1>6, <3>2 DEF CacheInv, HostInv
    <3> QED BY <3>1, <3>2
  <2>2. ASSUME NEW d \in Consumers, NEW e \in Consumers, d # e,
               maps'[d] # Null, maps'[e] # Null
        PROVE  {maps'[d].x, maps'[d].y} \cap {maps'[e].x, maps'[e].y} = {}
    <3>1. CASE d = c
      BY <1>4, <1>5, <1>6, <2>2, <3>1
    <3>2. CASE e = c
      BY <1>4, <1>5, <1>6, <2>2, <3>2
    <3>3. CASE d # c /\ e # c
      BY <1>5, <2>2, <3>3 DEF CacheInv, HostInv
    <3> QED BY <3>1, <3>2, <3>3
  <2> QED BY <1>3, <2>1, <2>2 DEF HostInv
<1>8. CallInv'
  <2>1. ASSUME NEW d \in Consumers
        PROVE  IF at'[d] = "idle" THEN image'[d] = Null
                                  ELSE ping'[d] = geom'[d] /\ geom'[d] \in Geometry
    BY <1>1, <1>4, <1>5 DEF CacheInv, CallInv
  <2> QED BY <1>1, <2>1 DEF CacheInv, CallInv
<1>9. KeyInv'
  <2>1. UNCHANGED <<key, device, capacity>>
    BY <1>1 DEF gpu
  <2>2. ASSUME key.version # -1, NEW d \in Consumers, Alone(d)'
        PROVE  /\ key.version <= version'[d]
               /\ key.version = version'[d] => device = Pair(geom'[d])
    <3>1. d = c
      BY <1>4, <2>2 DEF Alone
    <3>2. Alone(c)
      BY <1>5, <2>2, <3>1 DEF Alone
    <3>3. key.version \in Int /\ key.version <= version[c]
      BY <2>2, <3>2 DEF CacheInv, KeyInv
    <3> QED BY <1>4, <3>1, <3>3
  <2> QED BY <2>1, <2>2 DEF CacheInv, KeyInv
<1>10. SampledAsBuilt'
  <2>1. image' = image /\ image[c] = Null
    BY <1>1 DEF CacheInv, CallInv
  <2>2. ASSUME NEW d \in Consumers, d # c, Alone(d)' PROVE FALSE
    BY <1>4, <2>2 DEF Alone
  <2> QED BY <2>1, <2>2 DEF CacheInv, SampledAsBuilt, Alone
<1> QED BY <1>7, <1>8, <1>9, <1>10 DEF CacheInv

----------------------------------------------------------------------------
(* The steps of remap_u8.                                                  *)

\* An image through maps that are a pair, and if the consumer is alone its own.
LEMMA ImageKeeps ==
  ASSUME CacheInv, NEW c \in Consumers, NEW through, at[c] # "idle",
         \E g \in Geometry : through = Pair(g),
         Alone(c) => through = Pair(geom[c]),
         image' = [image EXCEPT ![c] = through],
         at' = [at EXCEPT ![c] = "remap"], UNCHANGED <<host, ping>>
  PROVE  HostInv' /\ CallInv' /\ SampledAsBuilt'
<1>1. HostInv'
  BY DEF CacheInv, HostInv, HostType, host
<1>2. CallInv'
  BY DEF CacheInv, CallInv, host
<1>3. SampledAsBuilt'
  <2>1. image'[c] = through /\ ping[c] = geom[c] /\ version' = version
    BY DEF CacheInv, CallInv, host
  <2>2. \A d \in Consumers : d # c => image'[d] = image[d]
    BY DEF CacheInv, CallInv
  <2> QED BY <2>1, <2>2 DEF CacheInv, SampledAsBuilt, Alone
<1> QED BY <1>1, <1>2, <1>3

LEMMA OnHostKeeps ==
  ASSUME CacheInv, NEW c \in Consumers, at[c] # "idle", OnHost(c)
  PROVE  HostInv' /\ CallInv' /\ SampledAsBuilt'
BY HostHasPair, ImageKeeps DEF CacheInv, OnHost

LEMMA DisabledKeeps ==
  ASSUME CacheInv, NEW c \in Consumers, Disabled(c)
  PROVE  CacheInv'
<1>1. HostInv' /\ CallInv' /\ SampledAsBuilt'
  BY OnHostKeeps DEF Disabled
<1>2. KeyInv'
  BY DEF CacheInv, KeyInv, Alone, Disabled, OnHost, host, gpu
<1> QED BY <1>1, <1>2 DEF CacheInv

LEMMA OutOfMemoryKeeps ==
  ASSUME CacheInv, NEW c \in Consumers, OutOfMemory(c)
  PROVE  CacheInv'
<1>1. HostInv' /\ CallInv' /\ SampledAsBuilt'
  BY OnHostKeeps DEF OutOfMemory
<1>2. KeyInv'
  BY DEF CacheInv, KeyInv, OutOfMemory
<1> QED BY <1>1, <1>2 DEF CacheInv

LEMMA UploadFailsKeeps ==
  ASSUME CacheInv, NEW c \in Consumers, UploadFails(c)
  PROVE  CacheInv'
<1>1. HostInv' /\ CallInv' /\ SampledAsBuilt'
  BY OnHostKeeps DEF UploadFails
<1>2. Size(c) \in Nat
  BY HostHasPair DEF CacheInv, UploadFails
<1>3. KeyInv'
  BY <1>2 DEF CacheInv, KeyInv, UploadFails
<1> QED BY <1>1, <1>3 DEF CacheInv

\* A hit on the key finds the pair it stands for; anything else uploads one.
LEMMA SampleKeeps ==
  ASSUME CacheInv, NEW c \in Consumers, SampleFrame(c)
  PROVE  CacheInv'
<1>1. /\ HostMaps(c) = Pair(geom[c]) /\ geom[c] \in Geometry /\ ping[c] = geom[c]
      /\ version[c] \in Nat /\ version[c] > 0 /\ Size(c) \in Nat
      /\ maps[c].x \in Addresses /\ maps[c].y \in Addresses
  BY HostHasPair DEF CacheInv, SampleFrame
<1>2. /\ \E g \in Geometry : device' = Pair(g)
      /\ Alone(c) => device' = Pair(geom[c])
  <2>1. CASE Cached(c)
    <3>1. key.version = version[c] /\ key.size = Size(c)
      BY <2>1 DEF Cached
    <3>2. key.version # -1 /\ ~(Size(c) > capacity)
      BY <1>1, <3>1 DEF CacheInv, KeyInv
    <3>3. device' = device
      BY <2>1, <3>2 DEF SampleFrame, Ensured
    <3> QED BY <3>1, <3>2, <3>3 DEF CacheInv, KeyInv
  <2>2. CASE ~Cached(c)
    BY <1>1, <2>2 DEF SampleFrame
  <2> QED BY <2>1, <2>2
<1>3. HostInv' /\ CallInv' /\ SampledAsBuilt'
  <2>1. CASE OnHost(c)
    BY <2>1, OnHostKeeps DEF SampleFrame
  <2>2. CASE ~OnHost(c)
    BY <1>2, <2>2, ImageKeeps DEF SampleFrame
  <2> QED BY <2>1, <2>2
<1>4. KeyInv'
  <2>1. /\ key' = [version |-> version[c], size |-> Size(c),
                   x |-> maps[c].x, y |-> maps[c].y]
        /\ capacity' \in Nat /\ Size(c) <= capacity'
    BY <1>1 DEF SampleFrame, CacheInv, KeyInv
  <2>2. UNCHANGED <<version, geom>>
    BY DEF SampleFrame, OnHost, host
  <2>3. ASSUME NEW d \in Consumers, Alone(d)' PROVE d = c /\ Alone(c)
    BY <1>1, <2>2, <2>3 DEF Alone
  <2> QED BY <1>1, <1>2, <2>1, <2>2, <2>3 DEF KeyInv
<1> QED BY <1>3, <1>4 DEF CacheInv

----------------------------------------------------------------------------

\* Whatever fails where, whichever buffers recur and whoever else is in the
\* wrapper: every image went through one pair of maps, and through that of its
\* own ping if nobody else has the device.
THEOREM FailuresDoNotCorrupt == HostSpec => []SampledAsBuilt
<1>1. CacheInv /\ [HostNext]_hostVars => CacheInv'
  <2> SUFFICES ASSUME CacheInv, [HostNext]_hostVars PROVE CacheInv'
    OBVIOUS
  <2>1. CASE UNCHANGED hostVars
    BY <2>1
    DEF hostVars, CacheInv, HostInv, HostType, CallInv, KeyInv, Alone, SampledAsBuilt
  <2>2. ASSUME NEW c \in Consumers, NEW g \in Geometry, CacheHit(c, g) \/ Oversized(c, g)
        PROVE  CacheInv'
    BY <2>1, <2>2, HitKeeps DEF Oversized
  <2>3. ASSUME NEW c \in Consumers,
               \/ Return(c) \/ Enter(c) \/ Disabled(c)
               \/ OutOfMemory(c) \/ UploadFails(c) \/ SampleFrame(c)
        PROVE  CacheInv'
    BY <2>3, ReturnKeeps, EnterKeeps, DisabledKeeps, OutOfMemoryKeeps,
       UploadFailsKeeps, SampleKeeps
  <2> QED BY <2>1, <2>2, <2>3, RebuildKeeps DEF HostNext
<1>2. CacheInv => SampledAsBuilt
  BY DEF CacheInv
<1> QED BY <1>1, <1>2, CacheInit, PTL DEF HostSpec

===============================================================================
