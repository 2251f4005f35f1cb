----------------------------- MODULE FeatureGate -----------------------------
(***************************************************************************)
(* The head-pitch gate of src/nodes/feature_extraction_node.cpp.  A frame  *)
(* taken while the sonar head sweeps must not reach the planar SLAM; the   *)
(* head's angle comes on a stream of its own, without stamps, and either   *)
(* stream may be late.                                                     *)
(*                                                                         *)
(* The angle is within max_head_pitch_ (level) or beyond it (steep); what  *)
(* is interpolated between one of each may be either.  Detection and the   *)
(* clouds are left out: a ping is answered with its cloud, with the NaN    *)
(* sentinel, or, if it is malformed, not at all.                           *)
(***************************************************************************)
EXTENDS Integers, Sequences, FiniteSetsExt

CONSTANTS
  TiltBufMax,   \* kTiltBufMax
  Slack,        \* kDomainSlackNs, in ticks
  TiltLate,     \* a tilt sample arrives at most this late
  TiltGap,      \* and at most this long after the one before it was measured
  PingLate,     \* a ping is handled at most this late
  Horizon,      \* bound on stamps
  MaxRewinds    \* bound on bag loops

ASSUME GateAssumption ==
  /\ TiltBufMax \in Nat \ {0} /\ Slack \in Nat /\ TiltLate \in Nat
  /\ TiltGap \in Nat \ {0} /\ PingLate \in Nat /\ Horizon \in Nat
  /\ MaxRewinds \in Nat

VARIABLES
  now,      \* the node's clock
  head,     \* the angle of the head at every tick of this pass so far
  tiltBuf,  \* tilt_buf_: arrival, angle, and the pass it is from
  lastTilt, \* when the newest sample of this pass was measured, -1 if none
  verdict,  \* the newest ping of this pass, and what became of it
  rewinds   \* bag loops so far

gateVars == <<now, head, tiltBuf, lastTilt, verdict, rewinds>>

Stamp  == 0 .. Horizon
Angle  == {"level", "steep"}
Sample == [t : Stamp, angle : Angle, pass : 0 .. MaxRewinds]

Answer == {"cloud", "sentinel", "none"}

NoVerdict == [t |-> -1, covered |-> FALSE, gated |-> FALSE, answer |-> "none"]

GateInit ==
  /\ now = 0 /\ head \in [{0} -> Angle]
  /\ tiltBuf = <<>> /\ lastTilt = -1 /\ verdict = NoVerdict /\ rewinds = 0

----------------------------------------------------------------------------
(* The tilt stream: the subscription in the constructor.                   *)

\* Mutant: the buffer is not emptied when the clock jumps back.
BufferedAlways(sample) ==
  LET buf == Append(tiltBuf, sample)
  IN  IF Len(buf) > TiltBufMax THEN Tail(buf) ELSE buf

\* The sample is stamped on arrival; time that went back empties the buffer.
Buffered(sample) ==
  LET restart == tiltBuf # <<>> /\ sample.t < tiltBuf[Len(tiltBuf)].t
      buf     == Append(IF restart THEN <<>> ELSE tiltBuf, sample)
  IN  IF Len(buf) > TiltBufMax THEN Tail(buf) ELSE buf

\* The samples arrive in the order they were measured in.  Arrivals are in
\* nanoseconds: a new pass does not hit the last of the old one exactly.
Tilt(measured) ==
  /\ lastTilt < measured /\ measured <= now /\ now - measured <= TiltLate
  /\ \A i \in DOMAIN tiltBuf : tiltBuf[i].pass # rewinds => tiltBuf[i].t # now
  /\ lastTilt' = measured
  /\ tiltBuf' = Buffered([t |-> now, angle |-> head[measured], pass |-> rewinds])
  /\ UNCHANGED <<now, head, verdict, rewinds>>

----------------------------------------------------------------------------
(* callback: the ping stream.                                              *)

\* Mutant: the latest value, whatever the stamp of the ping.
TiltAtLatest(t) ==
  IF tiltBuf = <<>> THEN {"level"} ELSE {tiltBuf[Len(tiltBuf)].angle}

\* tilt_at: level without samples; the newest if the clocks disagree; the
\* nearest end; a sample that hits t, or between the two around it.
TiltAt(t) ==
  LET first == tiltBuf[1]
      last  == tiltBuf[Len(tiltBuf)]
      hi    == Min({i \in DOMAIN tiltBuf : tiltBuf[i].t >= t})
  IN  IF tiltBuf = <<>> THEN {"level"}
      ELSE IF t + Slack < first.t \/ t > last.t + Slack THEN {last.angle}
      ELSE IF t <= first.t THEN {first.angle}
      ELSE IF t >= last.t THEN {last.angle}
      ELSE IF tiltBuf[hi].t = t THEN {tiltBuf[hi].angle}
      ELSE {tiltBuf[hi - 1].angle, tiltBuf[hi].angle}

\* Does the buffer reach back to t, with samples of this pass?
Covers(t) ==
  \E i \in DOMAIN tiltBuf : tiltBuf[i].t <= t /\ tiltBuf[i].pass = rewinds

\* A ping that is skipped, or taken while the head is steep, is answered with
\* the sentinel; a malformed one is dropped, unless it is skipped before.
\* Skips says whether a ping may be skipped, and whether it may be kept.
Ping(t, Skips) ==
  /\ verdict.t < t /\ t <= now /\ now - t <= PingLate
  /\ \E phi \in TiltAt(t), skipped \in Skips, malformed \in BOOLEAN :
       verdict' = [t |-> t, covered |-> Covers(t), gated |-> phi = "steep",
                   answer |-> IF skipped THEN "sentinel"
                              ELSE IF malformed THEN "none"
                              ELSE IF phi = "steep" THEN "sentinel" ELSE "cloud"]
  /\ UNCHANGED <<now, head, tiltBuf, lastTilt, rewinds>>

----------------------------------------------------------------------------
(* The world.                                                              *)

\* The head may move at every tick.  Once a tilt stream is there it keeps on.
Tick ==
  /\ now < Horizon
  /\ lastTilt >= 0 => now + 1 - lastTilt <= TiltGap + TiltLate
  /\ now' = now + 1
  /\ \E angle \in Angle :
       head' = [u \in 0 .. now + 1 |-> IF u <= now THEN head[u] ELSE angle]
  /\ UNCHANGED <<tiltBuf, lastTilt, verdict, rewinds>>

\* The bag starts over, under sim time.
Rewind ==
  /\ rewinds < MaxRewinds
  /\ rewinds' = rewinds + 1
  /\ now' = 0 /\ head' \in [{0} -> Angle]
  /\ lastTilt' = -1 /\ verdict' = NoVerdict
  /\ UNCHANGED tiltBuf

----------------------------------------------------------------------------
(* Properties.                                                             *)

\* Every variable of the gate keeps its type.
GateTypeOK ==
  /\ now \in Stamp /\ rewinds \in 0 .. MaxRewinds
  /\ head \in [0 .. now -> Angle]
  /\ tiltBuf \in Seq(Sample) /\ Len(tiltBuf) <= TiltBufMax
  /\ lastTilt \in -1 .. now
  /\ verdict \in [t : -1 .. now, covered : BOOLEAN, gated : BOOLEAN,
                  answer : Answer]

\* tilt_at searches the buffer by bisection: its times ascend, even after
\* the clock has jumped back, and it does not outgrow its limit.
TiltBufSearchable ==
  /\ \A i, j \in DOMAIN tiltBuf : i < j => tiltBuf[i].t <= tiltBuf[j].t
  /\ Len(tiltBuf) <= TiltBufMax

\* The gate judges a frame by where the head was when it was taken, not when
\* it was handled: a frame taken while the head was steep all around its stamp
\* does not reach the planar SLAM, and one that is gated had a steep head near.
Spread == TiltGap + TiltLate

JudgedByItsTime ==
  LET near == {head[u] : u \in {v \in DOMAIN head :
                 v >= verdict.t - Spread /\ v <= verdict.t + Spread}}
  IN  verdict.covered => /\ verdict.answer = "cloud" => "level" \in near
                         /\ verdict.gated => "steep" \in near
=============================================================================
