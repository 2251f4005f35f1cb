--------------------------- MODULE DeadReckoning ---------------------------
(***************************************************************************)
(* The time line of src/nodes/dead_reckoning_node.cpp: velocity readings   *)
(* that the synchronizer paired, perhaps late, are integrated; while none  *)
(* come the pose coasts along the attitude stream; readings the coast has  *)
(* already covered are absorbed; a gap too wide, or a clock that jumped    *)
(* back, holds the position.                                               *)
(*                                                                         *)
(* Stamps are ticks, and a position is how often the motion of each tick   *)
(* was added to it.  The node's clock and the sensors' clocks agree but    *)
(* for the delay of what is delivered.  The callbacks and the coast timer  *)
(* hold mutex_, so each is one step.                                       *)
(***************************************************************************)
EXTENDS Integers

CONSTANTS
  Horizon,     \* bound on stamps
  MaxGap,      \* dvl_max_gap
  DvlCoast,    \* dvl_coast
  RewindSpan,  \* a pair this far behind is a rewound clock (5.0 s)
  MaxLate,     \* the synchronizer delivers a pair at most so late
  MaxRewinds   \* bound on rewinds of the clock

ASSUME ReckoningAssumption ==
  /\ Horizon \in Nat /\ MaxGap \in Nat \ {0} /\ DvlCoast \in Nat
  /\ RewindSpan \in Nat \ {0} /\ MaxLate \in Nat /\ MaxRewinds \in Nat

Stamp == 1 .. Horizon

VARIABLES
  now,       \* the node's clock
  att,       \* last_att_stamp_, 0 if none in this pass
  started,   \* does pose_ hold a value?
  prev,      \* prev_time_
  vel,       \* prev_vel_: "zero", "measured" or "spike"
  arrival,   \* last_pair_arrival_
  coasted,   \* coast_elapsed_
  lastPair,  \* the newest stamp paired in this pass of the clock
  travel,    \* how often the motion of a tick was integrated in this pass
  base,      \* the stamp this pass's integration starts from
  held,      \* the ticks of gaps the position was held across
  rewinds    \* rewinds so far

odomVars == <<started, prev, vel, travel, base, held>>
vars     == <<now, att, arrival, coasted, lastPair, rewinds, odomVars>>

Init ==
  /\ now = 0 /\ att = 0 /\ started = FALSE /\ prev = 0 /\ vel = "zero"
  /\ arrival = 0 /\ coasted = 0 /\ lastPair = 0 /\ rewinds = 0
  /\ travel = [t \in Stamp |-> 0] /\ base = 0 /\ held = {}

----------------------------------------------------------------------------
(* send_odometry: what becomes of a pair stamped t.                        *)

\* prev_vel_ after a pair was taken: a spike is replaced by what it was.
Gated(spike) == IF spike THEN vel ELSE "measured"

\* The motion of the ticks after t0, up to t1, is added to the position.
Integrated(t0, t1) ==
  [t \in Stamp |-> IF t0 < t /\ t <= t1 THEN travel[t] + 1 ELSE travel[t]]

\* Is the pair at or behind the time integrated to, but no rewind?
Covered(t) == started /\ t <= prev /\ prev - t < RewindSpan

\* Mutant: an absorbed spike is kept as the velocity to coast on.
AbsorbUngated(t, spike) ==
  /\ Covered(t)
  /\ vel' = IF spike THEN "spike" ELSE "measured"
  /\ UNCHANGED <<started, prev, travel, base, held>>

\* The coast is already past the pair: it refreshes the velocity only.
Absorb(t, spike) ==
  /\ Covered(t)
  /\ vel' = Gated(spike)
  /\ UNCHANGED <<started, prev, travel, base, held>>

\* A spike cannot start the odometry.
IgnoreSpike(t, spike) ==
  /\ ~started /\ spike
  /\ UNCHANGED odomVars

\* The first good pair.
Start(t, spike) ==
  /\ ~started /\ ~spike
  /\ started' = TRUE /\ prev' = t /\ vel' = "measured" /\ base' = t
  /\ UNCHANGED <<travel, held>>

\* The gap gate, forwards: the position is held.
HoldGap(t, spike) ==
  /\ started /\ t - prev > MaxGap
  /\ prev' = t /\ vel' = Gated(spike)
  /\ held' = held \cup (prev + 1 .. t)
  /\ UNCHANGED <<started, travel, base>>

\* The gap gate, backwards: the clock is taken to have been rewound.
HoldRewind(t, spike) ==
  /\ started /\ t < prev /\ ~Covered(t)
  /\ prev' = t /\ vel' = Gated(spike) /\ base' = t
  /\ UNCHANGED <<started, travel, held>>

\* The pair integrates what remains since the time integrated to.
Integrate(t, spike) ==
  /\ started /\ t > prev /\ t - prev <= MaxGap
  /\ prev' = t /\ vel' = Gated(spike)
  /\ travel' = Integrated(prev, t)
  /\ UNCHANGED <<started, base, held>>

\* The synchronizer hands over its next pair.
Pair(t, spike) ==
  /\ lastPair < t /\ t <= now /\ now - t <= MaxLate
  /\ lastPair' = t /\ arrival' = now /\ coasted' = 0
  /\ \/ Absorb(t, spike) \/ IgnoreSpike(t, spike) \/ Start(t, spike)
     \/ HoldGap(t, spike) \/ HoldRewind(t, spike) \/ Integrate(t, spike)
  /\ UNCHANGED <<now, att, rewinds>>

----------------------------------------------------------------------------
(* coast_step, the timer that stands in for missing pairs.                 *)

\* Mutant: the step is stamped with the node's clock.
CoastStampedNow ==
  /\ started /\ now > arrival
  /\ att > prev /\ coasted + (att - prev) <= DvlCoast
  /\ coasted' = coasted + (att - prev)
  /\ travel' = Integrated(prev, att)
  /\ prev' = now
  /\ UNCHANGED <<now, att, arrival, lastPair, rewinds, started, vel, base, held>>

\* Mutant: a coast step does not advance the time integrated to.
CoastStandingStill ==
  /\ started /\ now > arrival
  /\ att > prev /\ coasted + (att - prev) <= DvlCoast
  /\ coasted' = coasted + (att - prev)
  /\ travel' = Integrated(prev, att)
  /\ UNCHANGED <<now, att, arrival, lastPair, rewinds, started, prev, vel, base, held>>

\* coast_step: the pairs have been quiet for a tick or more, and the budget
\* allows for the advance up to the newest attitude.
Coast ==
  /\ started /\ now > arrival
  /\ att > prev /\ coasted + (att - prev) <= DvlCoast
  /\ coasted' = coasted + (att - prev)
  /\ travel' = Integrated(prev, att)
  /\ prev' = att
  /\ UNCHANGED <<now, att, arrival, lastPair, rewinds, started, vel, base, held>>

\* coast_step finds the node's clock behind the last arrival.
Reanchor ==
  /\ started /\ now < arrival
  /\ arrival' = now
  /\ UNCHANGED <<now, att, coasted, lastPair, rewinds, odomVars>>

\* An IMU or gyro message; the two streams need not be level.
Attitude(t) ==
  /\ t <= now /\ now - t <= MaxLate
  /\ att' = t
  /\ UNCHANGED <<now, arrival, coasted, lastPair, rewinds, odomVars>>

----------------------------------------------------------------------------
(* The clocks.                                                             *)

Tick ==
  /\ now < Horizon
  /\ now' = now + 1
  /\ UNCHANGED <<att, arrival, coasted, lastPair, rewinds, odomVars>>

\* The replayed bag starts over.  The attitude stream is the first to speak:
\* the coast timer re-anchors once and waits before it looks at it again.
Rewind ==
  /\ rewinds < MaxRewinds
  /\ rewinds' = rewinds + 1
  /\ now' = 0 /\ att' = 0 /\ lastPair' = 0
  /\ travel' = [t \in Stamp |-> 0] /\ base' = prev /\ held' = {}
  /\ UNCHANGED <<arrival, coasted, started, prev, vel>>

Next ==
  \/ \E t \in Stamp : Attitude(t) \/ \E spike \in BOOLEAN : Pair(t, spike)
  \/ Coast \/ Reanchor \/ Tick \/ Rewind

Spec == Init /\ [][Next]_vars

----------------------------------------------------------------------------
(* Properties.                                                             *)

\* Every variable keeps its type.
TypeOK ==
  /\ now \in 0 .. Horizon /\ att \in 0 .. Horizon /\ started \in BOOLEAN
  /\ prev \in 0 .. Horizon /\ vel \in {"zero", "measured", "spike"}
  /\ arrival \in 0 .. Horizon /\ coasted \in 0 .. DvlCoast
  /\ lastPair \in 0 .. Horizon /\ rewinds \in 0 .. MaxRewinds
  /\ travel \in [Stamp -> Nat] /\ base \in 0 .. Horizon /\ held \subseteq Stamp

\* "the coasted distance is never double-counted" (coast_step): whatever
\* pairs come late after an outage, no tick's motion is added twice.
NeverDoubleCounted == \A t \in Stamp : travel[t] <= 1

\* Nor is any motion left out, but across a gap the gate held: every tick
\* from the first pair to the stamp last published was integrated.
NothingLeftOut ==
  \A t \in Stamp : base < t /\ t <= prev => travel[t] > 0 \/ t \in held

\* The published stamps go back only with the first pair after the clock
\* itself was rewound; a late pair never takes them back.
OnlyRewindsGoBack == [][prev' < prev => lastPair = 0]_vars

\* A velocity spike is neither integrated nor coasted on, on whichever of
\* the paths a pair can take.
NoSpikeCarried == started <=> vel = "measured"
=============================================================================
