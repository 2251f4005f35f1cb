------------------------------ MODULE VizWorker ------------------------------
(***************************************************************************)
(* The map cloud that slam_node draws beside the back-end                  *)
(* (src/nodes/slam_node.cpp): schedule_viz_rebuild hands a snapshot to a   *)
(* detached worker thread, and a timer re-emits the cached cloud.  They    *)
(* share viz_busy_ (atomic) and, under viz_mutex_, the cached cloud and    *)
(* its time; publishing is not under that mutex.                           *)
(*                                                                         *)
(* A cloud is the version of the back-end's state it was drawn from.  The  *)
(* time since a stamp was taken is an age; the node's clock may jump back, *)
(* and an age is then negative: for a while, or, at -Jump, so far that the *)
(* session ends before the clock has caught up.                            *)
(***************************************************************************)
EXTENDS Integers

CONSTANTS
  VizPeriod,       \* viz_min_period_, in ticks
  RepublishPeriod, \* cloud_republish_period_
  MaxAge,          \* ages saturate here
  Jump,            \* the clock jumps back by less, or for good
  MaxVersions,     \* bound on keyframes and corrections
  MaxJumps         \* bound on jumps

ASSUME VizAssumption ==
  /\ VizPeriod \in Nat /\ RepublishPeriod \in Nat \ {0} /\ MaxAge \in Nat
  /\ VizPeriod <= MaxAge /\ RepublishPeriod <= MaxAge
  /\ Jump \in Nat \ {0} /\ MaxVersions \in Nat /\ MaxJumps \in Nat

VARIABLES
  version,  \* the state the back-end last published
  busy,     \* viz_busy_
  threads,  \* the worker threads: [snap, at]
  vizAge,   \* since last_viz_publish_
  cloud,    \* the last sample on the latched cloud topic, 0 if none
  built,    \* the last cloud that a worker published
  cached,   \* last_cloud_msg_, 0 if empty
  pubAge,   \* since last_cloud_pub_
  jumps     \* backward jumps of the clock so far

vizVars == <<version, busy, threads, vizAge, cloud, built, cached,
          pubAge, jumps>>

Version == 0 .. MaxVersions
Age     == -Jump .. MaxAge

VizInit ==
  /\ version = 0 /\ busy = FALSE /\ threads = {}
  /\ vizAge = MaxAge /\ cloud = 0 /\ built = 0
  /\ cached = 0 /\ pubAge = MaxAge /\ jumps = 0

\* Mutant: a stamp that lies ahead counts as a young one.
ExpiredAheadNever(age, period) == age >= period

\* since < 0 || since >= period
Expired(age, period) == age < 0 \/ age >= period

----------------------------------------------------------------------------
(* The SLAM callback, under mutex_.                                        *)

\* Mutant: viz_busy_ is set but not looked at.
ScheduleAlways ==
  /\ busy' = TRUE /\ threads' = threads \cup {[snap |-> version', at |-> "build"]}
  /\ vizAge' = 0

\* schedule_viz_rebuild, and the stamp its callers take if it succeeds.
Schedule ==
  \/ /\ ~busy
     /\ busy' = TRUE /\ threads' = threads \cup {[snap |-> version', at |-> "build"]}
     /\ vizAge' = 0
  \/ busy /\ UNCHANGED <<busy, threads, vizAge>>

\* publish_all for a new keyframe: a rebuild at most every VizPeriod.
Keyframe ==
  /\ version < MaxVersions /\ version' = version + 1
  /\ IF VizPeriod = 0 \/ Expired(vizAge, VizPeriod)
     THEN Schedule
     ELSE UNCHANGED <<busy, threads, vizAge>>
  /\ UNCHANGED <<cloud, built, cached, pubAge, jumps>>

\* republish_corrected_state, after a hand correction or its undo.
Correct ==
  /\ version \in 1 .. MaxVersions - 1 /\ version' = version + 1
  /\ Schedule
  /\ UNCHANGED <<cloud, built, cached, pubAge, jumps>>

----------------------------------------------------------------------------
(* The worker thread, build_and_publish_viz.                               *)

\* Nothing to draw: no keyframe has points yet.
DrawNothing(w) ==
  /\ w \in threads /\ w.at = "build" /\ built = 0
  /\ threads' = (threads \ {w}) \cup {[w EXCEPT !.at = "done"]}
  /\ UNCHANGED <<version, busy, vizAge, cloud, built, cached,
                 pubAge, jumps>>

\* cloud_pub_->publish(msg), before viz_mutex_ is taken.
Draw(w) ==
  /\ w \in threads /\ w.at = "build"
  /\ cloud' = w.snap /\ built' = w.snap
  /\ threads' = (threads \ {w}) \cup {[w EXCEPT !.at = "sent"]}
  /\ UNCHANGED <<version, busy, vizAge, cached, pubAge, jumps>>

\* Mutant: the stamp is renewed but a cached cloud is kept.
CacheStampOnly(w) ==
  /\ w \in threads /\ w.at = "sent"
  /\ cached' = (IF cached = 0 THEN w.snap ELSE cached) /\ pubAge' = 0
  /\ threads' = (threads \ {w}) \cup {[w EXCEPT !.at = "done"]}
  /\ UNCHANGED <<version, busy, vizAge, cloud, built, jumps>>

\* The cloud is cached for the timer, under viz_mutex_.
Cache(w) ==
  /\ w \in threads /\ w.at = "sent"
  /\ cached' = w.snap /\ pubAge' = 0
  /\ threads' = (threads \ {w}) \cup {[w EXCEPT !.at = "done"]}
  /\ UNCHANGED <<version, busy, vizAge, cloud, built, jumps>>

\* viz_busy_ = false; the next schedule joins the thread.
Finish(w) ==
  /\ w \in threads /\ w.at = "done"
  /\ busy' = FALSE /\ threads' = threads \ {w}
  /\ UNCHANGED <<version, vizAge, cloud, built, cached, pubAge, jumps>>

Worker == \E w \in threads : DrawNothing(w) \/ Draw(w) \/ Cache(w) \/ Finish(w)

----------------------------------------------------------------------------
(* The republish timer and the clock.                                      *)

Republish ==
  /\ cached # 0 /\ Expired(pubAge, RepublishPeriod)
  /\ cloud' = cached /\ pubAge' = 0
  /\ UNCHANGED <<version, busy, threads, vizAge, built, cached, jumps>>

Older(age) == IF age \in {-Jump, MaxAge} THEN age ELSE age + 1

VizTick ==
  /\ vizAge' = Older(vizAge) /\ pubAge' = Older(pubAge)
  /\ UNCHANGED <<version, busy, threads, cloud, built, cached, jumps>>

\* The bag loops: what was stamped in this pass now lies ahead.
JumpBack ==
  /\ cached # 0 /\ jumps < MaxJumps
  /\ jumps' = jumps + 1
  /\ vizAge' \in -Jump .. 0 /\ pubAge' \in -Jump .. 0
  /\ UNCHANGED <<version, busy, threads, cloud, built, cached>>

VizNext == Keyframe \/ Correct \/ Worker \/ Republish \/ VizTick \/ JumpBack

Fairness == WF_vizVars(Worker) /\ WF_vizVars(Republish) /\ WF_vizVars(VizTick)

VizSpec == VizInit /\ [][VizNext]_vizVars /\ Fairness

----------------------------------------------------------------------------
(* Properties.                                                             *)

\* Every variable keeps its type, and the flag says whether a thread is there.
VizTypeOK ==
  /\ version \in Version /\ jumps \in 0 .. MaxJumps
  /\ busy \in BOOLEAN /\ busy = (threads # {})
  /\ threads \subseteq [snap : Version, at : {"build", "sent", "done"}]
  /\ vizAge \in Age /\ pubAge \in Age
  /\ cloud \in Version /\ built \in Version /\ cached \in Version

\* A worker never overtakes another: what is drawn, and what is cached, is
\* never replaced by a cloud of an older state.
NewestWins == [][built' >= built /\ cached' >= cached]_vizVars

\* A timer tick between publishing and caching may put the old cloud back on
\* the latched topic; in the end the last one drawn stays there.  And once
\* there is a map it is emitted for ever, keyframes or not, and however far the
\* clock has jumped back: a costmap that decays its voxels
\* (slam_node.cpp:322-328) keeps being marked.
TopicSettles ==
  /\ <>[](cloud = built)
  /\ [](cached # 0 => <>(pubAge = 0))
=============================================================================
