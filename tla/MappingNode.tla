---------------------------- MODULE MappingNode ----------------------------
(***************************************************************************)
(* The tile builder of src/nodes/mapping_node.cpp: it pairs the keyframes  *)
(* of the latched trajectory with the buffered sonar pings and feature     *)
(* clouds by stamp, builds one tile per keyframe strictly in order, skips  *)
(* a keyframe whose inputs are conclusively gone, and re-places tiles the  *)
(* graph moved.                                                            *)
(*                                                                         *)
(* Stamps are sonar ticks (the 2 ms pairing tolerance is far below one), a *)
(* pose is the number of times the graph moved the keyframe by more than   *)
(* the re-placement threshold.  publish_period is 0, as config/mapping.yaml*)
(* ships it.  What a tile holds is MappingGrid's subject.                  *)
(***************************************************************************)
EXTENDS Integers, Sequences, FiniteSets

CONSTANTS
  Horizon,      \* last sonar tick
  LastKey,      \* last tick slam_node may make a keyframe of
  Lag,          \* bound on the delivery delay of a ping or a feature cloud
  Grace,        \* stream_grace_ns_
  BufMax,       \* kBufMax
  TrajDepth,    \* depth of the trajectory subscription
  MaxMoves,     \* bound on the corrections of one keyframe
  MaxRestarts   \* bound on restarts of the mapping node

ASSUME MappingAssumption ==
  /\ Horizon \in Nat /\ LastKey \in Nat
  /\ Lag \in Nat /\ Grace \in Nat /\ BufMax \in Nat \ {0}
  /\ TrajDepth \in Nat \ {0}
  /\ MaxMoves \in Nat /\ MaxRestarts \in Nat

Streams == {"ping", "feature"}
Stamp   == 1 .. Horizon

VARIABLES
  now,       \* the sonar's clock
  flight,    \* per stream: stamps sent and neither delivered nor lost
  gone,      \* per stream: stamps lost, evicted or sent to a dead node
  graph,     \* the keyframes of slam_node: a sequence of [stamp, pose]
  inbox,     \* the latched trajectories the node has still to take, in order
  buf,       \* ping_buf_ and feat_buf_: the buffered stamps
  traj,      \* traj_
  tiles,     \* map_.keyframes_: a sequence of [pose, valid]
  shown,     \* the tiles as of the last publish
  restarts   \* restarts so far

envVars  == <<now, flight, gone, graph, inbox, restarts>>
nodeVars == <<buf, traj, tiles, shown>>
vars     == <<envVars, nodeVars>>

Init ==
  /\ now = 0 /\ restarts = 0
  /\ flight = [s \in Streams |-> {}] /\ gone = [s \in Streams |-> {}]
  /\ graph = <<>> /\ inbox = <<>>
  /\ buf = [s \in Streams |-> {}]
  /\ traj = <<>> /\ tiles = <<>> /\ shown = <<>>

----------------------------------------------------------------------------
(* The handlers of the node.  Each holds mutex_ for its whole body.        *)

\* Mutant: any newer message condemns a stamp.
StreamPassedAtOnce(b, t) == \E newest \in b : newest > t

\* Mutant: the builder waits for ever.
StreamPassedNever(b, t) == FALSE

\* stream_passed: has the stream moved past the stamp and the grace window?
StreamPassed(b, t) == \E newest \in b : newest > t + Grace

\* The build does not wait for stamp t: each of its inputs is here, or is
\* conclusively lost.
Settled(bufs, t) ==
  \A s \in Streams : t \in bufs[s] \/ StreamPassed(bufs[s], t)

\* try_build: every keyframe up to the first that must wait gets a tile, or
\* an empty slot if an input is missing.
Reach(bufs, trj) ==
  CHOOSE m \in Len(tiles) .. Len(trj) :
    /\ \A k \in Len(tiles) + 1 .. m : Settled(bufs, trj[k].stamp)
    /\ m = Len(trj) \/ ~Settled(bufs, trj[m + 1].stamp)

\* Mutant: one keyframe per call.
TryBuildOnce(bufs, trj) ==
  IF Len(tiles) >= Len(trj) \/ ~Settled(bufs, trj[Len(tiles) + 1].stamp) THEN tiles
  ELSE LET kf == trj[Len(tiles) + 1] IN
       Append(tiles, [pose  |-> kf.pose,
                      valid |-> \A s \in Streams : kf.stamp \in bufs[s]])

TryBuild(bufs, trj) ==
  IF Len(tiles) >= Len(trj) THEN tiles
  ELSE tiles \o
       [i \in 1 .. Reach(bufs, trj) - Len(tiles) |->
          LET kf == trj[Len(tiles) + i] IN
          [pose  |-> kf.pose,
           valid |-> \A s \in Streams : kf.stamp \in bufs[s]]]

\* The slots a publish shows.
Publish(built) == shown' = built

Oldest(b) == CHOOSE t \in b : \A u \in b : t <= u

\* Buffering one message, oldest first out when the buffer is full.
Buffered(b, t) == LET grown == b \cup {t} IN
  IF Cardinality(grown) > BufMax THEN grown \ {Oldest(grown)} ELSE grown

\* try_build's result: was a tile built?
NewTile(after) == \E k \in Len(tiles) + 1 .. Len(after) : after[k].valid

\* on_ping and on_feature.
OnInput(s, t) ==
  /\ t \in flight[s]
  /\ flight' = [flight EXCEPT ![s] = @ \ {t}]
  /\ buf' = [buf EXCEPT ![s] = Buffered(@, t)]
  /\ gone' = [gone EXCEPT ![s] = @ \cup ((buf[s] \cup {t}) \ buf'[s])]
  /\ tiles' = TryBuild(buf', traj)
  /\ IF NewTile(tiles') THEN Publish(tiles') ELSE UNCHANGED shown
  /\ UNCHANGED <<now, graph, inbox, restarts, traj>>

\* Mutant: the last two keyframes are left out.
CorrectedShort(built, trj) ==
  [k \in DOMAIN built |-> IF k < Len(trj) - 1 /\ built[k].valid
                          THEN [built[k] EXCEPT !.pose = trj[k].pose]
                          ELSE built[k]]

\* on_traj's loop over update_pose: every valid tile of a keyframe but the
\* newest is re-placed at its pose in the new trajectory.
Corrected(built, trj) ==
  [k \in DOMAIN built |-> IF k < Len(trj) /\ built[k].valid
                          THEN [built[k] EXCEPT !.pose = trj[k].pose]
                          ELSE built[k]]

\* on_traj: the oldest trajectory not taken yet; none is ever empty.
OnTraj ==
  /\ inbox # <<>>
  /\ inbox' = Tail(inbox)
  /\ traj' = Head(inbox)
  /\ tiles' = Corrected(TryBuild(buf, traj'), traj')
  /\ Publish(tiles')
  /\ UNCHANGED <<now, flight, gone, graph, restarts, buf>>

\* The node dies and is started again: its buffers and tiles are gone, what
\* is in flight finds no subscriber, the latched trajectory is sent again.
\* It is back before the last frame: the streams outlive it too.
Restart ==
  /\ restarts < MaxRestarts /\ now < Horizon
  /\ restarts' = restarts + 1
  /\ gone' = [s \in Streams |-> gone[s] \cup flight[s] \cup buf[s]]
  /\ flight' = [s \in Streams |-> {}]
  /\ buf' = [s \in Streams |-> {}]
  /\ traj' = <<>> /\ tiles' = <<>> /\ shown' = <<>>
  /\ inbox' = IF graph = <<>> THEN <<>> ELSE <<graph>>
  /\ UNCHANGED <<now, graph>>

----------------------------------------------------------------------------
(* The node's world: the sonar, the network and slam_node.                 *)

\* The sonar's next frame: a ping, and the feature cloud made from it.
Tick ==
  /\ now < Horizon
  /\ \A s \in Streams : \A t \in flight[s] : now + 1 - t <= Lag
  /\ now' = now + 1
  /\ flight' = [s \in Streams |-> flight[s] \cup {now'}]
  /\ UNCHANGED <<gone, graph, inbox, restarts, nodeVars>>

\* A message is lost, or its feature cloud gated away.  The last frame gets
\* through: the streams outlive the survey.
Lose(s, t) ==
  /\ t \in flight[s] /\ t < Horizon
  /\ flight' = [flight EXCEPT ![s] = @ \ {t}]
  /\ gone' = [gone EXCEPT ![s] = @ \cup {t}]
  /\ UNCHANGED <<now, graph, inbox, restarts, nodeVars>>

Moved(kfs, moving) ==
  [k \in DOMAIN kfs |-> IF k \in moving THEN [kfs[k] EXCEPT !.pose = @ + 1]
                        ELSE kfs[k]]

\* publish_trajectory: the sample waits behind the ones not taken, the oldest
\* of which a full subscription drops, or replaces the one before it, which
\* the publisher (whose history holds one sample) had still to send.
PublishTrajectory ==
  \/ inbox' = IF Len(inbox) < TrajDepth THEN Append(inbox, graph')
              ELSE Append(Tail(inbox), graph')
  \/ inbox # <<>> /\ inbox' = [inbox EXCEPT ![Len(inbox)] = graph']

\* slam_node makes a keyframe, and the graph may move any older one.
NewKeyframe(t, moving) ==
  /\ t <= now /\ t <= LastKey
  /\ \A k \in DOMAIN graph : graph[k].stamp < t
  /\ \A k \in moving : graph[k].pose < MaxMoves
  /\ graph' = Append(Moved(graph, moving), [stamp |-> t, pose |-> 0])
  /\ PublishTrajectory
  /\ UNCHANGED <<now, flight, gone, restarts, nodeVars>>

\* slam_node publishes between keyframes: a hand correction or its undo.
Republish(moving) ==
  /\ moving # {}
  /\ \A k \in moving : graph[k].pose < MaxMoves
  /\ graph' = Moved(graph, moving)
  /\ PublishTrajectory
  /\ UNCHANGED <<now, flight, gone, restarts, nodeVars>>

----------------------------------------------------------------------------
Next ==
  \/ Tick \/ OnTraj \/ Restart
  \/ \E s \in Streams : \E t \in flight[s] : OnInput(s, t) \/ Lose(s, t)
  \/ \E moving \in SUBSET DOMAIN graph :
       Republish(moving) \/ \E t \in Stamp : NewKeyframe(t, moving)

\* The sonar keeps pinging, what is in flight is delivered or lost, and the
\* executor runs the trajectory callback when a sample is there.
Fairness ==
  /\ WF_vars(Tick) /\ WF_vars(OnTraj)
  /\ \A s \in Streams, t \in Stamp : WF_vars(OnInput(s, t) \/ Lose(s, t))

Spec == Init /\ [][Next]_vars /\ Fairness

----------------------------------------------------------------------------
(* Properties.                                                             *)

\* Every variable keeps its type.
TypeOK ==
  /\ now \in 0 .. Horizon /\ restarts \in 0 .. MaxRestarts
  /\ flight \in [Streams -> SUBSET Stamp] /\ gone \in [Streams -> SUBSET Stamp]
  /\ buf \in [Streams -> SUBSET Stamp]
  /\ \A seq \in {graph, traj} \cup {inbox[i] : i \in DOMAIN inbox} :
       seq \in Seq([stamp : Stamp, pose : 0 .. MaxMoves])
  /\ Len(inbox) <= TrajDepth
  /\ \A seq \in {tiles, shown} : seq \in Seq([pose : 0 .. MaxMoves, valid : BOOLEAN])

\* A keyframe is given up only if one of its inputs can never come: one
\* that is late by no more than the grace window is waited for.
SkippedOnlyIfGone ==
  \A k \in DOMAIN tiles :
    ~tiles[k].valid => \E s \in Streams : traj[k].stamp \in gone[s]

\* The tile of every keyframe but the newest sits at the pose the trajectory
\* last received gives it, whether it was built before or after the graph
\* moved it.
TilesFollowGraph ==
  \A k \in DOMAIN tiles :
    tiles[k].valid /\ k < Len(traj) => tiles[k].pose = traj[k].pose

\* No callback ends with work that it could do, whichever message arrived
\* last: the first keyframe without a slot must wait for an input, and no tile
\* waits in the grid for a later event to be shown.
NothingHeldBack ==
  /\ Len(tiles) < Len(traj) => ~Settled(buf, traj[Len(tiles) + 1].stamp)
  /\ \A k \in DOMAIN tiles :
       tiles[k].valid => k \in DOMAIN shown /\ shown[k] = tiles[k]
  /\ \A k \in DOMAIN shown :
       shown[k].valid => k \in DOMAIN tiles /\ shown[k] = tiles[k]

\* Losses, restarts and late inputs never wedge the in-order build: every
\* keyframe of the trajectory ends with its tile or its empty slot.
EveryKeyframeSettles == <>[](Len(tiles) = Len(graph))
=============================================================================
