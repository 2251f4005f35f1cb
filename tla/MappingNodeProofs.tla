------------------------- MODULE MappingNodeProofs -------------------------
(***************************************************************************)
(* Proofs about the tile builder, for every stream, buffer size and grace  *)
(* window.  The build (try_build) is characterised once, in BuildFacts;    *)
(* the invariant of the world (MapInv) says where every stamp ever sent    *)
(* is, and that the node's trajectory names the graph's keyframes; the     *)
(* properties follow step by step.                                         *)
(***************************************************************************)
EXTENDS MappingNode, FiniteSetTheorems, SequenceTheorems, TLAPS

KeyPose == [stamp : Stamp, pose : 0 .. MaxMoves]
Tile    == [pose : 0 .. MaxMoves, valid : BOOLEAN]

\* Where a stamp that was sent is: in flight, buffered, or gone for good.
StampsKept ==
  /\ \A s \in Streams : \A t \in Stamp :
       t <= now <=> t \in flight[s] \cup gone[s] \cup buf[s]
  /\ \A s \in Streams : \A t \in flight[s] : now - t <= Lag

\* Trajectory b names the keyframes of a, and maybe later ones.
Names(a, b) == Len(a) <= Len(b) /\ \A k \in 1 .. Len(a) : a[k].stamp = b[k].stamp

\* The trajectory the node has, those waiting for it and the graph each name
\* the keyframes of the ones before them.
TrajNamesGraph ==
  /\ Len(tiles) <= Len(traj) /\ Names(traj, graph)
  /\ \A i \in 1 .. Len(inbox) : Names(traj, inbox[i]) /\ Names(inbox[i], graph)
  /\ \A i, j \in 1 .. Len(inbox) : i < j => Names(inbox[i], inbox[j])

MapTypes ==
  /\ now \in 0 .. Horizon
  /\ flight \in [Streams -> SUBSET Stamp] /\ gone \in [Streams -> SUBSET Stamp]
  /\ buf \in [Streams -> SUBSET Stamp]
  /\ graph \in Seq(KeyPose) /\ inbox \in Seq(Seq(KeyPose)) /\ traj \in Seq(KeyPose)
  /\ tiles \in Seq(Tile) /\ shown \in Seq(Tile)
  /\ restarts \in 0 .. MaxRestarts

MapInv == MapTypes /\ StampsKept /\ TrajNamesGraph

----------------------------------------------------------------------------
(* The build.                                                              *)

\* Every nonempty set of natural numbers has a least element: the intervals
\* from zero to its members have a smallest one.
LEMMA LeastOf ==
  ASSUME NEW T \in SUBSET Nat, T # {}
  PROVE  \E m \in T : \A k \in T : m <= k
<1> DEFINE Intervals == {0 .. m : m \in T}
<1>1. \A m \in T : (0 .. m) \in FiniteSubsetsOf(Nat)
  BY FS_Interval DEF FiniteSubsetsOf
<1>2. Intervals \subseteq FiniteSubsetsOf(Nat) /\ Intervals # {}
  BY <1>1
<1>3. PICK x \in Intervals : \A y \in Intervals : ~(<<y, x>> \in StrictSubsetOrdering(Nat))
  BY <1>2, WFMin, FS_StrictSubsetOrderingWellFounded
<1>4. PICK m \in T : x = 0 .. m
  OBVIOUS
<1>5. ASSUME NEW k \in T, k < m PROVE FALSE
  <2>1. 0 .. k \subseteq 0 .. m /\ m \in 0 .. m /\ m \notin 0 .. k
    BY <1>5
  <2>2. <<0 .. k, 0 .. m>> \in StrictSubsetOrdering(Nat)
    BY <2>1 DEF StrictSubsetOrdering
  <2> QED BY <1>3, <1>4, <2>2
<1> QED BY <1>5

\* The build stops at the first keyframe that must wait, or at the last.
LEMMA ReachFacts ==
  ASSUME NEW bufs, NEW trj \in Seq(KeyPose), tiles \in Seq(Tile),
         Len(tiles) <= Len(trj)
  PROVE  LET m == Reach(bufs, trj) IN
         /\ m \in Len(tiles) .. Len(trj)
         /\ \A k \in Len(tiles) + 1 .. m : Settled(bufs, trj[k].stamp)
         /\ m = Len(trj) \/ ~Settled(bufs, trj[m + 1].stamp)
<1> DEFINE T == {m \in Len(tiles) .. Len(trj) :
                  m = Len(trj) \/ ~Settled(bufs, trj[m + 1].stamp)}
<1>1. Len(tiles) \in Nat /\ Len(trj) \in Nat
  BY LenProperties
<1>2. T \in SUBSET Nat /\ T # {}
  BY <1>1
<1>3. PICK m \in T : \A k \in T : m <= k
  BY <1>2, LeastOf
<1>4. ASSUME NEW k \in Len(tiles) + 1 .. m PROVE Settled(bufs, trj[k].stamp)
  <2>1. /\ k - 1 \in Len(tiles) .. Len(trj) /\ k - 1 < m /\ (k - 1) + 1 = k
        /\ m \in Int
    BY <1>1, <1>3
  <2> HIDE DEF T
  <2>2. k - 1 \notin T
    BY <2>1, <1>3
  <2> USE DEF T
  <2> QED BY <2>1, <2>2
<1>5. \E n \in Len(tiles) .. Len(trj) :
        /\ \A k \in Len(tiles) + 1 .. n : Settled(bufs, trj[k].stamp)
        /\ n = Len(trj) \/ ~Settled(bufs, trj[n + 1].stamp)
  BY <1>3, <1>4
<1> QED BY <1>5 DEF Reach

\* What the build adds, slot by slot.
LEMMA BuildFacts ==
  ASSUME NEW bufs, NEW trj \in Seq(KeyPose), tiles \in Seq(Tile),
         Len(tiles) <= Len(trj)
  PROVE  LET b == TryBuild(bufs, trj) IN
         /\ b \in Seq(Tile)
         /\ Len(tiles) <= Len(b) /\ Len(b) <= Len(trj)
         /\ \A k \in 1 .. Len(tiles) : b[k] = tiles[k]
         /\ \A k \in Len(tiles) + 1 .. Len(b) :
              /\ b[k].pose = trj[k].pose
              /\ b[k].valid <=> \A s \in Streams : trj[k].stamp \in bufs[s]
              /\ Settled(bufs, trj[k].stamp)
         /\ Len(b) < Len(trj) => ~Settled(bufs, trj[Len(b) + 1].stamp)
<1>1. Len(tiles) \in Nat /\ Len(trj) \in Nat
  BY LenProperties
<1>2. CASE Len(tiles) >= Len(trj)
  BY <1>1, <1>2 DEF TryBuild
<1>3. CASE ~(Len(tiles) >= Len(trj))
  <2> DEFINE m == Reach(bufs, trj)
             new == [i \in 1 .. m - Len(tiles) |->
                       LET kf == trj[Len(tiles) + i] IN
                       [pose  |-> kf.pose,
                        valid |-> \A s \in Streams : kf.stamp \in bufs[s]]]
             b == tiles \o new
  <2>1. TryBuild(bufs, trj) = b
    BY <1>3 DEF TryBuild
  <2>2. /\ m \in Len(tiles) .. Len(trj)
        /\ \A k \in Len(tiles) + 1 .. m : Settled(bufs, trj[k].stamp)
        /\ m = Len(trj) \/ ~Settled(bufs, trj[m + 1].stamp)
    BY ReachFacts
  <2> HIDE DEF m
  <2>3. \A i \in 1 .. m - Len(tiles) : trj[Len(tiles) + i] \in KeyPose
    BY <1>1, <2>2, ElementOfSeq
  <2>4. new \in Seq(Tile) /\ Len(new) = m - Len(tiles)
    <3>1. \A i \in 1 .. m - Len(tiles) : new[i] \in Tile
      BY <2>3 DEF Tile, KeyPose
    <3>2. m - Len(tiles) \in Nat
      BY <1>1, <2>2
    <3> QED BY <3>1, <3>2
  <2>c. /\ b \in Seq(Tile) /\ Len(b) = Len(tiles) + Len(new)
        /\ \A i \in 1 .. Len(tiles) + Len(new) :
             b[i] = IF i <= Len(tiles) THEN tiles[i] ELSE new[i - Len(tiles)]
    <3> HIDE DEF new
    <3> QED BY <2>4, ConcatProperties, Zenon
  <2>5. b \in Seq(Tile) /\ Len(b) = m
    <3> HIDE DEF new, b
    <3> QED BY <1>1, <2>2, <2>4, <2>c
  <2>6. \A k \in 1 .. Len(tiles) : b[k] = tiles[k]
    <3> HIDE DEF new, b
    <3> QED BY <1>1, <2>2, <2>4, <2>c
  <2>7. ASSUME NEW k \in Len(tiles) + 1 .. m
        PROVE  /\ b[k].pose = trj[k].pose
               /\ b[k].valid <=> \A s \in Streams : trj[k].stamp \in bufs[s]
    <3>1. k - Len(tiles) \in 1 .. m - Len(tiles) /\ Len(tiles) + (k - Len(tiles)) = k
      BY <1>1, <2>2
    <3>2. b[k] = new[k - Len(tiles)]
      <4> HIDE DEF new, b
      <4> QED BY <1>1, <2>2, <2>4, <2>c, <3>1
    <3>3. b[k] = [pose  |-> trj[k].pose,
                  valid |-> \A s \in Streams : trj[k].stamp \in bufs[s]]
      BY <3>1, <3>2
    <3> HIDE DEF b, new
    <3> QED BY <3>3
  <2> HIDE DEF b
  <2> QED BY <1>1, <2>1, <2>2, <2>5, <2>6, <2>7
<1> QED BY <1>2, <1>3

----------------------------------------------------------------------------
(* The world's invariant.                                                  *)

\* Re-placing tiles keeps their number and their validity.
LEMMA CorrectedFacts ==
  ASSUME NEW built \in Seq(Tile), NEW trj \in Seq(KeyPose)
  PROVE  /\ Corrected(built, trj) \in Seq(Tile)
         /\ Len(Corrected(built, trj)) = Len(built)
         /\ \A k \in 1 .. Len(built) :
              /\ Corrected(built, trj)[k].valid = built[k].valid
              /\ Corrected(built, trj)[k].valid /\ k < Len(trj)
                   => Corrected(built, trj)[k].pose = trj[k].pose
<1> DEFINE c == Corrected(built, trj)
<1>1. Len(built) \in Nat /\ DOMAIN built = 1 .. Len(built)
  BY LenProperties
<1>2. Len(trj) \in Nat /\ \A k \in 1 .. Len(trj) : trj[k] \in KeyPose
  BY LenProperties, ElementOfSeq
<1>3. \A k \in 1 .. Len(built) : built[k] \in Tile
  BY ElementOfSeq
<1>4. ASSUME NEW k \in 1 .. Len(built)
      PROVE  /\ c[k] \in Tile /\ c[k].valid = built[k].valid
             /\ c[k].valid /\ k < Len(trj) => c[k].pose = trj[k].pose
  <2>1. CASE k < Len(trj) /\ built[k].valid
    <3>1. c[k] = [built[k] EXCEPT !.pose = trj[k].pose]
      BY <1>1, <2>1 DEF Corrected
    <3>2. trj[k].pose \in 0 .. MaxMoves
      BY <1>1, <1>2, <2>1 DEF KeyPose
    <3> QED BY <1>3, <3>1, <3>2 DEF Tile
  <2>2. CASE ~(k < Len(trj) /\ built[k].valid)
    <3>1. c[k] = built[k]
      BY <1>1, <2>2 DEF Corrected
    <3> QED BY <1>3, <2>2, <3>1
  <2> QED BY <2>1, <2>2
<1>5. c \in [1 .. Len(built) -> Tile]
  BY <1>1, <1>4 DEF Corrected
<1>6. c \in Seq(Tile) /\ Len(c) = Len(built)
  BY <1>1, <1>5
<1> QED BY <1>4, <1>6

\* A correction of the graph keeps its keyframes and their stamps.
LEMMA MovedFacts ==
  ASSUME graph \in Seq(KeyPose), NEW moving \in SUBSET DOMAIN graph,
         \A k \in moving : graph[k].pose < MaxMoves
  PROVE  /\ Moved(graph, moving) \in Seq(KeyPose)
         /\ Len(Moved(graph, moving)) = Len(graph)
         /\ \A k \in 1 .. Len(graph) : Moved(graph, moving)[k].stamp = graph[k].stamp
<1> DEFINE m == Moved(graph, moving)
<1>1. Len(graph) \in Nat /\ DOMAIN graph = 1 .. Len(graph)
  BY LenProperties
<1>2. \A k \in 1 .. Len(graph) : graph[k] \in KeyPose
  BY ElementOfSeq
<1>3. ASSUME NEW k \in 1 .. Len(graph)
      PROVE  m[k] \in KeyPose /\ m[k].stamp = graph[k].stamp
  <2>1. CASE k \in moving
    <3>1. m[k] = [graph[k] EXCEPT !.pose = graph[k].pose + 1]
      BY <1>1, <2>1 DEF Moved
    <3>2. graph[k].pose + 1 \in 0 .. MaxMoves
      BY <1>2, <2>1, MappingAssumption DEF KeyPose
    <3> QED BY <1>2, <3>1, <3>2 DEF KeyPose
  <2>2. CASE k \notin moving
    BY <1>1, <1>2, <2>2 DEF Moved
  <2> QED BY <2>1, <2>2
<1>4. m \in [1 .. Len(graph) -> KeyPose]
  BY <1>1, <1>3 DEF Moved
<1>5. m \in Seq(KeyPose) /\ Len(m) = Len(graph)
  BY <1>1, <1>4
<1> QED BY <1>3, <1>5

\* What a trajectory names, a later one names.
LEMMA NamesThrough ==
  ASSUME NEW a \in Seq(KeyPose), NEW b \in Seq(KeyPose), NEW c \in Seq(KeyPose),
         Names(a, b), Names(b, c)
  PROVE  Names(a, c)
<1>1. Len(a) \in Nat /\ Len(b) \in Nat /\ Len(c) \in Nat
  BY LenProperties
<1>2. \A k \in 1 .. Len(a) : k \in 1 .. Len(b)
  BY <1>1 DEF Names
<1> QED BY <1>1, <1>2 DEF Names

\* The trajectory on_traj takes, and what is left waiting.
LEMMA TrajTaken ==
  ASSUME MapInv, OnTraj
  PROVE  /\ traj' \in Seq(KeyPose) /\ inbox' \in Seq(Seq(KeyPose))
         /\ Names(traj, traj') /\ Names(traj', graph)
         /\ Len(tiles) <= Len(traj')
         /\ \A i \in 1 .. Len(inbox') : i + 1 \in 1 .. Len(inbox) /\ inbox'[i] = inbox[i + 1]
         /\ 1 \in 1 .. Len(inbox) /\ traj' = inbox[1]
<1>1. /\ inbox \in Seq(Seq(KeyPose)) /\ inbox # <<>>
      /\ inbox' = Tail(inbox) /\ traj' = Head(inbox)
  BY DEF OnTraj, MapInv, MapTypes
<1>2. /\ traj' \in Seq(KeyPose) /\ inbox' \in Seq(Seq(KeyPose))
      /\ Len(inbox') = Len(inbox) - 1 /\ Len(inbox) \in Nat /\ Len(inbox) # 0
      /\ \A i \in 1 .. Len(inbox') : inbox'[i] = inbox[i + 1]
      /\ traj' = inbox[1]
  BY <1>1, HeadTailProperties, LenProperties, EmptySeq
<1>3. Names(traj, traj') /\ Names(traj', graph)
  BY <1>2 DEF MapInv, TrajNamesGraph
<1>4. Len(tiles) <= Len(traj')
  <2>1. Len(tiles) \in Nat /\ Len(traj) \in Nat /\ Len(traj') \in Nat
    BY <1>2, LenProperties DEF MapInv, MapTypes
  <2> QED BY <1>3, <2>1 DEF MapInv, TrajNamesGraph, Names
<1> QED BY <1>2, <1>3, <1>4

\* The world starts with nothing sent and nothing built.
LEMMA MapInit == Init => MapInv
<1> SUFFICES ASSUME Init PROVE MapInv
  OBVIOUS
<1>1. MapTypes
  <2>1. <<>> \in Seq(KeyPose) /\ <<>> \in Seq(Tile) /\ <<>> \in Seq(Seq(KeyPose))
    BY EmptySeq
  <2>2. 0 \in 0 .. Horizon /\ 0 \in 0 .. MaxRestarts
    BY MappingAssumption
  <2>3. [s \in Streams |-> {}] \in [Streams -> SUBSET Stamp]
    OBVIOUS
  <2> QED BY <2>1, <2>2, <2>3 DEF Init, MapTypes
<1>2. StampsKept
  BY DEF Init, StampsKept, Stamp
<1>3. TrajNamesGraph
  BY DEF Init, TrajNamesGraph, Names
<1> QED BY <1>1, <1>2, <1>3 DEF MapInv

\* A message received is buffered, or evicts what leaves for good.
LEMMA MapInput ==
  ASSUME MapInv, NEW s \in Streams, NEW t \in flight[s], OnInput(s, t)
  PROVE  MapInv'
<1> USE DEF MapInv
<1>1. t \in Stamp /\ buf[s] \subseteq Stamp
  BY DEF MapTypes
<1>2. Buffered(buf[s], t) \subseteq buf[s] \cup {t}
  BY DEF Buffered
<1>3. /\ flight' = [flight EXCEPT ![s] = flight[s] \ {t}]
      /\ buf' = [buf EXCEPT ![s] = Buffered(buf[s], t)]
      /\ gone' = [gone EXCEPT ![s] = gone[s] \cup ((buf[s] \cup {t}) \ buf'[s])]
  BY DEF OnInput
<1>4. /\ tiles' \in Seq(Tile)
      /\ Len(tiles) <= Len(tiles') /\ Len(tiles') <= Len(traj)
  BY BuildFacts DEF OnInput, MapTypes, TrajNamesGraph
<1>5. MapTypes'
  <2>1. flight' \in [Streams -> SUBSET Stamp] /\ buf' \in [Streams -> SUBSET Stamp]
    BY <1>1, <1>2, <1>3 DEF MapTypes
  <2>2. gone' \in [Streams -> SUBSET Stamp]
    BY <1>1, <1>3 DEF MapTypes
  <2>3. shown' \in Seq(Tile)
    BY <1>4 DEF MapTypes, OnInput, Publish
  <2> QED BY <1>4, <2>1, <2>2, <2>3 DEF MapTypes, OnInput
<1>6. StampsKept'
  <2>1. now' = now
    BY DEF OnInput
  <2>2. ASSUME NEW r \in Streams
        PROVE  flight'[r] \cup gone'[r] \cup buf'[r] = flight[r] \cup gone[r] \cup buf[r]
    BY <1>1, <1>2, <1>3 DEF MapTypes
  <2>3. \A r \in Streams : flight'[r] \subseteq flight[r]
    BY <1>3 DEF MapTypes
  <2> QED BY <2>1, <2>2, <2>3 DEF StampsKept
<1>7. TrajNamesGraph'
  BY <1>4 DEF OnInput, TrajNamesGraph
<1> QED BY <1>5, <1>6, <1>7

\* A trajectory received names what the last one did, and maybe more.
LEMMA MapTraj == MapInv /\ OnTraj => MapInv'
<1> SUFFICES ASSUME MapInv, OnTraj PROVE MapInv'
  OBVIOUS
<1>1. /\ traj' \in Seq(KeyPose) /\ inbox' \in Seq(Seq(KeyPose))
      /\ Names(traj', graph) /\ Len(tiles) <= Len(traj')
      /\ \A i \in 1 .. Len(inbox') : i + 1 \in 1 .. Len(inbox) /\ inbox'[i] = inbox[i + 1]
      /\ 1 \in 1 .. Len(inbox) /\ traj' = inbox[1]
  BY TrajTaken
<1>2. UNCHANGED <<now, flight, gone, graph, restarts, buf>>
  BY DEF OnTraj
<1> USE DEF MapInv
<1> DEFINE b == TryBuild(buf, traj')
<1>3. b \in Seq(Tile) /\ Len(b) <= Len(traj')
  BY <1>1, BuildFacts DEF MapTypes
<1>4. tiles' = Corrected(b, traj')
  BY DEF OnTraj
<1> HIDE DEF b
<1>5. tiles' \in Seq(Tile) /\ Len(tiles') = Len(b)
  BY <1>1, <1>3, <1>4, CorrectedFacts
<1>6. MapTypes'
  BY <1>1, <1>2, <1>5 DEF MapTypes, OnTraj, Publish
<1>7. StampsKept'
  BY <1>2 DEF StampsKept
<1>8. TrajNamesGraph'
  <2>1. Len(inbox) \in Nat /\ Len(inbox') \in Nat
    BY <1>1, LenProperties DEF MapTypes
  <2>2. \A i \in 1 .. Len(inbox') : Names(traj', inbox'[i]) /\ Names(inbox'[i], graph)
    BY <1>1, <2>1 DEF TrajNamesGraph
  <2>3. \A i, j \in 1 .. Len(inbox') : i < j => Names(inbox'[i], inbox'[j])
    BY <1>1, <2>1 DEF TrajNamesGraph
  <2> QED BY <1>1, <1>2, <1>3, <1>5, <2>2, <2>3 DEF TrajNamesGraph
<1> QED BY <1>6, <1>7, <1>8

\* A restart forgets the tiles, and gives up what the dead node held.
LEMMA MapRestart == MapInv /\ Restart => MapInv'
<1> SUFFICES ASSUME MapInv, Restart PROVE MapInv'
  OBVIOUS
<1> USE DEF MapInv
<1>1. /\ gone' = [s \in Streams |-> gone[s] \cup flight[s] \cup buf[s]]
      /\ flight' = [s \in Streams |-> {}] /\ buf' = [s \in Streams |-> {}]
      /\ now' = now
  BY DEF Restart
<1>2. /\ inbox' \in Seq(Seq(KeyPose)) /\ Len(inbox') <= 1
      /\ \A i \in 1 .. Len(inbox') : inbox'[i] = graph
  <2>1. inbox' = <<>> \/ inbox' = <<graph>>
    BY DEF Restart
  <2>2. CASE inbox' = <<>>
    <3>1. <<>> \in Seq(Seq(KeyPose)) /\ Len(<<>>) = 0
      BY EmptySeq
    <3> QED BY <2>2, <3>1
  <2>3. CASE inbox' = <<graph>>
    <3>1. graph \in Seq(KeyPose)
      BY DEF MapTypes
    <3> DEFINE P == Seq(KeyPose)
    <3> HIDE DEF P
    <3>2. <<graph>> \in Seq(P) /\ Len(<<graph>>) = 1 /\ <<graph>>[1] = graph
      BY <3>1 DEF P
    <3> QED BY <2>3, <3>2 DEF P
  <2> QED BY <2>1, <2>2, <2>3
<1>3. MapTypes'
  <2>1. restarts' \in 0 .. MaxRestarts
    BY MappingAssumption DEF MapTypes, Restart
  <2>2. gone' \in [Streams -> SUBSET Stamp]
    BY <1>1 DEF MapTypes
  <2> QED BY <1>1, <1>2, <2>1, <2>2 DEF MapTypes, Restart
<1>4. StampsKept'
  BY <1>1 DEF StampsKept
<1>5. TrajNamesGraph'
  <2>1. Len(graph) \in Nat /\ Len(inbox') \in Nat
    BY <1>2, LenProperties DEF MapTypes
  <2>2. Names(graph, graph) /\ Names(<<>>, graph)
    BY <2>1 DEF Names
  <2>3. /\ traj' = <<>> /\ tiles' = <<>> /\ graph' = graph
    BY DEF Restart
  <2>4. \A i, j \in 1 .. Len(inbox') : ~(i < j)
    BY <1>2, <2>1
  <2> QED BY <1>2, <2>1, <2>2, <2>3, <2>4 DEF TrajNamesGraph
<1> QED BY <1>3, <1>4, <1>5

\* The sonar's next stamp starts in flight, and none has been there too long.
LEMMA MapTick == MapInv /\ Tick => MapInv'
<1> SUFFICES ASSUME MapInv, Tick PROVE MapInv'
  OBVIOUS
<1> USE DEF MapInv
<1>1. /\ now' = now + 1 /\ now' \in Stamp /\ now \in Nat
      /\ flight' = [s \in Streams |-> flight[s] \cup {now'}]
      /\ \A s \in Streams : \A t \in flight[s] : now + 1 - t <= Lag
      /\ UNCHANGED <<gone, graph, inbox, restarts, nodeVars>>
  BY MappingAssumption DEF Tick, MapTypes, Stamp
<1>2. MapTypes'
  <2>1. now' \in 0 .. Horizon
    BY <1>1 DEF Stamp
  <2>2. flight' \in [Streams -> SUBSET Stamp]
    BY <1>1 DEF MapTypes
  <2> QED BY <1>1, <2>1, <2>2 DEF MapTypes, nodeVars
<1>3. StampsKept'
  <2>1. ASSUME NEW s \in Streams, NEW t \in Stamp
        PROVE  t <= now' <=> t \in flight'[s] \cup gone'[s] \cup buf'[s]
    <3>1. t <= now' <=> t <= now \/ t = now'
      BY <1>1 DEF Stamp
    <3> QED BY <1>1, <3>1 DEF StampsKept, nodeVars
  <2>2. ASSUME NEW s \in Streams, NEW t \in flight'[s]
        PROVE  now' - t <= Lag
    <3>1. CASE t = now'
      BY <1>1, <3>1, MappingAssumption DEF Stamp
    <3>2. CASE t \in flight[s]
      <4>1. now + 1 - t <= Lag
        BY <1>1, <3>2
      <4>2. now' = now + 1 /\ now \in Int /\ t \in Int
        BY <1>1, <3>2 DEF MapTypes, Stamp
      <4> QED BY <4>1, <4>2
    <3> QED BY <1>1, <3>1, <3>2
  <2> QED BY <2>1, <2>2 DEF StampsKept
<1>4. TrajNamesGraph'
  BY <1>1 DEF TrajNamesGraph, nodeVars
<1> QED BY <1>2, <1>3, <1>4

\* A lost message is gone for good.
LEMMA MapLose ==
  ASSUME MapInv, NEW s \in Streams, NEW t \in flight[s], Lose(s, t)
  PROVE  MapInv'
<1> USE DEF MapInv
<1>1. /\ flight' = [flight EXCEPT ![s] = flight[s] \ {t}]
      /\ gone' = [gone EXCEPT ![s] = gone[s] \cup {t}]
      /\ UNCHANGED <<now, graph, inbox, restarts, nodeVars>>
  BY DEF Lose
<1>2. t \in Stamp
  BY DEF MapTypes
<1>3. MapTypes'
  <2>1. flight' \in [Streams -> SUBSET Stamp] /\ gone' \in [Streams -> SUBSET Stamp]
    BY <1>1, <1>2 DEF MapTypes
  <2> QED BY <1>1, <2>1 DEF MapTypes, nodeVars
<1>4. StampsKept'
  <2>1. ASSUME NEW r \in Streams
        PROVE  /\ flight'[r] \cup gone'[r] \cup buf'[r] = flight[r] \cup gone[r] \cup buf[r]
               /\ flight'[r] \subseteq flight[r]
    BY <1>1 DEF MapTypes, nodeVars
  <2> QED BY <1>1, <2>1 DEF StampsKept
<1>5. TrajNamesGraph'
  BY <1>1 DEF TrajNamesGraph, nodeVars
<1> QED BY <1>3, <1>4, <1>5

\* A publication ends the queue of waiting trajectories; the ones before it
\* keep their order, with the oldest, or the one before it, gone.
LEMMA PublishFacts ==
  ASSUME inbox \in Seq(Seq(KeyPose)), graph' \in Seq(KeyPose), PublishTrajectory
  PROVE  /\ inbox' \in Seq(Seq(KeyPose)) /\ Len(inbox') \in Nat /\ Len(inbox') > 0
         /\ inbox'[Len(inbox')] = graph'
         /\ \E d \in 0 .. 1 : \A i \in 1 .. Len(inbox') :
              i < Len(inbox') => i + d \in 1 .. Len(inbox) /\ inbox'[i] = inbox[i + d]
<1>1. Len(inbox) \in Nat /\ (inbox # <<>> => Len(inbox) > 0)
  BY LenProperties, EmptySeq
<1>2. CASE inbox' = Append(inbox, graph')
  <2>1. /\ inbox' \in Seq(Seq(KeyPose)) /\ Len(inbox') = Len(inbox) + 1
        /\ \A i \in 1 .. Len(inbox) : inbox'[i] = inbox[i]
        /\ inbox'[Len(inbox) + 1] = graph'
    BY <1>2, AppendProperties
  <2>2. \A i \in 1 .. Len(inbox') :
          i < Len(inbox') => i + 0 \in 1 .. Len(inbox) /\ inbox'[i] = inbox[i + 0]
    BY <1>1, <2>1
  <2> QED BY <1>1, <2>1, <2>2
<1>3. CASE inbox # <<>> /\ inbox' = Append(Tail(inbox), graph')
  <2> DEFINE rest == Tail(inbox)
  <2>1. /\ rest \in Seq(Seq(KeyPose)) /\ Len(rest) = Len(inbox) - 1
        /\ \A i \in 1 .. Len(rest) : rest[i] = inbox[i + 1]
    BY <1>3, HeadTailProperties
  <2>2. inbox' = Append(rest, graph')
    BY <1>3
  <2> HIDE DEF rest
  <2>3. /\ inbox' \in Seq(Seq(KeyPose)) /\ Len(inbox') = Len(rest) + 1
        /\ \A i \in 1 .. Len(rest) : inbox'[i] = rest[i]
        /\ inbox'[Len(rest) + 1] = graph'
    BY <2>1, <2>2, AppendProperties
  <2>4. \A i \in 1 .. Len(inbox') :
          i < Len(inbox') => i + 1 \in 1 .. Len(inbox) /\ inbox'[i] = inbox[i + 1]
    BY <1>1, <1>3, <2>1, <2>3
  <2> QED BY <1>1, <1>3, <2>1, <2>3, <2>4
<1>4. CASE inbox # <<>> /\ inbox' = [inbox EXCEPT ![Len(inbox)] = graph']
  <2>1. /\ inbox' \in Seq(Seq(KeyPose)) /\ Len(inbox') = Len(inbox)
        /\ \A i \in 1 .. Len(inbox) : i # Len(inbox) => inbox'[i] = inbox[i]
        /\ inbox'[Len(inbox)] = graph'
    BY <1>1, <1>4, ExceptSeq
  <2>2. \A i \in 1 .. Len(inbox') :
          i < Len(inbox') => i + 0 \in 1 .. Len(inbox) /\ inbox'[i] = inbox[i + 0]
    BY <1>1, <2>1
  <2> QED
    <3>1. \E d \in 0 .. 1 : d = 0
      OBVIOUS
    <3>2. Len(inbox') > 0 /\ inbox'[Len(inbox')] = graph'
      BY <1>1, <1>4, <2>1
    <3> QED BY <1>1, <2>1, <2>2, <3>1, <3>2
<1>5. Len(inbox) < TrajDepth \/ inbox # <<>>
  <2>1. Len(<<>>) = 0
    OBVIOUS
  <2> QED BY <2>1, MappingAssumption
<1> QED BY <1>2, <1>3, <1>4, <1>5 DEF PublishTrajectory

\* The graph grows and moves, and publishes what it is.
LEMMA MapGraph ==
  ASSUME MapInv, NEW moving \in SUBSET DOMAIN graph,
         Republish(moving) \/ \E t \in Stamp : NewKeyframe(t, moving)
  PROVE  MapInv'
<1> USE DEF MapInv
<1> DEFINE m == Moved(graph, moving)
<1>1. \A k \in moving : graph[k].pose < MaxMoves
  BY DEF Republish, NewKeyframe
<1>2. /\ m \in Seq(KeyPose) /\ Len(m) = Len(graph)
      /\ \A k \in 1 .. Len(graph) : m[k].stamp = graph[k].stamp
  BY <1>1, MovedFacts DEF MapTypes
<1>3. /\ Len(graph) \in Nat /\ Len(traj) \in Nat /\ Len(tiles) \in Nat
  BY LenProperties DEF MapTypes
<1> HIDE DEF m
<1>4. /\ graph' \in Seq(KeyPose)
      /\ Names(graph, graph')
  <2>1. CASE Republish(moving)
    BY <1>2, <1>3, <2>1 DEF Republish, Names, m
  <2>2. ASSUME NEW t \in Stamp, NewKeyframe(t, moving)
        PROVE  /\ graph' \in Seq(KeyPose)
               /\ Names(graph, graph')
    <3> DEFINE new == [stamp |-> t, pose |-> 0]
    <3>1. new \in KeyPose /\ new.stamp = t /\ t <= now
      BY <2>2, MappingAssumption DEF KeyPose, NewKeyframe
    <3>2. graph' = Append(m, new)
      BY <2>2 DEF NewKeyframe, m
    <3> HIDE DEF new
    <3>3. /\ graph' \in Seq(KeyPose) /\ Len(graph') = Len(graph) + 1
          /\ \A k \in 1 .. Len(graph) : graph'[k] = m[k]
          /\ graph'[Len(graph) + 1] = new
      BY <1>2, <1>3, <3>1, <3>2, AppendProperties
    <3> QED BY <1>2, <1>3, <3>3 DEF Names
  <2> QED BY <2>1, <2>2
<1>5. PublishTrajectory /\ UNCHANGED <<now, flight, gone, restarts, nodeVars>>
  BY DEF Republish, NewKeyframe
<1>6. /\ inbox' \in Seq(Seq(KeyPose)) /\ Len(inbox') \in Nat /\ Len(inbox') > 0
      /\ inbox'[Len(inbox')] = graph'
      /\ \E d \in 0 .. 1 : \A i \in 1 .. Len(inbox') :
           i < Len(inbox') => i + d \in 1 .. Len(inbox) /\ inbox'[i] = inbox[i + d]
  BY <1>4, <1>5, PublishFacts DEF MapTypes
<1>7. MapTypes'
  BY <1>4, <1>5, <1>6 DEF MapTypes, nodeVars
<1>8. StampsKept'
  BY <1>5 DEF StampsKept, nodeVars
<1>9. TrajNamesGraph'
  <2>1. PICK d \in 0 .. 1 : \A i \in 1 .. Len(inbox') :
          i < Len(inbox') => i + d \in 1 .. Len(inbox) /\ inbox'[i] = inbox[i + d]
    BY <1>6
  <2>2. \A i \in 1 .. Len(inbox) : inbox[i] \in Seq(KeyPose) /\ Names(inbox[i], graph')
    <3>1. \A i \in 1 .. Len(inbox) : inbox[i] \in Seq(KeyPose)
      BY ElementOfSeq DEF MapTypes
    <3> QED BY <1>4, <3>1, NamesThrough DEF MapTypes, TrajNamesGraph
  <2>3. Names(traj, graph')
    BY <1>4, NamesThrough DEF MapTypes, TrajNamesGraph
  <2>4. Names(graph', graph')
    <3>1. Len(graph') \in Nat
      BY <1>4, LenProperties
    <3> QED BY <3>1 DEF Names
  <2>5. ASSUME NEW i \in 1 .. Len(inbox')
        PROVE  Names(traj, inbox'[i]) /\ Names(inbox'[i], graph')
    <3>1. CASE i = Len(inbox')
      BY <1>6, <2>3, <2>4, <3>1
    <3>2. CASE i # Len(inbox')
      <4>1. i < Len(inbox')
        BY <1>6, <3>2
      <4>2. i + d \in 1 .. Len(inbox) /\ inbox'[i] = inbox[i + d]
        BY <2>1, <4>1
      <4>3. Names(traj, inbox[i + d])
        BY <4>2 DEF TrajNamesGraph
      <4>4. Names(inbox[i + d], graph')
        BY <2>2, <4>2
      <4> QED BY <4>2, <4>3, <4>4
    <3> QED BY <3>1, <3>2
  <2>6. ASSUME NEW i \in 1 .. Len(inbox'), NEW j \in 1 .. Len(inbox'), i < j
        PROVE  Names(inbox'[i], inbox'[j])
    <3>1. i < Len(inbox') /\ i + d \in 1 .. Len(inbox) /\ inbox'[i] = inbox[i + d]
      BY <1>6, <2>1, <2>6
    <3>2. CASE j = Len(inbox')
      BY <1>6, <2>2, <3>1, <3>2
    <3>3. CASE j # Len(inbox')
      <4>1. j + d \in 1 .. Len(inbox) /\ inbox'[j] = inbox[j + d] /\ i + d < j + d
        BY <1>6, <2>1, <2>6, <3>3
      <4> QED BY <3>1, <4>1 DEF TrajNamesGraph
    <3> QED BY <3>2, <3>3
  <2>7. traj' = traj /\ tiles' = tiles
    BY <1>5 DEF nodeVars
  <2> QED BY <2>3, <2>5, <2>6, <2>7 DEF TrajNamesGraph
<1> QED BY <1>7, <1>8, <1>9

\* Every stamp ever sent is in flight, buffered or gone, for no longer than
\* Lag in flight; the node's trajectory names the graph's first keyframes.
THEOREM MapInvariant == Spec => []MapInv
<1>1. MapInv /\ [Next]_vars => MapInv'
  <2> SUFFICES ASSUME MapInv, [Next]_vars PROVE MapInv'
    OBVIOUS
  <2>1. CASE UNCHANGED vars
    BY <2>1 DEF MapInv, MapTypes, StampsKept, TrajNamesGraph, vars, envVars, nodeVars
  <2>2. CASE Next
    BY <2>2, MapTick, MapTraj, MapRestart, MapInput, MapLose, MapGraph DEF Next
  <2> QED BY <2>1, <2>2
<1> QED BY <1>1, MapInit, PTL DEF Spec

----------------------------------------------------------------------------
(* The properties.                                                         *)

\* The steps of the sonar, the network and slam_node leave the node alone.
LEMMA WorldSteps ==
  ASSUME Tick \/ (\E s \in Streams : \E t \in flight[s] : Lose(s, t))
         \/ (\E moving \in SUBSET DOMAIN graph :
               Republish(moving) \/ \E t \in Stamp : NewKeyframe(t, moving))
  PROVE  /\ UNCHANGED nodeVars
         /\ (MapInv => \A s \in Streams : gone[s] \subseteq gone'[s])
<1>1. UNCHANGED nodeVars
  BY DEF Tick, Lose, Republish, NewKeyframe
<1>2. ASSUME MapInv, NEW s \in Streams PROVE gone[s] \subseteq gone'[s]
  BY <1>2 DEF Tick, Lose, Republish, NewKeyframe, MapInv, MapTypes
<1> QED BY <1>1, <1>2

\* A stamp the stream has passed, and that is not buffered, is gone: it has
\* been in flight for longer than any message may be.
LEMMA PassedIsGone ==
  ASSUME Lag <= Grace,
         NEW n \in Nat, NEW inFlight, NEW lost, NEW held \in SUBSET Stamp,
         \A t \in Stamp : t <= n <=> t \in inFlight \cup lost \cup held,
         \A t \in inFlight : n - t <= Lag,
         NEW t \in Stamp, t \notin held, StreamPassed(held, t)
  PROVE  t \in lost
<1>1. PICK newest \in held : newest > t + Grace
  BY DEF StreamPassed
<1>2. /\ newest \in Int /\ t \in Int /\ newest \in Stamp
  BY <1>1 DEF Stamp
<1>3. newest <= n
  BY <1>1, <1>2
<1>4. t <= n /\ ~(n - t <= Lag)
  BY <1>1, <1>2, <1>3, MappingAssumption
<1> QED BY <1>4

\* Every slot the build adds without data lost one of its inputs for good.
LEMMA BuildSkipsGone ==
  ASSUME MapInv, MapInv', Lag <= Grace,
         OnTraj \/ \E s \in Streams : \E t \in flight[s] : OnInput(s, t)
  PROVE  \A k \in Len(tiles) + 1 .. Len(tiles') :
           ~tiles'[k].valid => \E s \in Streams : traj'[k].stamp \in gone'[s]
<1>1. /\ tiles \in Seq(Tile) /\ traj' \in Seq(KeyPose) /\ Len(tiles) <= Len(traj')
  BY TrajTaken DEF OnInput, MapInv, MapTypes, TrajNamesGraph
<1> DEFINE b == TryBuild(buf', traj')
<1>2. /\ b \in Seq(Tile) /\ Len(b) <= Len(traj')
      /\ \A k \in Len(tiles) + 1 .. Len(b) :
           /\ b[k].valid <=> \A s \in Streams : traj'[k].stamp \in buf'[s]
           /\ Settled(buf', traj'[k].stamp)
  BY <1>1, BuildFacts
<1>3. tiles' = b \/ tiles' = Corrected(b, traj')
  BY DEF OnTraj, OnInput
<1> HIDE DEF b
<1>4. Len(tiles') = Len(b) /\ \A k \in 1 .. Len(b) : tiles'[k].valid = b[k].valid
  <2>1. CASE tiles' = b
    BY <2>1
  <2>2. CASE tiles' = Corrected(b, traj')
    <3>1. /\ Len(Corrected(b, traj')) = Len(b)
          /\ \A k \in 1 .. Len(b) : Corrected(b, traj')[k].valid = b[k].valid
      BY <1>1, <1>2, CorrectedFacts
    <3> QED BY <2>2, <3>1
  <2> QED BY <1>3, <2>1, <2>2
<1>5. Len(tiles) \in Nat /\ Len(b) \in Nat /\ Len(traj') \in Nat
  BY <1>1, <1>2, LenProperties
<1>6. ASSUME NEW k \in Len(tiles) + 1 .. Len(tiles'), ~tiles'[k].valid
      PROVE  \E s \in Streams : traj'[k].stamp \in gone'[s]
  <2>1. k \in 1 .. Len(b) /\ k \in Len(tiles) + 1 .. Len(b) /\ k \in 1 .. Len(traj')
    BY <1>2, <1>4, <1>5
  <2>2. traj'[k].stamp \in Stamp
    <3>1. traj'[k] \in KeyPose
      BY <1>1, <2>1, ElementOfSeq
    <3> QED BY <3>1 DEF KeyPose
  <2>3. ~b[k].valid
    BY <1>4, <1>6, <2>1
  <2>4. PICK s \in Streams : traj'[k].stamp \notin buf'[s]
    BY <1>2, <2>1, <2>3
  <2>5. StreamPassed(buf'[s], traj'[k].stamp)
    BY <1>2, <2>1, <2>4 DEF Settled
  <2>6. /\ now' \in Nat /\ buf'[s] \in SUBSET Stamp
        /\ \A t \in Stamp : t <= now' <=> t \in flight'[s] \cup gone'[s] \cup buf'[s]
        /\ \A t \in flight'[s] : now' - t <= Lag
    BY DEF MapInv, MapTypes, StampsKept
  <2>7. traj'[k].stamp \in gone'[s]
    <3> DEFINE t == traj'[k].stamp
               B == buf'[s]
               F == flight'[s]
               G == gone'[s]
               n == now'
    <3>1. /\ n \in Nat /\ B \in SUBSET Stamp /\ t \in Stamp /\ Lag <= Grace
          /\ \A u \in Stamp : u <= n <=> u \in F \cup G \cup B
          /\ \A u \in F : n - u <= Lag
          /\ StreamPassed(B, t) /\ t \notin B
      BY <2>2, <2>4, <2>5, <2>6
    <3> HIDE DEF t, B, F, G, n
    <3>2. t \in G
      BY <3>1, PassedIsGone
    <3> QED BY <3>2 DEF t, G
  <2> QED BY <2>7
<1> QED BY <1>6

\* What try_build does with a trajectory just received.
LEMMA BuildsOnTraj ==
  ASSUME MapInv, OnTraj
  PROVE  LET b == TryBuild(buf, traj') IN
         /\ traj' \in Seq(KeyPose) /\ b \in Seq(Tile)
         /\ Len(tiles) <= Len(b)
         /\ \A k \in 1 .. Len(tiles) : b[k] = tiles[k]
         /\ Len(b) < Len(traj') => ~Settled(buf, traj'[Len(b) + 1].stamp)
  BY TrajTaken, BuildFacts DEF MapInv, MapTypes

\* No handler changes whether a slot it finds holds a tile.
LEMMA KeptSlots ==
  ASSUME MapInv, OnTraj \/ \E s \in Streams : \E t \in flight[s] : OnInput(s, t)
  PROVE  \A k \in 1 .. Len(tiles) : tiles'[k].valid = tiles[k].valid
<1>1. CASE OnTraj
  <2> DEFINE b == TryBuild(buf, traj')
  <2>1. /\ traj' \in Seq(KeyPose) /\ b \in Seq(Tile)
        /\ Len(tiles) <= Len(b) /\ \A k \in 1 .. Len(tiles) : b[k] = tiles[k]
    BY <1>1, BuildsOnTraj
  <2>2. tiles' = Corrected(b, traj')
    BY <1>1 DEF OnTraj
  <2> HIDE DEF b
  <2>3. \A k \in 1 .. Len(b) : tiles'[k].valid = b[k].valid
    BY <2>1, <2>2, CorrectedFacts
  <2>4. \A k \in 1 .. Len(tiles) : k \in 1 .. Len(b)
    <3>1. Len(tiles) \in Nat /\ Len(b) \in Nat
      BY <2>1, LenProperties DEF MapInv, MapTypes
    <3> QED BY <2>1, <3>1
  <2> QED BY <2>1, <2>3, <2>4
<1>2. CASE \E s \in Streams : \E t \in flight[s] : OnInput(s, t)
  BY <1>2, BuildFacts DEF OnInput, MapInv, MapTypes, TrajNamesGraph
<1> QED BY <1>1, <1>2

\* SkippedOnlyIfGone holds whenever no message is later than the grace
\* window: the builder never gives up a keyframe whose inputs may still come.
THEOREM SkipsOnlyLostKeyframes ==
  ASSUME Lag <= Grace PROVE Spec => []SkippedOnlyIfGone
<1>1. Init => SkippedOnlyIfGone
  BY DEF Init, SkippedOnlyIfGone
<1>2. MapInv /\ MapInv' /\ SkippedOnlyIfGone /\ [Next]_vars => SkippedOnlyIfGone'
  <2> SUFFICES ASSUME MapInv, MapInv', SkippedOnlyIfGone, [Next]_vars,
                      NEW k \in DOMAIN tiles', ~tiles'[k].valid
               PROVE  \E s \in Streams : traj'[k].stamp \in gone'[s]
    BY DEF SkippedOnlyIfGone
  <2>1. CASE /\ UNCHANGED nodeVars
             /\ \A s \in Streams : gone[s] \subseteq gone'[s]
    BY <2>1 DEF SkippedOnlyIfGone, nodeVars
  <2>2. CASE Restart
    BY <2>2 DEF Restart
  <2>3. CASE OnTraj \/ \E s \in Streams : \E t \in flight[s] : OnInput(s, t)
    <3>1. /\ Len(tiles) \in Nat /\ Len(tiles') \in Nat /\ Len(traj) \in Nat
          /\ Len(graph) \in Nat /\ DOMAIN tiles = 1 .. Len(tiles)
          /\ DOMAIN tiles' = 1 .. Len(tiles')
      BY LenProperties DEF MapInv, MapTypes
    <3>2. CASE k \in Len(tiles) + 1 .. Len(tiles')
      BY <2>3, <3>2, BuildSkipsGone
    <3>3. CASE k \in 1 .. Len(tiles)
      <4>1. tiles'[k].valid = tiles[k].valid
        BY <2>3, <3>3, KeptSlots
      <4>2. traj'[k].stamp = traj[k].stamp
        <5>1. k \in 1 .. Len(traj)
          BY <3>1, <3>3 DEF MapInv, TrajNamesGraph
        <5>2. CASE OnTraj
          <6>1. Names(traj, traj')
            BY <5>2, TrajTaken
          <6> QED BY <5>1, <6>1 DEF Names
        <5>3. CASE \E s \in Streams : \E t \in flight[s] : OnInput(s, t)
          BY <5>3 DEF OnInput
        <5> QED BY <2>3, <5>2, <5>3
      <4>3. \A s \in Streams : gone[s] \subseteq gone'[s]
        <5>1. CASE OnTraj
          BY <5>1 DEF OnTraj
        <5>2. CASE \E s \in Streams : \E t \in flight[s] : OnInput(s, t)
          BY <5>2 DEF OnInput, MapInv, MapTypes
        <5> QED BY <2>3, <5>1, <5>2
      <4> QED BY <3>1, <3>3, <4>1, <4>2, <4>3 DEF SkippedOnlyIfGone
    <3> QED BY <3>1, <3>2, <3>3
  <2>4. CASE UNCHANGED vars
    BY <2>4 DEF vars, envVars, nodeVars, SkippedOnlyIfGone
  <2> QED BY <2>1, <2>2, <2>3, <2>4, WorldSteps DEF Next
<1> QED BY <1>1, <1>2, MapInvariant, PTL DEF Spec

\* TilesFollowGraph holds whatever was built early, late or not at all.
THEOREM TilesAreReplaced == Spec => []TilesFollowGraph
<1>1. Init => TilesFollowGraph
  BY DEF Init, TilesFollowGraph
<1>2. MapInv /\ MapInv' /\ TilesFollowGraph /\ [Next]_vars => TilesFollowGraph'
  <2> SUFFICES ASSUME MapInv, MapInv', TilesFollowGraph, [Next]_vars
               PROVE  TilesFollowGraph'
    OBVIOUS
  <2>1. CASE UNCHANGED nodeVars
    BY <2>1 DEF TilesFollowGraph, nodeVars
  <2>2. CASE Restart
    BY <2>2 DEF Restart, TilesFollowGraph
  <2>3. CASE OnTraj
    <3>1. tiles' = Corrected(TryBuild(buf, traj'), traj')
      BY <2>3 DEF OnTraj
    <3>2. TryBuild(buf, traj') \in Seq(Tile) /\ traj' \in Seq(KeyPose)
      BY <2>3, BuildsOnTraj
    <3>3. DOMAIN tiles' = 1 .. Len(TryBuild(buf, traj'))
      <4>1. tiles' \in Seq(Tile) /\ Len(tiles') = Len(TryBuild(buf, traj'))
        BY <3>1, <3>2, CorrectedFacts
      <4> QED BY <4>1, LenProperties
    <3> QED BY <3>1, <3>2, <3>3, CorrectedFacts DEF TilesFollowGraph
  <2>4. ASSUME NEW s \in Streams, NEW t \in flight[s], OnInput(s, t)
        PROVE  TilesFollowGraph'
    <3>1. traj' = traj /\ tiles' = TryBuild(buf', traj)
      BY <2>4 DEF OnInput
    <3>2. /\ tiles' \in Seq(Tile)
          /\ \A k \in 1 .. Len(tiles) : tiles'[k] = tiles[k]
          /\ \A k \in Len(tiles) + 1 .. Len(tiles') : tiles'[k].pose = traj[k].pose
      <4>1. tiles \in Seq(Tile) /\ traj \in Seq(KeyPose) /\ Len(tiles) <= Len(traj)
        BY DEF MapInv, MapTypes, TrajNamesGraph
      <4> DEFINE b == TryBuild(buf', traj)
      <4>2. /\ b \in Seq(Tile)
            /\ \A k \in 1 .. Len(tiles) : b[k] = tiles[k]
            /\ \A k \in Len(tiles) + 1 .. Len(b) : b[k].pose = traj[k].pose
        BY <4>1, BuildFacts
      <4> HIDE DEF b
      <4>3. tiles' = b
        BY <3>1 DEF b
      <4> QED BY <4>2, <4>3
    <3>3. /\ Len(tiles) \in Nat /\ Len(tiles') \in Nat
          /\ DOMAIN tiles = 1 .. Len(tiles) /\ DOMAIN tiles' = 1 .. Len(tiles')
      BY <3>2, LenProperties DEF MapInv, MapTypes
    <3>4. ASSUME NEW k \in DOMAIN tiles', tiles'[k].valid, k < Len(traj)
          PROVE  tiles'[k].pose = traj[k].pose
      <4>1. k \in 1 .. Len(tiles) \/ k \in Len(tiles) + 1 .. Len(tiles')
        BY <3>3
      <4> QED BY <3>2, <3>3, <3>4, <4>1 DEF TilesFollowGraph
    <3> QED BY <3>1, <3>4 DEF TilesFollowGraph
  <2>5. CASE UNCHANGED vars
    BY <2>5 DEF vars, nodeVars, TilesFollowGraph
  <2> QED BY <2>1, <2>2, <2>3, <2>4, <2>5, WorldSteps DEF Next
<1> QED BY <1>1, <1>2, MapInvariant, PTL DEF Spec

\* Every tile is shown as it is, and nothing else.
AllShown ==
  /\ \A k \in DOMAIN tiles :
       tiles[k].valid => k \in DOMAIN shown /\ shown[k] = tiles[k]
  /\ \A k \in DOMAIN shown :
       shown[k].valid => k \in DOMAIN tiles /\ shown[k] = tiles[k]

\* NothingHeldBack: each call of try_build runs to the first keyframe it
\* must wait for, nothing else settles one, and the slots it adds without
\* publishing are empty.
THEOREM BuildsWhatItCan == Spec => []NothingHeldBack
<1>1. Init => NothingHeldBack
  BY DEF Init, NothingHeldBack
<1>2. MapInv /\ MapInv' /\ NothingHeldBack /\ [Next]_vars => NothingHeldBack'
  <2> SUFFICES ASSUME MapInv, MapInv', NothingHeldBack, [Next]_vars
               PROVE  NothingHeldBack'
    OBVIOUS
  <2>1. CASE UNCHANGED nodeVars
    BY <2>1 DEF NothingHeldBack, nodeVars
  <2>2. CASE Restart
    BY <2>2 DEF Restart, NothingHeldBack
  <2>3. CASE OnTraj
    <3>1. /\ tiles' = Corrected(TryBuild(buf, traj'), traj') /\ buf' = buf
          /\ TryBuild(buf, traj') \in Seq(Tile) /\ traj' \in Seq(KeyPose)
      BY <2>3, BuildsOnTraj DEF OnTraj
    <3>2. Len(tiles') = Len(TryBuild(buf, traj'))
      BY <3>1, CorrectedFacts
    <3>3. Len(tiles') < Len(traj') => ~Settled(buf, traj'[Len(tiles') + 1].stamp)
      BY <2>3, <3>2, BuildsOnTraj
    <3>4. shown' = tiles'
      BY <2>3 DEF OnTraj, Publish
    <3> QED BY <3>1, <3>3, <3>4 DEF NothingHeldBack
  <2>4. ASSUME NEW s \in Streams, NEW t \in flight[s], OnInput(s, t)
        PROVE  NothingHeldBack'
    <3>1. /\ tiles' = TryBuild(buf', traj) /\ traj' = traj
          /\ tiles' \in Seq(Tile) /\ tiles \in Seq(Tile) /\ shown \in Seq(Tile)
          /\ Len(tiles) <= Len(tiles')
          /\ \A k \in 1 .. Len(tiles) : tiles'[k] = tiles[k]
          /\ Len(tiles') < Len(traj) => ~Settled(buf', traj[Len(tiles') + 1].stamp)
      BY <2>4, BuildFacts DEF OnInput, MapInv, MapTypes, TrajNamesGraph
    <3>2. AllShown'
      <4>1. CASE NewTile(tiles')
        BY <2>4, <4>1 DEF OnInput, Publish, AllShown
      <4>2. CASE ~NewTile(tiles')
        <5>1. shown' = shown /\ \A k \in Len(tiles) + 1 .. Len(tiles') : ~tiles'[k].valid
          BY <2>4, <4>2 DEF OnInput, NewTile
        <5>2. /\ Len(tiles) \in Nat /\ Len(tiles') \in Nat
              /\ DOMAIN tiles = 1 .. Len(tiles) /\ DOMAIN tiles' = 1 .. Len(tiles')
          BY <3>1, LenProperties
        <5>3. \A k \in DOMAIN tiles' : tiles'[k].valid => k \in DOMAIN tiles
          BY <5>1, <5>2
        <5>4. \A k \in DOMAIN tiles : k \in DOMAIN tiles' /\ tiles'[k] = tiles[k]
          BY <3>1, <5>2
        <5>5. AllShown
          BY DEF NothingHeldBack, AllShown
        <5> QED BY <5>1, <5>3, <5>4, <5>5 DEF AllShown
      <4> QED BY <4>1, <4>2
    <3> QED BY <3>1, <3>2 DEF NothingHeldBack, AllShown
  <2>5. CASE UNCHANGED vars
    BY <2>5 DEF vars, nodeVars, NothingHeldBack
  <2> QED BY <2>1, <2>2, <2>3, <2>4, <2>5, WorldSteps DEF Next
<1> QED BY <1>1, <1>2, MapInvariant, PTL DEF Spec
=============================================================================
