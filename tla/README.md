# sonar-slam-cpp in TLA+

A verification project for the imaging-sonar SLAM stack in this repository: TLA+
modules translated from its sources, TLC configurations that check them on small
instances, and theorems about them proved with TLAPS for every instance.
Paths below are relative to the repository root.

## 1. Inventory

### The system

Five ROS 2 nodes exchange stamped messages over best-effort and latched topics.

    DVL, IMU, gyro, depth --> dead_reckoning_node --odometry--> feature / slam
    sonar --> feature_extraction_node --cloud--+
    sonar --------------------ping-------------+--> slam_node --trajectory--> mapping_node
                                               +-----ping, cloud-----------> mapping_node
    operator (/initialpose, undo), USBL ------------> slam_node --map->odom TF, pose

| Component (source) | State it keeps | Operations | Hard behaviour |
|---|---|---|---|
| Pose-graph back-end (`src/core/slam_core.cpp`, `slam_core.hpp`) | keyframes, buffered factors, the iSAM2 estimator, a mirror of every factor it holds, loop books (window, quarantine, counters), undo stack | add a keyframe, close loops, correct by hand, undo, position fix, load a map, relocalise; every one ends in `update_factor_graph` | any solve may throw, before or after the mirror; a loop round may be judged bad after it was applied; the recovery itself may throw |
| SLAM node (`src/nodes/slam_node.cpp`) | mutex, the synchronizer, TF, visualisation worker | `slam_callback`, services, USBL, trajectory publication | which order callbacks may enter the back-end in; republished trajectories |
| Approximate synchronizer (`include/sonar_slam_cpp/approx_sync.hpp`) | one pending queue per stream | `add_primary`, `add_secondary`, `try_emit` | interleaved arrivals, stalls, overflow, clocks that jump back |
| Dead-reckoning node (`src/nodes/dead_reckoning_node.cpp`) | pose, stamp integrated to, last velocity, coast budget | `send_odometry`, `coast_step` | late pairs after an outage the timer already coasted over, rewinds |
| Mapping node (`src/nodes/mapping_node.cpp`) | ping and feature buffers, last trajectory, tiles | `on_ping`, `on_feature`, `on_traj`, restart | inputs in any order, lost or late, stale and queued trajectories, corrections while building |
| Correctable grid (`src/core/mapping.cpp`, `mapping.hpp`) | three growing grids, cached tiles | `add_keyframe`, `add_skipped`, `update_pose` | subtract-and-add corrections while the grids shift |
| PCM clique search (`Slam::verify_pcm`) | the queue of closures | largest consistent set by Bron-Kerbosch | reverted closures stay in the queue; a recursion that cuts branches by a pivot |
| Map file (`Slam::save_map`, `load_map`) | a file and its temporary | save, load | crash or full disk while saving |
| USBL association (`SlamNode::usbl_callback`) | keyframes already fixed | match, interpolate, gate | stamps out of order, one fix per keyframe |
| Visualisation (`slam_node.cpp`) | busy flag, cached cloud, its time | schedule, draw, cache, republish | a detached thread and a timer, publishing outside the lock |
| map->odom timer (`slam_node.cpp`) | last transform | republish | stamps that must not regress |
| Loop closure search (`Slam::initialize_nonsequential_scan_matching`) | none | candidates, revisit floor, choice of one visit and of the keyframe the factor goes to | a pass tied to its own trail, two visits merged |
| Scan matching (`ICP::compute_batch` in `src/core/cloud_ops.cpp`) | samples of a registration | a pool of threads against a time cap | which guesses get sampled must not depend on the schedule |
| Feature extraction (`src/nodes/feature_extraction_node.cpp`) | tilt buffer, cached maps and their key, detector and parameters | `callback`, tilt subscription, parameter updates | two streams on two clocks; allocations that fail half way; requests refused half way |
| CFAR detector (`src/core/cfar.cpp`, `src/cuda/cfar_cuda.cu`) | window and rank | `detect` on one of three implementations | twins that must agree cell by cell |
| GPU remap cache (`src/cuda/remap_cuda.cu`, `cuda_common.cuh`, `src/core/gpu_dispatch.cpp`) | device buffers, key of the uploaded maps, the disabled flag; one per process | `remap_u8_cuda`, `disable` | consumers that share it, any step failing, recycled addresses |
| Kalman, gyro and relay nodes, covariances, geometry, adapters, export, tools | numeric | numeric | numbers rather than control |

All callbacks of a node run under its one mutex, so what interleaves is, but for the
visualisation thread, the ICP pool and the GPU wrappers, not code inside a node: it is the arrival of messages, the
failure of steps, and the nodes with each other.

### What makes each part correct

* Back-end: an operation takes effect whole or leaves no trace; the estimator, the
  mirror and the published poses agree; a rejected closure stays out; the number of
  reverts is bounded; undo always removes the newest live correction; nothing enters
  a loaded map before the session is located in it.
* Loop closure: a closure is registered against one earlier visit, its samples do not
  depend on how the threads are scheduled, a largest consistent set of the queue is what
  is inserted, and accepted closures cannot ratchet a link of
  the chain apart, round by round.
* Synchronizer: a pair is final when it is emitted; nothing is reported lost that
  could still be matched; every primary has exactly one fate.
* Dead reckoning: the motion of every instant is integrated exactly once.
* Mapping node: a keyframe is skipped only if its inputs can never come; the in-order
  build never wedges; tiles follow the graph; what is built is shown.
* USBL association: a keyframe gets one fix, a fix its nearest keyframe, moved by the
  motion between the two.
* Visualisation: newer maps replace older ones, and the last one is what is shown.
* Feature extraction: a frame is judged by where the head was when it was taken; it is mapped
  with the maps of its own geometry, and its mask is the same on every processor; a
  request to tune it is taken whole or leaves no trace.
* Map file: the old map or the new one, and the answer says which; only whole files load.
* Grid: the grids are the sum of the tiles at the poses the tiles have now.

The hazards these properties answer to are listed, at their lines, in
`PROJECT.json` (`hazards`), with those no property covers yet.

## 2. Modules

| Module | Models | State and actions against the code |
|---|---|---|
| `Factors` | the factors of the graph | a factor is its kind and what it constrains; `Hole` is the null entry an undo leaves |
| `PoseLedger` | abstract: what callers are promised | `shown`, `n`, `stack`; five atomic operations |
| `SlamBackend` | `class Slam` driven by `SlamNode` | each member is a variable of the same name; a callback is a handler (`AddPrior`, `AddSequential`, `Relocalize`, `ManualCorrection`, `UndoManual`, `PositionPrior`, `Nssm...`), then the round: `SolveOk` or `SolveThrow`, then `Commit...`, `Revert`, `PostSolveThrow`, `LateThrow` or `StrandLoops`; a throw at each point that leaves another state behind |
| `ChainTear` | the chain-tear check of `update_factor_graph` and `tear_baseline_` | `FrameRound`, `FixRound`, `CorrectionRound` leave the links anyhow; `LoopsAccepted` and `LoopsReverted` are the verdict; `Maintained` is what converge-hard rounds do to the baselines |
| `Revisit` | `initialize_nonsequential_scan_matching` up to the target cloud | operators: candidates, the floor, the runs of keyframes (`Begins`, `Run`) and `Episode`, the one that is picked; `Found` is the outcome |
| `IcpBatch` | `ICP::compute_batch` with `compute_icp_with_cov` | `Take`, `Skip`, `Start`, `Finish` are a worker's turn at a guess, `Expire` the clock; `Outcome` is what is returned, `Sequential` what the loop it replaces would have |
| `Pcm` | `verify_pcm`, `find_cliques` | operators: `Voting` and `Adjacency` build the graph, `FindCliques` is the recursion, `VerifyPcm` the answer; `IsLargest` is what it promises |
| `LoopClosure` | a frame through `slam_callback` to the judged round | composes the four: `Frame`, then `Search`, `Sample`, `Offer` if no gate refuses, and `Insert` and `Judge` if a clique forms; `Between` is any other round |
| `ApproxSync` | `ApproxSync2`, `ApproxSync3` | `qa`, `qs` are `qa_`, `qb_`, `qc_`; `AddPrimary`, `AddSecondary` each end in `TryEmit`; the sets of emitted and lost primaries are what the callbacks were told |
| `DeadReckoning` | the time line of the dead-reckoning node | `Pair` is `send_odometry` with one disjunct per path through it; `Coast`, `Reanchor` are `coast_step` |
| `MappingNode` | the mapping node and its world | `OnInput`, `OnTraj`, `Restart` are the node; `Tick`, `Lose` the streams; `NewKeyframe`, `Republish` are `slam_node`'s publications |
| `MappingGrid` | `class Mapping` | `Place` is `fit_grid`, `adjust_bounds`, `inc_grid`; `UpdatePose` takes out and places again |
| `UsblPriors` | `usbl_callback`, `dr_pose_at`, the times `is_keyframe` admits | `UsblFix` is the callback, `IsBest` its search, `DrPoseAt` the binary search; a prior also remembers how much of the chain there was |
| `VizWorker` | the map cloud of `slam_node` | `Keyframe`, `Correct` end in `schedule_viz_rebuild`; `Draw`, `Cache`, `Finish` are the thread, split where it publishes, locks and clears the flag; `Republish` is the timer |
| `FeatureGate` | `tilt_at`, the tilt subscription and the gate in `callback` | `Tilt`, `Ping`; `Tick` moves the clock and the head, `Rewind` is a looped bag |
| `Tuning` | `on_parameters`, the constructor's checks of `CFAR` | `SetParameters`: stage, build the detector, then commit members |
| `Detector` | `CFAR::detect` and its twins | `Window`, `Prefix`, `Kernel` compute the mask of one beam, `Detect` dispatches; `Agrees` compares them over every beam |
| `FeatureNode` | the feature node | composes the three: pings, samples and requests interleave |
| `MapCache` | `generate_map_xy`, `remap_u8`, `remap_u8_cuda`, `ensure_all` | `CacheHit`, `Rebuild`, `Oversized` are the host; `Enter` asks `available()`, then one action per way through the wrapper, which holds its mutex |
| `MapStore` | `save_map`, `load_map` | `Open`, `Write`, `DiskFull`, `Rename`, `RenameFails`, `CleanUp` are the steps of a save that the file system sees; `Start` loads |
| `MC*` | the instances TLC checks | |
| `SlamBackendProofs`, `MappingNodeProofs`, `MappingGridProofs`, `MapStoreProofs`, `LoopClosureProofs` | the theorems | about the module each is named after |
| `SlamNodeProofs` | the theorems | about `UsblPriors` and `VizWorker` |
| `FeatureNodeProofs` | the theorems | about `FeatureNode` and `MapCache` |
| `DeadReckoningProofs` | the theorems | about `DeadReckoning` and the synchronizer that feeds it, `ApproxSync` |

`SlamBackend` refines `PoseLedger` (`Ledger == INSTANCE PoseLedger WITH ...`). The
undone factor counts as still on the stack until the undo commits, and the keyframe
of a running round as not yet there.

### Abstractions

* **Numbers.** Poses, scans and covariances are not modelled. Every numeric verdict
  (scan match, gate, PCM consistency, yaw RMS, chain tear) is a free choice, so a
  property holds whatever the numbers are. The poses shown are the *set of factors*
  whose optimum they are (`swept`); that the extra iterations of a correction round
  converge is taken for granted.
* **The estimator.** iSAM2 is the set of factors it holds. It may throw in any update.
  An update that throws gives no guarantee (`slam_core.cpp:1689-1695`), and the feed of a
  rebuild is one: the fresh estimator then holds nothing, or all it was fed with a Bayes
  tree that may be partial. Either way it holds `Poison`, which nothing in the code looks
  at. Whether a round may go on is decided by what the code looks at, `Readable`: the
  estimate is not empty, has no more poses than there are keyframes, and misses none
  before its last (`slam_core.cpp:1736-1749`). A round may commit on a poisoned
  estimator; its poses are those of the committed factors, but not their optimum. That a
  sound estimator would be solved to the optimum is taken for granted. Memory exhaustion
  *while factors are buffered* is not modelled. After the sweep it is: in loop rounds
  before and after the marks are made permanent (`LateThrow`, `StrandLoops`), in others
  with `LateThrows`. `stranded` is an auxiliary variable: the sources whose round threw
  after `pending_loops_` was cleared.
* **Tears.** The ratio of a link is a small integer; what a solve makes of the links is a
  free choice, so the verdicts are not. `ChainTear` follows the first links of a chain
  that goes on growing, and a history variable records what rounds without loops
  stretched a link to.
* **The search and the samples.** How many points of each keyframe are in the fan is free,
  as is what becomes of a guess, decided when it is done.
* **The clique search.** Closures are their places in the queue. Which pairs pass the
  chi-squared test is free, and so every graph over the queue is tried. The cliques found are a
  set: which of several longest ones is inserted is left open.
* **The detector.** One beam, as the columns are independent. Intensities are integers, as
  8-bit images have them, natural numbers: sums are exact in `float`. The threshold factor is one integer,
  and a `Pfa` can be solved for or not. Of the filter's
  parameters, which are treated alike, `skip` is kept.
* **Parameters** that are numbers count tenths. A decimal is taken for an int member and
  cut (`AsInt`), by a request as at startup; rclcpp stores it as it was set, so that
  `ros2 param get CFAR.Ntc` may answer 40.9 while the detector has 40. `TuningIsAtomic`
  therefore compares the members with what a relaunch would make of the stored
  parameters. A value of a wrong type throws in `as_double` or `as_string` and is refused
  with the rest of its request, as an unknown algorithm is. A number that no `int` holds
  is not modelled.
* **Stamps.** One tick of `MappingNode` is a sonar frame; the 2 ms matching tolerance
  is below it. Keyframe times ascend there; clocks that jump back, whose frames
  `is_keyframe` admits, are the subject of `UsblPriors`.
  `publish_period` is 0, as `config/mapping.yaml` ships it.
* **Trajectories** are latched: up to `TrajDepth` samples wait, the oldest is dropped
  when the subscription is full, and one not yet sent may be overwritten by the next.
  A restarted node gets the last.
* **Grid cells.** Keyframes sit on whole cells with quarter-turn headings, and
  evidence is integral, so that "the grid is the sum of the tiles" can be an equality.
  The code sums `float32`; rounding is out of scope.
* **Dead reckoning.** Position is how often each tick's motion was added. The
  attitude stream may be uneven. A rewind restarts all clocks together. The keyframes
  the node keeps for display are left out. A velocity passes the gate or does not; one
  that is NaN is never greater than the limit (`dead_reckoning_node.cpp:354`): not modelled.

* **USBL fixes.** The innovation gate, a failed solve and an unmatched fix leave no trace
  but a counter and are left out; poses are which keyframes they were interpolated
  from. Frames and fixes of a pass that ended are lost with it.
* **The head** is level or steep; an angle interpolated between one of each may be
  either; that two opposite steep ones interpolate to level (`feature_extraction_node.cpp:310-312`) is not modelled. A tilt sample arrives within `TiltLate` and a stream that is there keeps on; the
  property says nothing of frames the buffer does not reach back to.
* **Sonar maps** are the geometry they were computed for. Host buffers are addresses that
  the allocator hands out again. The small copies that follow the maps into the cache
  (`feature_extraction_node.cpp:391-399`) do not throw.
* **Map files** are sequences of blocks that may be torn. A kill keeps what was written; a
  power cut may cut short what was not written back.
* **The drawn map** is the version of the back-end it shows. Ages replace times and
  saturate; a clock that jumps back makes them negative.

## 3. What the runs check

| Run | Instance | Shows |
|---|---|---|
| `backend` | 4 keyframes, a map of 1 loaded, separations and window of 1, cliques of 2, 2 corrections, 1 fix | nothing left behind by a failed round; estimator, mirror, poses, chain and undo stack agree, on an estimator whose rebuild threw too; the records of a closure agree, but for the stranded ones; quarantine; bounded reverts; the map gate; refinement of `PoseLedger` |
| `loop_closure` | 2 measured or loaded links, tears up to 5, 4 guesses on 2 threads, newest keyframe 5 or 7, at most 3 points each, queues of up to 5 closures with `min_pcm` 3 | accepted rounds cannot ratchet a link; the batch is some run of the sequential loop; one visit, whole, and not this pass's trail; what is inserted is a largest agreement of closures nobody rejected |
| `sync` | 3 streams, 4 stamps, lag 1, queues of 2 and 4, one jump back per stream, 9 messages | pairs are final and nothing is falsely reported unmatched while clocks are steady; nothing ready waits, each primary has one fate, over jumps too |
| `reckoning` | 7 ticks, coast 2, span 3, lateness 2, one rewind | each tick integrated once or held; spikes stay out |
| `usbl` | 5 keyframes, 5 stamps, two passes | one fix per keyframe; the nearest of its pass; motion interpolated next to the fix |
| `viz` | 6 versions, periods 1 and 2, two jumps back, by a tick or for good | clouds in order; the topic settles on the last one; the map is re-emitted for ever, also if the clock never catches up (liveness) |
| `feature_node` | 4 ticks, buffer of 3, samples late by 1, pings by 3, one rewind; 2 of 11 requests, decimals among them; 7 bins of 3 intensities, order statistics of at most 2 cells on the device | frames judged by their own time; the buffer that is searched ascends and is bounded; a request is whole or without trace; every detector it can lead to gives one mask |
| `map_cache` | 2 consumers, 4 geometries, 3 rebuilds, 6 addresses | no image through unwritten memory or through mixed maps; a node that is alone on the device is given the maps of its ping |
| `map_store` | 3 keyframes, 3 saves, any kills and failures, a power cut, a bad copy | old or new; reports are true; only whole files load, and they load exactly |
| `mapping` | stamps up to 5, 2 keyframes, one move each, one restart | what can be built is built and shown; tiles follow; skips only what is lost; every keyframe settles (liveness) |
| `grid_sums` | 2 tiles, 3 positions, 2 headings, growth by 2 | the grids are the sum of the tiles; growth displaces nothing; the box covers |

One run is expected to fail, `loop_blame`: the comment above the chain-tear check says a link
convicts a round only if it is worse than it already was, but the check compares with a
baseline that frames and fixes do not move. A link a fix has stretched since convicts every
loop round, whatever it does, until the link heals.

### Where else the code and its comments differ

Met while modelling; each can be seen in the modules, under the bounds or the question
given, but no run is kept for it.

| Source | What the comment says, and what the code does |
|---|---|
| `approx_sync.hpp:64-66`, `:128` | evicted secondaries "can never match a pending or future in-order primary", but with no primary pending eviction follows the newest secondary: a primary later than the queue reaches is reported unmatched. `NoFalseStarvation` fails with `Lag` 4, `QueueSize` 2, `MaxSecondary` 6, `Horizon` 5 |
| `dead_reckoning_node.cpp:465-466` | "the coasted distance is never double-counted", but absorbing a late pair renews the coast budget; the next pair can then be 5 s behind and is taken for a rewound bag. `NeverDoubleCounted` fails with the deployed `dvl_coast: 3.0` (`DvlCoast` 3, `MaxGap` 10, `RewindSpan` 5, `MaxLate` 8, `Horizon` 9) |
| `mapping_node.cpp:10-12`, `:264` | "every callback it (re)places the newest keyframe's tile", but the loop of `on_traj` leaves the newest out: `TilesFollowGraph` says `k < Len(traj)` and fails with `k <= Len(traj)`. After a hand correction between keyframes the tile it is attached to moves only with the next keyframe |
| `slam_node.cpp:1080` | "keyframe times are ascending", but a looped bag makes them start over: a fix is moved by the distance to where an earlier pass was. `MotionIsLocal` assumes they ascend and fails without that |
| `slam_node.cpp:327-328`, `:908` | the cached cloud is re-emitted "whenever no keyframe has published one" for a period, but a timer that fires between publish and caching sends the old map after the new one; `TopicSettles` says that it recovers |
| `slam_node.cpp:692-693` | "viz is periodic - the next window retries", but a correction refused by a busy worker (second disjunct of `Schedule`) waits for another keyframe or correction |
| `remap_cuda.cu:88-91` | "BOTH host map pointers disambiguate" two consumers, but versions are counted per node and freed buffers are recycled: `image[c] = Pair(ping[c])` fails with two nodes. Latent: each node is launched in a process of its own |
| `slam_core.cpp:1972-1977`, `:1983` | the catch after the solve says it unwinds a half-swept round, but the snapshot it restores is taken only when loops are pending (`:1678`): a late throw in a correction round leaves the poses of a factor that is gone. `PosesMatchGraph` fails with `LateThrows = TRUE` |
| `slam_core.cpp:1971-1977`, `:1899` | the same catch is to leave no "loop marks with no surviving factors", but a throw after `pending_loops_` is cleared (`:1907`, `:1939`) truncates the factors and un-marks nothing: the closure stays inserted, listed and counted for the session. `LoopBooks` holds without `\ stranded` only if `StrandLoops` is left out |
| `slam_core.cpp:1732-1735`, `:1689-1695` | "a healthy estimator always carries at least the anchor state; an empty estimate means a preceding rebuild failed", but a rebuild that threw in elimination has taken all values and is not empty: rounds commit on it. `pc = "idle" => swept = FactorsOf(committed)` fails |
| `slam_core.cpp:1901-1919` | baselines are kept so that loop rounds do not loosen the check, but one outlives a fix or a frame that healed its link: loop rounds may tear it again up to the baseline and a gate. Hence `RatchetBounded` starts afresh (`Healed`) with converge-hard rounds only |
| `cfar.cpp:45-46`, `:176` | prefix sums are "PROVABLY bit-identical", and are for `Ngc >= 0`. The constructor accepts a negative even `Ngc`, with which the half windows overlap the cell itself |
| `slam_core.cpp:1370-1377` | "either the untouched old map or the complete new one", but nothing is synced before the rename: without its premise `cuts = 0` `OldOrNew` fails |

### Bounds, and why they are enough

* Back-end: an undo interferes with a truncation once there are two corrections and a
  round that fails between them; a loaded chain is shifted by further keyframes. Cliques of
  two form among sources 1, 2 and 3, and the window of 1 slides past the first. `LateThrows`
  is `FALSE`: see the table above. The proofs below drop the other bounds.
* Loop closure: with two links one can be loaded and one measured or seam; tears reach two
  gates beyond the bound and a stretch, which is where a ratchet would pass the limit.
  Four guesses on two threads let a later guess finish before an earlier one, and the cap
  fall between. Keyframe 7 has six earlier ones: room for two visits, a gap and the trail.
  Five closures have 1024 graphs, each with 32 choices of rejected ones: two cliques of
  three that share a closure, or of three and four, compete, and pivots cut branches.
* Synchronizer: the window is `2 * Slop + 1` stamps, one less than the stamps of an epoch,
  so that a stream can overtake it. Nine messages are three of each stream, in any
  order. Queues that reach back over the lag are what makes pairing exact. Once a clock
  has jumped back, stamps no longer tell which message is near, and only the last three
  properties are asked.
* Mapping node: the queue of trajectories holds the graph before and after a move; two
  keyframes are one that moves and one behind it. A lag and a grace of one tick separate late from lost.
* Grid: two tiles overlap, and the three positions force growth on all four sides.
* USBL: with a tick of half a second `KeyDuration` and `MaxDelta` are the deployed 1 s; five
  keyframes are three of one pass and two of the next, so that the search has a middle.
* Visualisation: an age of `-Jump` never catches up, `-1` does. Six versions are two rebuilds, each with a refused one, and more that may overtake
  them if the flag fails.
* Dead reckoning: seven ticks hold an outage longer than the coast, its backlog, and a
  gap wider than `MaxGap`; the proofs drop the bound.
* Feature node: pings may be `PingLate` behind and samples are dropped at three, so that a
  frame can fall out of the buffer; `Slack` lets the clocks disagree after a rewind. The
  requests are each kind of change, accepted and refused, alone and together; two in
  sequence build on each other. Seven bins have an interior for each window that they lead
  to, and intensities 0, 1 and 3 make the statistics fall on either side of a cell.
* Sonar maps: three rebuilds of one node are the fewest that put new maps of a size at the
  addresses of old ones; six addresses leave room for another node's.
* Map file: three saves are one that succeeds, one that is killed, and one that finds
  what the second left. Keyframes with and without points have different layouts.
* `CHECK_DEADLOCK FALSE` in every configuration but those of `VizWorker`, `MapCache` and `MapStore`: stamps, keyframes and corrections are
  bounded, so each instance runs out of inputs.

### Fairness

`MappingNode` and `VizWorker` have liveness. In `MappingNode`, `Tick` is weakly fair: the sonar pings by itself.
`OnInput \/ Lose` is weakly fair for each message: the middleware delivers or loses.
`OnTraj` is weakly fair: the executor runs a callback with data. `NewKeyframe`,
`Republish` and `Restart` are not. The last frame is not lost, and the last restart
comes before it: a keyframe with a lost input is recognised by a later message, so
the streams must outlive the survey.

In `VizWorker` the worker thread, the clock and `Republish` are weakly fair: a thread
runs, and a periodic timer whose condition stays true fires. Keyframes, corrections
and jumps are not.

Each property of a passing run has a mutant in `PROJECT.json`, an operator next to
the definition it replaces, which breaks that property.

## 4. What is proved

For every value of the constants satisfying the module's `ASSUME`:

| Theorem | Module | Needs |
|---|---|---|
| `TypeCorrect`, `NothingIsLeftBehind` | `SlamBackendProofs` | |
| `EstimatorHoldsMirror` | `SlamBackendProofs` | |
| `PosesAreAtomic` | `SlamBackendProofs` | `~LateThrows` |
| `QuarantineIsForGood`, `RevertsBounded` | `SlamBackendProofs` | |
| `UndoPeelsTheNewest`, `MapWaitsForItsAnchor`, `BooksBalance` | `SlamBackendProofs` | |
| `ChainStaysIntact` | `SlamBackendProofs` | `MinStSep > 0 \/ MinRevisitSep > 0` |
| `BackendImplementsLedger` | `SlamBackendProofs` | the same, and `~LateThrows` |
| `MapInvariant`, `TilesAreReplaced`, `BuildsWhatItCan` | `MappingNodeProofs` | |
| `SkipsOnlyLostKeyframes` | `MappingNodeProofs` | `Lag <= Grace` |
| `MotionIsComplete`, `SpikesStayOut` | `DeadReckoningProofs` | |
| `OneFixEach`, `MatchesAreNearest`, `MotionIsFromNextTo`, `DrawnInOrder` | `SlamNodeProofs` | |
| `NodeTypeCorrect`, `SearchedBufferAscends`, `FramesAreJudged`, `TuningNeverSplits`, `FailuresDoNotCorrupt` | `FeatureNodeProofs` | |
| `TwinsNeverPart` | `FeatureNodeProofs` | `Ngc` not negative, at startup and in any request |
| `SavesAreAtomic`, `ReportsAreTrue`, `RoundTrip` | `MapStoreProofs` | |
| `GridsAreSums`, `GrowthDisplacesNone` | `MappingGridProofs` | |
| `TearTypeCorrect`, `NoRatchet`, `ClosuresDoNotRatchet`, `SamplesAreSequential`, `ClosuresAreOneVisit`, `LargestAgreementWins` | `LoopClosureProofs` | |
| `NothingCountsTwice`, `StampsGoForward` | `DeadReckoningProofs` | `MaxLate < RewindSpan` |
| `PairsAreNotHeldBack`, `PrimariesAreAccountedFor` | `DeadReckoningProofs` | |
| `PairsAreFinal`, `StarvationIsReal` | `DeadReckoningProofs` | `Lag < QueueSize`, `[]Uncapped` |

The extra assumptions are real: without `~LateThrows` and without
`MaxLate < RewindSpan` the properties fail, as shown above; `Lag <= Grace` is
what the grace window is for; with both separations 0 the newest keyframe is a
candidate for itself, and its closure would be a factor between a keyframe and itself.
`Uncapped` says that the secondary queues stay below their hard cap, `MaxSecondary`;
with queues shorter than the lag (`Slop = 0`, `QueueSize = 1`, `Lag = 1`) TLC finds a
message reported unmatched whose partner was popped, and with `MaxSecondary = 2` it finds
one that the cap popped. `CFAR`'s constructor takes a negative even `Ngc`, with which the half windows
overlap; nothing of the kind is deployed.

The arguments:

* **Back-end.** `TypeInv` strengthens `TypeOK`: a round that was to add a keyframe has one
  to drop, tentative loops are among the inserted ones and `accepted` counts those, and
  the mirror is at least as long as when the round began (`before`). `RoundInv` says what
  may be buffered, pending or taken out at which point of a round. `PoseInv` follows a
  round by what would remain if it failed: `Standing` is the mirror cut back to `before`
  while the round is judged, `Undoing` the factor an undo has taken out of the mirror but
  not out of the poses. `HoldInv` is the estimator's part and needs no assumption: it holds
  the whole mirror, poisoned or not, or it took nothing when it was rebuilt, and then what a
  round adds to it since. `EmptyInv` is what makes that second case harmless: a rebuild
  with something to feed means that keyframe 0 is there, its first factor is in the mirror
  and no round brings it again; so its pose is missing from the estimate, and
  nothing is `Readable` (`ReadableHolds`) until a rebuild works. With that, the poses show
  exactly `Standing` and `Undoing`, and a loop round's snapshot is what the poses showed;
  each way out (commit, truncation, revert, restore) lands on poses equal to the mirror. `LoopInv` says that a convicted source is not inserted and that every loop
  factor, wherever it is, has an inserted source; a revert convicts a non-empty set of
  pending sources, none convicted before.
* **The ledger.** A step of a round is of one of four kinds: a handler buffers (`Begun`), the
  estimator takes the factors (`Solved`), the round fails (`Unwound`) or is done
  (`Committed`). All but the last leave `Standing` and what hangs on it alone, so each
  invariant of this part is proved for the commit and for the few steps outside
  a round. `ShapeInv` says what the round adds (`Adding`), which its caller determines:
  without it a commit could append anything. `StackInv` places the live hand corrections
  in the mirror, increasing, with an undo under way at the last of them; `OfferInv` and
  `BookInv` tie `inserted`, `pending`, the markers and the loop factors; `MapInv` is the map
  gate while a round runs; `TieInv` says which keyframes have a link and a reading,
  counting those that stay (`Kept`); `Abandoned` and `Closed` tell marks that outlive their round from those with a factor; `BackInv` that a loop reaches back; `FixInv` that a
  fix is in the mirror once. The ledger then sees of a whole callback the commit only:
  every other step leaves the mapped variables as they are.
* **Mapping node.** `MapInv` ties the latched trajectories, the node's trajectory and the
  graph by their stamps (each is a prefix of the next), keeps the tile count at
  most the trajectory's length, and says that any stamp the clock has passed is in
  flight, buffered or gone. A stamp condemned by the grace window is then older than
  `Lag`, hence not in flight, hence gone. The greatest point the build reaches is
  characterised once (`ReachFacts`) and used by all callbacks.
* **Dead reckoning.** `OnceInv`: nothing beyond the published stamp was integrated, and
  if the published stamp is ahead of the clock (only after a rewind) this pass has
  integrated nothing. A pair that goes back further than the span is then, by
  `MaxLate < RewindSpan`, such a case.

* **USBL association.** `FixInv`: within a pass times ascend along the chain and passes follow
  each other. A keyframe of the current pass that the search misses therefore lies
  before one of the same pass that was too old, and is too old itself. A keyframe is
  marked if and only if it has a prior. The binary search (`SearchUnfolds` gives its recursion a
  solution, `SearchIs` follows it) ends at two neighbours with the fix between them, by the
  times at its ends alone; that they are the closest needs that the times ascend.
* **Visualisation.** `OrderInv`: at most one thread, only while the flag is set; it draws a
  state no older than what was drawn, which is no older than what is cached, and it has
  drawn what it is about to cache.
* **Feature node.** `TiltBufSearchable` with the gate's types is inductive: a sample that is
  appended is not older than the last, and one that is starts a new buffer; trimming keeps
  the order. `SampledInv` gives each sample of this pass the tick it was measured at: not
  long before it arrived, and not long before the next one arrived or, for the newest, not
  long before now. Samples of earlier passes come first and are strictly older, so a
  buffer that reaches back to a stamp answers it from this pass (`CoveredAngles`), on each
  of the ways through `tilt_at`. `TuningIsAtomic` needs its own invariant for the types of the records: a
  detector is rebuilt exactly if one of the parameters baked into it is in the request.
* **The twins of the detector.** `PrefixDifference`: prefix sums telescope, so their differences are
  the sums of the half windows (`SumOverUnfold` and `PrefixUnfold` give the two recursions solutions).
  `SelectedSwaps`: a pass of the kernel's sort swaps the least of the cells left into place. So
  after rank + 1 passes (`SelectionSorts`) the buffer is a permutation of the window whose
  first rank + 1 cells are no greater than what follows, and the one in rank's place is the order
  statistic (`PlacedIsOrderStatistic`). `ScanIsWindow`: the kernel's scan meets each cell of
  the window once. `TunedInv` says that what requests leave is buildable, so
  that every detector the node ever has is one of those (`DetectorsAgree`).
* **Map cache.** `HostInv`: a buffer in use is not free, so a rebuild takes none of another
  consumer's, and each one's maps are those of its geometry. `KeyInv`: a key that is not void
  stands for a pair of maps that fit the buffers; if one consumer only has ever built maps,
  its version counts them, so an equal version means its own pair, whatever addresses the
  allocator hands out again. All failures void the key.
* **Chain tear.** `TearInv` goes through the baselines. One is only taken of a link beyond the
  bound, and what it is taken of is already limited: by what other rounds stretched the
  link to, or by one jitter or gate beyond that if a loop round did it. From then on each
  loop round is held to one gate beyond it, however many there are. Without baselines
  (`ReferenceLast`) every round would add a gate. `ClosuresDoNotRatchet` carries this over
  to the callbacks of `LoopClosure`, each of which is a round or leaves the chain alone.
* **Synchronizer.** `try_emit` is a fold over the waiting primaries. The library gives no way
  to compute a fold, so `TurnsUnfold` constructs, over the finite intervals, the table of
  the partial folds: a turn per message. `EmitIs` says what one turn does (the
  head leaves as a pair, leaves unmatched, or waits, and then so do the rest) and `Emitted`
  carries any invariant of a turn over the whole loop. `Fates` is such an invariant: a
  message of the primary stream is pending, paired or unmatched, once, unless it overflowed or
  was cleared. Finality needs `Streams`: of all stamps a stream has sent, its queue has
  those that a pending or coming primary may still need (`Covers`). One that was dropped is
  `Spent`: out of the window of all of these, or a later one is as near. Dropping
  behind a match spends what is before it, as primaries ascend; trimming takes only what is
  older than the oldest pending primary asks for and what `QueueSize` messages follow,
  so that by `Lag < QueueSize` no primary to come can need it either.
* **The grid.** `SumUnfold` takes an element out of a sum over a finite set, and `SumChange` says
  what becomes of the sum when one summand changes. `GridInv`: the cached cells lie in the
  grids, every cell is the sum of its shares, and every placed tile covers the world
  cells of its fan. Growth moves cells, tiles and origin by one shift (`PlaceKeeps`); an
  update of a pose takes the old share out (`TakeOut`) and places the tile again. A tile
  covers the whole fan as `GrowthCovers`: enough whole increments are added on each side.
* **The map file.** `StoreInv`: while a save runs, what is written and what is still to do
  is the layout of the session it began with, and the file is as before. Any file that a
  cut or a damage leaves is `Shaped`: it begins like some saved map, and what follows, if
  anything, is a torn block or another header. `WalkAlong` follows the reader through such a file: what it accepts
  is whole (`ReadsBack`), for every mixture of keyframes with and without points.
* **The batch.** The first guess is never skipped, and what is kept are the samples before
  the first one that was: a prefix, as of a loop whose clock ran out there.
* **The visit.** `EpisodeIs`: the episode is a run, and not the newest of several; that there is
  a best run takes that points add up to numbers (`PointsAreCounted`) and that one of finitely
  many is greatest (`MostOf`). `RunIs`: a run is unbroken, as a keyframe with a gap before it
  would begin another; it is whole, as what lies before its first or behind its last
  keyframe is beyond a gap; and it is everything if it is the only one.

* **The clique search.** `CliquesUnfold` gives the recursion of `find_cliques` a solution: each call
  has fewer candidates than the one that makes it (`BelowIsShorter`). `Sound`: a call
  holds a clique, what is consistent with all of it, and candidates among that. `Complete`: it
  finds only cliques, and every maximal one made of its members and candidates.
  `PivotMissesNone` is the heart of it: a maximal clique that no branch takes up consists of
  neighbours of the pivot, so the pivot is in it and a neighbour of itself. The first of the
  candidates tried that is in the clique leads to it, as those given up before are not in it. A
  largest agreement is part of a maximal clique (`CliqueExtends`), hence no larger than the
  longest one found.

Every safety invariant and action property that a run checks is a theorem. Only model-checked is
liveness, `TopicSettles` and `EveryKeyframeSettles`: it needs `ENABLED` of the fair actions,
which is out of the prover's reach. The recursions over data (a sum, a fold, a sort, a search) are
unfolded by hand: over a finite set of arguments a table that solves the recursion is
constructed by induction, the induction being `UpTo`, over the finite intervals.

## 5. Not modelled, and why

* Kalman, gyro and relay nodes, ICP and the global search, covariances, geometry, adapters,
  the other GPU kernels, the outlier filters of feature extraction: numeric, with little
  control.
* Diagnostics, logging, rendering, export and off-line tools: output only.
* `publish_period` throttling, the map->odom timer and a restart of `slam_node`: planned,
  below.

## 6. Plan

Order, most important first; all but 13 are done.

1. `Factors`, `SlamBackend`, `PoseLedger`: the rounds of the back-end and what they promise.
2. `SlamBackendProofs`.
3. `ApproxSync`; its proofs are in `DeadReckoningProofs`.
4. `MappingNode`, `MappingNodeProofs`.
5. `MappingGrid`, `MappingGridProofs`.
6. `DeadReckoning`, `DeadReckoningProofs`.
7. `UsblPriors`.
8. `VizWorker`; `SlamNodeProofs` for both.
9. `FeatureGate`, then `Tuning`, `Detector`, and `FeatureNode` that composes them; `FeatureNodeProofs`.
10. `MapCache`, proved in `FeatureNodeProofs`; `MapStore`, `MapStoreProofs`.
11. `ChainTear`: the baselines of the post-loop check.
12. `Revisit`, `IcpBatch`, `Pcm`, and `LoopClosure` that composes them with `ChainTear`;
    `LoopClosureProofs`.
13. `SurveySystem`: back-end, trajectory topic and mapping node composed, with a
    restarting `slam_node`, the publication throttle and the map->odom timer.
14. Proofs of `ApproxSync`, `MappingGrid` and `MapStore`.
15. Proofs of `OneEpisode`, `MotionIsLocal`, `TwinsAgree` and `LargestCliqueWins`.
