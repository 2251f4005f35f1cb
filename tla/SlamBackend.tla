---------------------------- MODULE SlamBackend ----------------------------
(***************************************************************************)
(* The pose-graph back-end, class Slam of src/core/slam_core.cpp, as the   *)
(* callbacks of src/nodes/slam_node.cpp drive it.                          *)
(*                                                                         *)
(* Every node callback holds SlamNode::mutex_ for its whole body, so       *)
(* callbacks do not interleave; what makes the back-end hard is that any   *)
(* solve may throw, that a throw may come before or after the factors      *)
(* were mirrored, that a loop round may be judged bad after it was         *)
(* applied, and that the recovery itself may fail.  A callback is          *)
(* therefore several steps here: a handler buffers factors and enters      *)
(* update_factor_graph ("solve"), the solver accepts or throws, and the    *)
(* round is judged ("judge"): committed, reverted or unwound.              *)
(*                                                                         *)
(* The numeric verdicts (gates, PCM edges, yaw RMS, chain tear) are free   *)
(* choices.                                                                *)
(***************************************************************************)
EXTENDS Factors, FiniteSets

CONSTANTS
  LoadSizes,      \* sizes of the maps a session may start from (load_map)
  MinStSep,       \* nssm_params.min_st_sep
  MinRevisitSep,  \* nssm_params.min_revisit_sep
  PcmQueueSize,   \* pcm_queue_size
  MinPcm,         \* min_pcm
  MaxManual,      \* bound on applied hand corrections
  MaxFixes,       \* bound on applied position priors
  LateThrows      \* may a round without loops throw once the poses were swept?

ASSUME BackendAssumption ==
  /\ MaxKeys \in Nat \ {0}
  /\ LoadSizes \subseteq 1..MaxKeys
  /\ MinStSep \in Nat /\ MinRevisitSep \in Nat
  /\ PcmQueueSize \in Nat /\ MinPcm \in Nat
  /\ MaxManual \in Nat /\ MaxFixes \in Nat
  /\ LateThrows \in BOOLEAN

VARIABLES
  nkeys,        \* keyframes.size(): the keyframes are 0 .. nkeys - 1
  links,        \* newer ends of the valid entries of consecutive_links_
  graph,        \* graph_: factors buffered for the next update
  committed,    \* committed_graph_: the mirror, with null holes
  isam,         \* isam_: the factors the estimator holds, Poison among them
  swept,        \* isam_ when the keyframe poses were last read from it
  queue,        \* nssm_queue_: source keys in the PCM window
  offered,      \* every closure ever pushed (nssm_queued is its size)
  target,       \* ICPResult::target_key, by source key
  inserted,     \* sources with ICPResult::inserted
  rejected,     \* sources with ICPResult::rejected
  pending,      \* pending_loops_
  constraints,  \* Keyframe::constraints, by keyframe: loop targets
  accepted,     \* nssm_accepted
  reverted,     \* nssm_reverted
  stranded,     \* auxiliary: sources whose marks outlived their factors
  manual,       \* manual_prior_indices_
  applied,      \* manual_corrections_applied
  undone,       \* manual_corrections_undone
  fixes,        \* position_priors_applied
  force,        \* force_converge_
  loaded,       \* loaded_key_count_
  awaiting,     \* awaiting_relocalization_
  pc,           \* where the running callback is
  caller,       \* who called update_factor_graph
  before,       \* committed_before, local to the round
  preRound,     \* pre_round_poses, local to the round
  slot,         \* committed_idx of add_manual_correction
  removed       \* the factor undo_manual_correction took out

graphVars == <<nkeys, links, graph, committed, isam, swept>>
loopVars  == <<queue, offered, target, inserted, rejected, pending,
               constraints, accepted, reverted, stranded>>
fixVars   == <<manual, applied, undone, fixes>>
mapVars   == <<loaded, awaiting>>
roundVars == <<pc, caller, before, preRound, slot, removed>>
vars      == <<graphVars, loopVars, fixVars, mapVars, force, roundVars>>

----------------------------------------------------------------------------
(* A session starts empty, or from a map file (load_map), which arms the   *)
(* relocalization.                                                         *)

Init ==
  /\ loaded \in {0} \cup LoadSizes
  /\ awaiting = (loaded > 0)
  /\ nkeys = loaded
  /\ links = {}
  /\ graph = <<>>
  /\ committed = LoadedChain(loaded)
  /\ isam = FactorsOf(committed)
  /\ swept = FactorsOf(committed)
  /\ queue = {} /\ offered = {} /\ inserted = {} /\ rejected = {}
  /\ target = [k \in Key |-> 0]
  /\ pending = {}
  /\ constraints = [k \in Key |-> <<>>]
  /\ accepted = 0 /\ reverted = 0 /\ stranded = {}
  /\ manual = <<>> /\ applied = 0 /\ undone = 0 /\ fixes = 0
  /\ force = FALSE
  /\ pc = "idle" /\ caller = "none"
  /\ before = 0 /\ preRound = {} /\ slot = 0 /\ removed = Hole

----------------------------------------------------------------------------
(* Entering and leaving update_factor_graph.                               *)

\* The top of update_factor_graph: the poses are snapshotted only when the
\* round carries loop closures.
Enter(who, loops) ==
  /\ pc' = "solve" /\ caller' = who
  /\ preRound' = IF loops # {} THEN swept ELSE {}
  /\ UNCHANGED before

\* The callback ends: its locals are gone.
Return(next) ==
  /\ pc' = next
  /\ caller' = IF next = "idle" THEN "none" ELSE caller
  /\ before' = 0 /\ preRound' = {} /\ slot' = 0
  /\ removed' = IF next = "restore" THEN removed ELSE Hole

\* Held by an estimator that kept the update it was built with, although that
\* update threw: its Bayes tree may be partial.
Poison == Hole

\* Mutant: the estimator is fed the mirror as it was before the recovery.
RebuildStale == isam' = FactorsOf(committed)

\* rebuild_isam: a fresh estimator fed the non-null factors of the mirror.
\* The feed itself may throw, before ISAM2 took anything or, in elimination,
\* once it has taken all of it; the fresh estimator is kept.
Rebuild ==
  \/ isam' = FactorsOf(committed')
  \/ /\ FactorsOf(committed') # {}
     /\ isam' \in {{Poison}, FactorsOf(committed') \cup {Poison}}

\* Mutant: the rollback forgets the constraint markers.
RollbackLeavesMarkers(convicted) ==
  /\ inserted' = inserted \ pending
  /\ rejected' = rejected \cup convicted
  /\ accepted' = accepted - Cardinality(pending)
  /\ pending' = {}
  /\ UNCHANGED <<queue, offered, target, stranded, constraints>>

\* rollback_pending_loops: unmark the loops of this round, and quarantine
\* the convicted ones.
Rollback(convicted) ==
  /\ inserted' = inserted \ pending
  /\ rejected' = rejected \cup convicted
  /\ constraints' =
       [k \in Key |-> IF k \in pending /\ constraints[k] # <<>>
                      THEN SubSeq(constraints[k], 1, Len(constraints[k]) - 1)
                      ELSE constraints[k]]
  /\ accepted' = accepted - Cardinality(pending)
  /\ pending' = {}
  /\ UNCHANGED <<queue, offered, target, stranded>>

\* Mutant: the frame is popped, its consecutive link is not.
DropKeyframeLeavesLink ==
  IF caller \in {"frame", "reloc"}
  THEN nkeys' = nkeys - 1 /\ UNCHANGED links
  ELSE UNCHANGED <<nkeys, links>>

\* keyframes.pop_back() and consecutive_links_.resize(): a round that was to
\* add a keyframe drops it.
DropKeyframe ==
  IF caller \in {"frame", "reloc"}
  THEN nkeys' = nkeys - 1 /\ links' = {k \in links : k < nkeys - 1}
  ELSE UNCHANGED <<nkeys, links>>

\* Mutant: an undo that fails does not put its factor back.
FailForgetsUndo == Return("idle")

\* update_factor_graph returned false; undo_manual_correction alone still
\* has something to put back.
Fail == Return(IF caller = "undo" THEN "restore" ELSE "idle")

----------------------------------------------------------------------------
(* The handlers: what each callback buffers before it asks for an update.  *)

\* slam_callback, first keyframe: add_prior.
AddPrior ==
  /\ pc = "idle" /\ ~awaiting /\ nkeys = 0
  /\ nkeys' = 1
  /\ graph' = Append(graph, Prior(0))
  /\ Enter("frame", pending)
  /\ UNCHANGED <<links, committed, isam, swept, loopVars, fixVars, mapVars,
                 force, slot, removed>>

\* Mutant: a frame is chained to a loaded map before it is located in it.
AddSequentialUnlocated ==
  /\ pc = "idle" /\ nkeys > 0 /\ nkeys < MaxKeys
  /\ nkeys' = nkeys + 1
  /\ links' = links \cup {nkeys}
  /\ graph' = graph \o <<Link(nkeys), Unary(nkeys)>>
  /\ Enter("frame", pending)
  /\ UNCHANGED <<committed, isam, swept, loopVars, fixVars, mapVars, force,
                 slot, removed>>

\* slam_callback, any later keyframe: add_sequential_scan_matching, or
\* add_odometry in its place; both chain the frame to its predecessor.
AddSequential ==
  /\ pc = "idle" /\ ~awaiting /\ nkeys > 0 /\ nkeys < MaxKeys
  /\ nkeys' = nkeys + 1
  /\ links' = links \cup {nkeys}
  /\ graph' = graph \o <<Link(nkeys), Unary(nkeys)>>
  /\ Enter("frame", pending)
  /\ UNCHANGED <<committed, isam, swept, loopVars, fixVars, mapVars, force,
                 slot, removed>>

\* slam_callback while a loaded map waits: a dense frame that matches the map
\* is anchored in it by a prior of its own, never chained to the loaded keys.
Relocalize ==
  /\ pc = "idle" /\ awaiting /\ nkeys < MaxKeys
  /\ nkeys' = nkeys + 1
  /\ graph' = graph \o <<Anchor(nkeys), Unary(nkeys)>>
  /\ force' = TRUE
  /\ Enter("reloc", pending)
  /\ UNCHANGED <<links, committed, isam, swept, loopVars, fixVars, mapVars,
                 slot, removed>>

\* Mutant: the place noted is the one before the correction's.
ManualCorrectionMisplaced ==
  /\ pc = "idle" /\ ~awaiting /\ nkeys > 0 /\ applied < MaxManual
  /\ slot' = Len(committed) + Len(graph)
  /\ graph' = Append(graph, Manual(nkeys - 1, applied))
  /\ force' = TRUE
  /\ Enter("manual", pending)
  /\ UNCHANGED <<nkeys, links, committed, isam, swept, loopVars, fixVars,
                 mapVars, removed>>

\* manual_correction_callback: a prior on the newest keyframe, whose place in
\* the mirror is noted before the solve.
ManualCorrection ==
  /\ pc = "idle" /\ ~awaiting /\ nkeys > 0 /\ applied < MaxManual
  /\ slot' = Len(committed) + Len(graph) + 1
  /\ graph' = Append(graph, Manual(nkeys - 1, applied))
  /\ force' = TRUE
  /\ Enter("manual", pending)
  /\ UNCHANGED <<nkeys, links, committed, isam, swept, loopVars, fixVars,
                 mapVars, removed>>

\* undo_manual_correction: the newest hand correction becomes a null hole,
\* the estimator is rebuilt without it, then re-solved.
UndoManual ==
  /\ pc = "idle" /\ ~awaiting /\ manual # <<>>
  /\ LET idx == manual[Len(manual)]
     IN  IF idx \in DOMAIN committed
         THEN /\ removed' = committed[idx]
              /\ committed' = [committed EXCEPT ![idx] = Hole]
         ELSE UNCHANGED <<removed, committed>>
  /\ Rebuild
  /\ force' = TRUE
  /\ Enter("undo", pending)
  /\ UNCHANGED <<nkeys, links, graph, swept, loopVars, fixVars, mapVars, slot>>

\* usbl_callback: an absolute position prior on any keyframe.
PositionPrior(k) ==
  /\ pc = "idle" /\ ~awaiting /\ k < nkeys /\ fixes < MaxFixes
  /\ graph' = Append(graph, Fix(k, fixes))
  /\ Enter("fix", pending)
  /\ UNCHANGED <<nkeys, links, committed, isam, swept, loopVars, fixVars,
                 mapVars, force, slot, removed>>

----------------------------------------------------------------------------
(* The solve.                                                              *)

\* Mutant: a throwing solve leaves the converge-hard request standing.
SolveThrowKeepsForce ==
  /\ pc = "solve"
  /\ graph' = <<>>
  /\ DropKeyframe
  /\ Rollback({})
  /\ UNCHANGED <<committed, force>>
  /\ Rebuild
  /\ Fail
  /\ UNCHANGED <<swept, reverted, fixVars, mapVars>>

\* isam_.update(graph_, values_) threw: drop the frame and the buffer, put
\* the loop marks back, rebuild.
SolveThrow ==
  /\ pc = "solve"
  /\ graph' = <<>>
  /\ force' = FALSE
  /\ DropKeyframe
  /\ Rollback({})
  /\ UNCHANGED committed
  /\ Rebuild
  /\ Fail
  /\ UNCHANGED <<swept, reverted, fixVars, mapVars>>

\* isam_.update returned: its factors are mirrored at once.
SolveOk ==
  /\ pc = "solve"
  /\ before' = Len(committed)
  /\ committed' = committed \o graph
  /\ isam' = isam \cup FactorsOf(graph)
  /\ graph' = <<>>
  /\ force' = FALSE
  /\ pc' = "judge"
  /\ UNCHANGED <<nkeys, links, swept, loopVars, fixVars, mapVars, caller,
                 preRound, slot, removed>>

\* Mutant: the mirror keeps the factors of a failed round.
TruncateNothing == UNCHANGED committed

\* The mirror forgets the factors of this round.
Truncate == committed' = SubSeq(committed, 1, before)

\* The keyframes the estimate has a pose of: those whose first factor, which
\* comes with a value, the estimator has taken.
Estimated ==
  {f.key : f \in {g \in isam : g.kind \in {"prior", "link", "anchor"}}}

\* What is asked of the estimate before its poses are read: it is not empty,
\* has no more of them than there are keyframes, and none is missing before
\* the last.  A poisoned estimator is not told from a sound one.
Readable == \E n \in 1 .. nkeys : Estimated = 0 .. n - 1

\* The post-solve catch: the extra iterations threw, or the estimate is not
\* readable; no pose moved.
PostSolveThrow ==
  /\ pc = "judge"
  /\ Truncate
  /\ DropKeyframe
  /\ Rollback({})
  /\ Rebuild
  /\ Fail
  /\ UNCHANGED <<graph, swept, reverted, fixVars, mapVars, force>>

\* The same catch for a throw after the poses were swept (an allocation
\* failure), the loops of the round not judged yet: the poses are put back
\* only if this round took a snapshot.
LateThrow ==
  /\ LateThrows \/ pending # {}
  /\ pc = "judge" /\ Readable
  /\ swept' = IF pending # {} THEN preRound ELSE isam
  /\ Truncate
  /\ DropKeyframe
  /\ Rollback({})
  /\ Rebuild
  /\ Fail
  /\ UNCHANGED <<graph, reverted, fixVars, mapVars, force>>

\* The same catch for a throw after the loops were verified and their marks
\* made permanent: pending_loops_ is empty by then, so none is taken back.
StrandLoops ==
  /\ pc = "judge" /\ pending # {} /\ Readable
  /\ stranded' = stranded \cup pending
  /\ pending' = {}
  /\ swept' = preRound
  /\ Truncate
  /\ DropKeyframe
  /\ Rebuild
  /\ Fail
  /\ UNCHANGED <<graph, queue, offered, target, inserted, rejected, constraints,
                 accepted, reverted, fixVars, mapVars, force>>

----------------------------------------------------------------------------
(* The verdict on a loop round, and the commit.                            *)

\* The closures of this round that span the consecutive link into key l.
Spanning(l) == {s \in pending : target[s] < l /\ l <= s}

\* Mutant: only the closures spanning the torn link are blamed, if any.
VerdictsWithoutFallback == {Spanning(l) : l \in links \ {loaded}}

\* Which closures a failed verification blames: all of them for the yaw
\* check; those spanning the torn link for the tear check, or all of them
\* if none does.  The seam of a loaded map is never judged.
Verdicts ==
  {pending} \cup {IF Spanning(l) = {} THEN pending ELSE Spanning(l) :
                    l \in links \ {loaded}}

\* The post-loop verification failed: un-mirror, quarantine, restore the
\* snapshot, rebuild.
Revert(convicted) ==
  /\ pc = "judge" /\ pending # {} /\ Readable
  /\ reverted' = reverted + 1
  /\ Truncate
  /\ Rollback(convicted)
  /\ swept' = preRound
  /\ Rebuild
  /\ Fail
  /\ UNCHANGED <<nkeys, links, graph, fixVars, mapVars, force>>

\* update_factor_graph returns true: the estimate is swept into the
\* keyframes and the loop marks become permanent.
Commit ==
  /\ pc = "judge" /\ Readable
  /\ swept' = isam
  /\ pending' = {}
  /\ UNCHANGED <<nkeys, links, graph, committed, isam, queue, offered, target,
                 inserted, rejected, constraints, accepted, reverted, stranded,
                 loaded, force>>

CommitFrame ==
  /\ caller = "frame" /\ Commit
  /\ Return("nssm")
  /\ UNCHANGED <<fixVars, awaiting>>

CommitLoops ==
  /\ caller = "loops" /\ Commit
  /\ Return("idle")
  /\ UNCHANGED <<fixVars, awaiting>>

CommitReloc ==
  /\ caller = "reloc" /\ Commit
  /\ awaiting' = FALSE
  /\ Return("idle")
  /\ UNCHANGED fixVars

CommitManual ==
  /\ caller = "manual" /\ Commit
  /\ manual' = Append(manual, slot)
  /\ applied' = applied + 1
  /\ Return("idle")
  /\ UNCHANGED <<undone, fixes, awaiting>>

CommitUndo ==
  /\ caller = "undo" /\ Commit
  /\ manual' = SubSeq(manual, 1, Len(manual) - 1)
  /\ undone' = undone + 1
  /\ Return("idle")
  /\ UNCHANGED <<applied, fixes, awaiting>>

CommitFix ==
  /\ caller = "fix" /\ Commit
  /\ fixes' = fixes + 1
  /\ Return("idle")
  /\ UNCHANGED <<manual, applied, undone, awaiting>>

\* undo_manual_correction, the update failed: put the factor back.
RestoreUndone ==
  /\ pc = "restore"
  /\ IF removed # Hole
     THEN /\ committed' = [committed EXCEPT ![manual[Len(manual)]] = removed]
          /\ Rebuild
     ELSE UNCHANGED <<committed, isam>>
  /\ Return("idle")
  /\ UNCHANGED <<nkeys, links, graph, swept, loopVars, fixVars, mapVars, force>>

----------------------------------------------------------------------------
(* add_nonsequential_scan_matching, called when a frame round committed.   *)

\* Disabled, too young a session, no revisit, a failed gate or a throw.
NssmSkip ==
  /\ pc = "nssm"
  /\ Return("idle")
  /\ UNCHANGED <<graphVars, loopVars, fixVars, mapVars, force>>

\* The revisit targets of the newest keyframe.
Candidates == {t \in Key : /\ t < nkeys - MinStSep
                           /\ (nkeys - 1) - t >= MinRevisitSep}

\* Mutant: a convicted closure may be voted back in.
CliquesOfAll(window) ==
  {{}} \cup IF Cardinality(window) < MinPcm THEN {}
            ELSE {c \in SUBSET window : Cardinality(c) >= 2 /\ Cardinality(c) >= MinPcm}

\* verify_pcm: some clique of two or more closures that were not rejected,
\* of at least min_pcm members, or nothing.
Cliques(window) ==
  {{}} \cup IF Cardinality(window) < MinPcm THEN {}
            ELSE {c \in SUBSET (window \ rejected) :
                    Cardinality(c) >= 2 /\ Cardinality(c) >= MinPcm}

\* A candidate survived every gate: it enters the PCM queue, whose window
\* slides past the closures pcm_queue_size keyframes older.
Offer(t) ==
  LET source == nkeys - 1 IN
  /\ pc = "nssm" /\ nkeys >= MinStSep
  /\ queue' = {s \in queue : source - s <= PcmQueueSize} \cup {source}
  /\ offered' = offered \cup {source}
  /\ target' = [target EXCEPT ![source] = t]

\* The orders a clique may be listed in.
Listings(S) == {s \in [1 .. Cardinality(S) -> S] :
                  /\ \A i, j \in 1 .. Cardinality(S) : s[i] = s[j] => i = j
                  /\ \A x \in S : \E i \in 1 .. Cardinality(S) : s[i] = x}

\* No clique, or every member of it is in the graph already.
NssmQueue(t) ==
  /\ Offer(t)
  /\ \E clique \in Cliques(queue') : clique \subseteq inserted
  /\ Return("idle")
  /\ UNCHANGED <<graphVars, inserted, rejected, pending, constraints, accepted,
                 reverted, stranded, fixVars, mapVars, force>>

\* A clique formed: its members that are not in the graph yet go in, marked
\* before the update that is to incorporate them.
NssmInsert(t, fresh) ==
  /\ Offer(t)
  /\ fresh # {} /\ fresh \cap inserted = {}
  /\ \E clique \in Cliques(queue') : fresh = clique \ inserted
  /\ \E order \in Listings(fresh) :
       graph' = graph \o [i \in DOMAIN order |-> Loop(order[i], target'[order[i]])]
  /\ constraints' = [k \in Key |-> IF k \in fresh
                                   THEN Append(constraints[k], target'[k])
                                   ELSE constraints[k]]
  /\ inserted' = inserted \cup fresh
  /\ pending' = pending \cup fresh
  /\ accepted' = accepted + Cardinality(fresh)
  /\ Enter("loops", pending \cup fresh)
  /\ UNCHANGED <<nkeys, links, committed, isam, swept, rejected, reverted,
                 stranded, fixVars, mapVars, force, slot, removed>>

----------------------------------------------------------------------------
Handler ==
  \/ AddPrior \/ AddSequential \/ Relocalize
  \/ ManualCorrection \/ UndoManual
  \/ \E k \in Key : PositionPrior(k)

Update ==
  \/ SolveThrow \/ SolveOk \/ PostSolveThrow \/ LateThrow \/ StrandLoops
  \/ \E convicted \in Verdicts : Revert(convicted)
  \/ CommitFrame \/ CommitLoops \/ CommitReloc
  \/ CommitManual \/ CommitUndo \/ CommitFix
  \/ RestoreUndone

Nssm ==
  \/ NssmSkip
  \/ \E t \in Candidates : NssmQueue(t)
  \/ \E t \in Candidates, fresh \in SUBSET Key : NssmInsert(t, fresh)

Next == Handler \/ Update \/ Nssm

Spec == Init /\ [][Next]_vars

----------------------------------------------------------------------------
(* Properties.                                                             *)

\* Every variable keeps its type.
TypeOK ==
  /\ nkeys \in 0 .. MaxKeys /\ links \subseteq Key
  /\ graph \in Seq(Factor)
  /\ committed \in Seq(Factor \cup {Hole})
  /\ isam \subseteq Factor \cup {Poison} /\ swept \subseteq Factor \cup {Poison}
  /\ queue \subseteq Key /\ offered \subseteq Key
  /\ target \in [Key -> Key]
  /\ inserted \subseteq Key /\ rejected \subseteq Key /\ pending \subseteq Key
  /\ constraints \in [Key -> Seq(Key)]
  /\ accepted \in Nat /\ reverted \in Nat /\ stranded \subseteq Key
  /\ manual \in Seq(Nat) /\ applied \in Nat /\ undone \in Nat /\ fixes \in Nat
  /\ force \in BOOLEAN
  /\ loaded \in 0 .. MaxKeys /\ awaiting \in BOOLEAN
  /\ pc \in {"idle", "solve", "judge", "nssm", "restore"}
  /\ caller \in {"none", "frame", "reloc", "loops", "manual", "undo", "fix"}
  /\ before \in Nat /\ preRound \subseteq Factor \cup {Poison} /\ slot \in Nat
  /\ removed \in Factor \cup {Hole}

\* Whatever failed in it, a callback leaves no buffered factor, no tentative
\* loop and no converge-hard request for the next one to inherit.
NothingLeftBehind ==
  pc \in {"idle", "nssm"} => graph = <<>> /\ pending = {} /\ ~force

\* Between callbacks the estimator holds exactly the non-null factors of the
\* mirror, even if its rebuild threw and rounds went through it since; or the
\* rebuild threw before it took any, and no round can go through it.
EstimatorMirrors ==
  pc = "idle" => isam \ {Poison} = FactorsOf(committed) \/ isam = {Poison}

\* Between callbacks the keyframe poses are those of an estimator that held
\* exactly the committed factors: a failed or reverted round leaves no trace
\* in them.  They are its optimum unless it was poisoned.
PosesMatchGraph ==
  pc = "idle" => swept \ {Poison} = FactorsOf(committed)

\* The records of a loop closure agree between callbacks: its inserted flag,
\* its constraint marker, the counter and its factor in the mirror, which
\* only the closures whose round threw once it was verified are without.
LoopBooks ==
  pc = "idle" =>
    /\ {f \in FactorsOf(committed) : f.kind = "loop"} =
         {Loop(s, target[s]) : s \in inserted \ stranded}
    /\ \A k \in Key : constraints[k] = IF k \in inserted THEN <<target[k]>>
                                                       ELSE <<>>
    /\ accepted = Cardinality(inserted)

\* A closure convicted by a revert is out of the graph for good: no later
\* clique carries it back in.
QuarantineHolds ==
  /\ rejected \cap inserted = {}
  /\ \A f \in FactorsOf(committed) : f.kind = "loop" /\ pc = "idle" => f.key \notin rejected

\* Every revert costs a closure its eligibility, so accept/revert churn is
\* bounded by the closures that were ever queued.
RevertsAreBounded == reverted <= Cardinality(rejected) /\ rejected \subseteq offered

\* Dropping the keyframe of a failed round takes with it all that names it:
\* every keyframe is tied into the graph, no factor names a keyframe that is
\* not there, so the system the estimator solves has no dangling variable, and
\* consecutive_links_, which the chain-tear check indexes by keyframe, stays
\* aligned with the links mirrored in this session.
ChainIsIntact ==
  pc = "idle" =>
    /\ \A k \in 0 .. nkeys - 1 :
         {Prior(k), Link(k), Anchor(k)} \cap FactorsOf(committed) # {}
    /\ \A f \in FactorsOf(committed) :
         f.key < nkeys /\ (f.kind = "loop" => f.ref < f.key)
    /\ links = {k \in Key : Link(k) \in FactorsOf(committed) /\ k >= loaded}

\* The undo stack names the live hand corrections, oldest first, and none
\* else, so an undo peels the newest one whatever was truncated meanwhile.
UndoStackIsLive ==
  pc = "idle" =>
    /\ \A i \in DOMAIN manual : /\ manual[i] \in DOMAIN committed
                               /\ committed[manual[i]].kind = "manual"
    /\ \A i, j \in DOMAIN manual :
         i < j => committed[manual[i]].ref < committed[manual[j]].ref
    /\ Cardinality({f \in FactorsOf(committed) : f.kind = "manual"}) = Len(manual)
    /\ applied - undone = Len(manual)

\* Until a frame is anchored in a loaded map nothing else enters the graph,
\* and the two sessions are never chained by a dead-reckoning link.
MapFrameGate ==
  /\ awaiting /\ pc = "idle" => committed = LoadedChain(loaded)
  /\ loaded > 0 => Link(loaded) \notin FactorsOf(committed)
  /\ loaded > 0 /\ ~awaiting => Anchor(loaded) \in FactorsOf(committed)

\* The back-end implements the atomic ledger: at the poses it publishes, a
\* callback's factors enter together or leave no trace, whatever threw,
\* was reverted, failed to rebuild or was solved on a poisoned estimator.
Ledger ==
  INSTANCE PoseLedger WITH
    shown <- swept \ {Poison},
    n     <- IF pc \in {"solve", "judge"} /\ caller \in {"frame", "reloc"}
             THEN nkeys - 1 ELSE nkeys,
    stack <- [i \in DOMAIN manual |-> IF committed[manual[i]] = Hole
                                      THEN removed ELSE committed[manual[i]]]

ImplementsLedger == Ledger!LedgerSpec
=============================================================================
