---------------------------- MODULE LoopClosure ----------------------------
(***************************************************************************)
(* A frame's way to a loop closure, as SlamNode::slam_callback drives it:  *)
(* the keyframe is chained (ChainTear's frame round), an earlier visit is  *)
(* looked for (Revisit), the registration is sampled in threads            *)
(* (IcpBatch), a closure that passes the gates is queued, and if enough of *)
(* the queue agree (Pcm), a round with loops is solved and judged          *)
(* (ChainTear).  Corrections and fixes come between callbacks.             *)
(*                                                                         *)
(* ChainTear follows the first MaxLinks links of a chain that goes on      *)
(* growing, so the newest keyframe is any of Sources.                      *)
(***************************************************************************)
EXTENDS ChainTear, IcpBatch, Revisit, Pcm

CONSTANTS
  Sources,  \* keys the newest keyframe may have
  Counts    \* what a keyframe may have in the fan

ASSUME LoopAssumption == Sources \subseteq Nat /\ Counts \subseteq Nat

VARIABLES
  stage,   \* where the callback is
  source,  \* source_key
  near,    \* counts: points in the fan, by keyframe
  found,   \* target_frames and target_key
  queued   \* the length of nssm_queue_

loopVars == <<stage, source, near, found, queued>>
vars     == <<tearVars, batchVars, loopVars>>

Nothing == [frames |-> {}, target |-> 0]

Init ==
  /\ TearInit /\ Fresh
  /\ stage = "idle" /\ source = 0 /\ near = <<>> /\ found = Nothing
  /\ queued = 0

\* The callback ends, or goes on; what it no longer needs is forgotten.
Leave(next) ==
  /\ stage' = next /\ source' = 0 /\ near' = <<>> /\ found' = Nothing
  /\ queued' = 0

----------------------------------------------------------------------------
\* A frame commits, and the loop search begins.
Frame ==
  /\ stage = "idle" /\ FrameRound
  /\ stage' = "search"
  /\ UNCHANGED <<batchVars, source, near, found, queued>>

\* A correction or a fix, or a frame whose loop search is off.
Between ==
  /\ stage = "idle" /\ OtherRound
  /\ UNCHANGED <<batchVars, loopVars>>

\* The session is too young, the source cloud too thin, or an exception is
\* met; or there is no revisit.
SearchFails ==
  /\ stage = "search" /\ Leave("idle")
  /\ UNCHANGED <<tearVars, batchVars>>

Search(s) ==
  /\ stage = "search"
  /\ source' = s
  /\ near' \in [TargetFrames(s) -> Counts]
  /\ found' \in Found(s, near')
  /\ stage' = "found"
  /\ UNCHANGED <<tearVars, batchVars, queued>>

Register ==
  /\ stage = "found" /\ Leave("batch")
  /\ UNCHANGED <<tearVars, batchVars>>

Sample ==
  /\ stage = "batch" /\ BatchStep
  /\ UNCHANGED <<tearVars, loopVars>>

Forget == guess' = [i \in Guess |-> "todo"] /\ expired' = FALSE

\* The samples are too few, one threw, or a gate refuses the closure.
Refused ==
  /\ stage = "batch" /\ Joined
  /\ Forget /\ Leave("idle")
  /\ UNCHANGED tearVars

\* The closure is queued behind those whose sources are not too old by now.
Offer ==
  /\ stage = "batch" /\ Joined /\ Enough
  /\ Forget
  /\ stage' = "queued" /\ queued' \in 1 .. MaxQueue
  /\ UNCHANGED <<tearVars, source, near, found>>

\* No clique forms, or its members are in the graph.
NoClique ==
  /\ stage = "queued" /\ Leave("idle")
  /\ UNCHANGED <<tearVars, batchVars>>

\* A clique forms, and its round is solved.
Insert ==
  /\ stage = "queued" /\ queued >= 2 /\ queued >= MinPcm
  /\ Leave("round")
  /\ UNCHANGED <<tearVars, batchVars>>

Judge ==
  /\ stage = "round" /\ LoopRound
  /\ Leave("idle")
  /\ UNCHANGED batchVars

Next ==
  \/ Frame \/ Between \/ SearchFails \/ \E s \in Sources : Search(s)
  \/ Register \/ Sample \/ Refused \/ Offer \/ NoClique \/ Insert \/ Judge

Spec == Init /\ [][Next]_vars

----------------------------------------------------------------------------
\* A closure is registered against one earlier visit, whole, and never
\* against the trail of this pass: an alias of two visits smears the target.
OneEpisode == stage = "found" => IsOneEpisode(source, near, found)

\* What is inserted is a largest set of closures that agree pairwise and were
\* not rejected, and nothing is if there is no such set of min_pcm, for every
\* outcome of the tests: the recursion and its pivots miss none.
LargestCliqueWins == stage = "queued" => queued \in AnsweredRight
=============================================================================
