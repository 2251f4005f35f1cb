----------------------------- MODULE PoseLedger -----------------------------
(***************************************************************************)
(* What the pose-graph back-end promises to the callbacks that use it: an  *)
(* operation takes effect whole, in one step, or not at all.               *)
(*                                                                         *)
(* shown is the set of factors the published poses were solved from, n the *)
(* number of keyframes they cover and stack the hand corrections that can  *)
(* still be undone, newest last.                                           *)
(***************************************************************************)
EXTENDS Factors

VARIABLES shown, n, stack

ledger == <<shown, n, stack>>

\* An empty session, or the chain of a loaded map.
LedgerInit ==
  /\ n \in 0 .. MaxKeys
  /\ shown = FactorsOf(LoadedChain(n))
  /\ stack = <<>>

\* A keyframe enters with everything that ties it down, or not at all.
AddKeyframe ==
  /\ n < MaxKeys
  /\ \E tie \in {{Prior(n)}, {Link(n), Unary(n)}, {Anchor(n), Unary(n)}} :
       /\ Prior(n) \in tie <=> n = 0
       /\ shown' = shown \cup tie
  /\ n' = n + 1
  /\ UNCHANGED stack

\* What the step adds to the ledger.
Added == shown' \ shown

\* A clique of loop closures onto older keyframes enters together, at most
\* one closure from each keyframe.
CloseLoops ==
  /\ shown \subseteq shown' /\ Added # {}
  /\ \A f \in Added : f.kind = "loop" /\ f.key < n /\ f.ref < f.key
  /\ \A f \in Added, g \in shown' :
       g.kind = "loop" /\ g.key = f.key => g = f
  /\ UNCHANGED <<n, stack>>

\* An absolute position prior on any keyframe.
FixPosition ==
  /\ shown \subseteq shown'
  /\ \E f \in Added : Added = {f} /\ f.kind = "fix" /\ f.key < n
  /\ UNCHANGED <<n, stack>>

\* A hand correction of the newest keyframe, which can be undone.
Correct ==
  /\ shown \subseteq shown'
  /\ \E f \in Added :
       /\ Added = {f} /\ f.kind = "manual" /\ f.key = n - 1
       /\ stack' = Append(stack, f)
  /\ UNCHANGED n

\* The newest correction still in the graph is taken out, and nothing else.
Undo ==
  /\ stack # <<>>
  /\ shown' = shown \ {stack[Len(stack)]}
  /\ stack' = SubSeq(stack, 1, Len(stack) - 1)
  /\ UNCHANGED n

LedgerNext == AddKeyframe \/ CloseLoops \/ FixPosition \/ Correct \/ Undo

LedgerSpec == LedgerInit /\ [][LedgerNext]_ledger
=============================================================================
