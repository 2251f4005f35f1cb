------------------------- MODULE SlamBackendProofs -------------------------
(***************************************************************************)
(* Theorems about SlamBackend, for every value of its constants.           *)
(*                                                                         *)
(* The type invariant is not inductive on its own: a rollback subtracts    *)
(* from a counter and drops a keyframe, so it must be known that there is  *)
(* something to subtract and a keyframe to drop.                           *)
(*                                                                         *)
(* First the rounds, the poses and the quarantine; then the books, the     *)
(* chain and the refinement of PoseLedger.  A callback is several steps,   *)
(* of which the ledger sees one: the commit.  Up to it, what a round adds  *)
(* (Adding) is known by its caller, and nothing that stands (Standing,     *)
(* Kept, Mirror) changes; each way to fail lands on what stood.            *)
(***************************************************************************)
EXTENDS SlamBackend, FiniteSetTheorems, SequenceTheorems, TLAPS

\* The type invariant by groups of variables.
GraphType ==
  /\ nkeys \in 0 .. MaxKeys /\ links \subseteq Key
  /\ graph \in Seq(Factor)
  /\ committed \in Seq(Factor \cup {Hole})
  /\ isam \subseteq Factor \cup {Poison} /\ swept \subseteq Factor \cup {Poison}

LoopType ==
  /\ queue \subseteq Key /\ offered \subseteq Key
  /\ target \in [Key -> Key]
  /\ inserted \subseteq Key /\ rejected \subseteq Key /\ pending \subseteq Key
  /\ constraints \in [Key -> Seq(Key)]
  /\ accepted \in Nat /\ reverted \in Nat /\ stranded \subseteq Key

FixType ==
  /\ manual \in Seq(Nat) /\ applied \in Nat /\ undone \in Nat /\ fixes \in Nat
  /\ force \in BOOLEAN
  /\ loaded \in 0 .. MaxKeys /\ awaiting \in BOOLEAN

RoundType ==
  /\ pc \in {"idle", "solve", "judge", "nssm", "restore"}
  /\ caller \in {"none", "frame", "reloc", "loops", "manual", "undo", "fix"}
  /\ before \in Nat /\ preRound \subseteq Factor \cup {Poison} /\ slot \in Nat
  /\ removed \in Factor \cup {Hole}

\* What the tentative loops of a round and its counter have to do with the
\* inserted flags.
Tentative == pending \subseteq inserted /\ accepted = Cardinality(inserted)

\* A round that was to add a keyframe has one to drop, one of closures has one
\* that closed them, and the mirror is at least as long as when the round began.
Round ==
  /\ pc \in {"solve", "judge"} /\ caller \in {"frame", "reloc", "loops"} => nkeys > 0
  /\ pc = "judge" => before <= Len(committed)

TypeInv == GraphType /\ LoopType /\ FixType /\ RoundType /\ Tentative /\ Round

----------------------------------------------------------------------------
(* Factors and finite sets of keys.                                        *)

\* A set of keyframes is finite.
LEMMA KeysFinite ==
  ASSUME NEW S \in SUBSET Key
  PROVE  IsFiniteSet(S) /\ Cardinality(S) \in Nat
<1>1. MaxKeys - 1 \in Int /\ 0 \in Int
  BY BackendAssumption DEF BackendAssumption
<1>2. IsFiniteSet(Key)
  BY <1>1, FS_Interval, Zenon DEF Key
<1>3. IsFiniteSet(S)
  BY <1>2, FS_Subset, Zenon
<1> QED BY <1>3, FS_CardinalityType, Zenon

\* Taking tentative loops out of the inserted ones subtracts their number.
LEMMA CardinalityOfRest ==
  ASSUME NEW S \in SUBSET Key, NEW T \in SUBSET S
  PROVE  Cardinality(S \ T) = Cardinality(S) - Cardinality(T)
<1>1. IsFiniteSet(S) /\ Cardinality(S) \in Nat
  BY KeysFinite
<1>2. IsFiniteSet(S \ T) /\ Cardinality(S \ T) = Cardinality(S) - Cardinality(S \cap T)
  BY <1>1, FS_Difference, Zenon
<1>3. S \cap T = T
  OBVIOUS
<1> QED BY <1>2, <1>3

\* Adding loops that are not inserted yet adds their number.
LEMMA CardinalityOfUnion ==
  ASSUME NEW S \in SUBSET Key, NEW T \in SUBSET Key, S \cap T = {}
  PROVE  Cardinality(S \cup T) = Cardinality(S) + Cardinality(T)
<1>1. IsFiniteSet(S) /\ IsFiniteSet(T)
      /\ Cardinality(S) \in Nat /\ Cardinality(T) \in Nat
  BY KeysFinite
<1>2. Cardinality(S \cup T)
        = Cardinality(S) + Cardinality(T) - Cardinality(S \cap T)
  BY <1>1, FS_Union, Zenon
<1>3. Cardinality(S \cap T) = 0
  BY FS_EmptySet
<1> QED BY <1>1, <1>2, <1>3

\* Each constructor makes a factor of its kind.
LEMMA FactorTypes ==
  ASSUME NEW k \in Key, NEW r \in Nat
  PROVE  /\ Prior(k) \in Factor /\ Link(k) \in Factor /\ Unary(k) \in Factor
         /\ Anchor(k) \in Factor /\ Loop(k, r) \in Factor
         /\ Manual(k, r) \in Factor /\ Fix(k, r) \in Factor
BY DEF Prior, Link, Unary, Anchor, Loop, Manual, Fix, Make, Factor, Kinds

\* A null hole is no factor.
LEMMA HoleIsNoFactor == Hole \notin Factor
BY DEF Hole, Factor, Kinds

\* The factors of a mirror are factors.
LEMMA FactorsOfType ==
  ASSUME NEW s \in Seq(Factor \cup {Hole})
  PROVE  FactorsOf(s) \subseteq Factor
BY DEF FactorsOf

\* The chain of a loaded map is made of factors, without holes.
LEMMA LoadedChainType ==
  ASSUME NEW n \in 0 .. MaxKeys
  PROVE  LoadedChain(n) \in Seq(Factor)
<1>1. MaxKeys \in Nat
  BY BackendAssumption
<1>2. 0 \in Nat /\ 2 * n \in Nat
  BY <1>1
<1>3. ASSUME NEW i \in 1 .. 2 * n
      PROVE  LoadedChain(n)[i] \in Factor
  <2>1. CASE i = 1
    BY <1>1, <1>2, <1>3, <2>1, 0 \in Key, FactorTypes DEF LoadedChain, Key
  <2>2. CASE i # 1 /\ i % 2 = 0
    <3>1. i \div 2 - 1 \in Key
      BY <1>1, <1>3, <2>2 DEF Key
    <3> QED BY <1>2, <1>3, <2>2, <3>1, FactorTypes DEF LoadedChain
  <2>3. CASE i # 1 /\ i % 2 # 0
    <3>1. i \div 2 \in Key
      BY <1>1, <1>3, <2>3 DEF Key
    <3> QED BY <1>2, <1>3, <2>3, <3>1, FactorTypes DEF LoadedChain
  <2> QED BY <2>1, <2>2, <2>3
<1>4. LoadedChain(n) \in [1 .. 2 * n -> Factor]
  BY <1>3 DEF LoadedChain
<1> QED BY <1>2, <1>4, SeqDef

----------------------------------------------------------------------------
(* What the parts shared by several actions preserve.                      *)

\* Rebuilding an estimator gives a set of factors, poisoned or not.
LEMMA RebuildType ==
  ASSUME committed' \in Seq(Factor \cup {Hole}), Rebuild
  PROVE  isam' \subseteq Factor \cup {Poison}
<1>1. FactorsOf(committed') \subseteq Factor
  BY FactorsOfType
<1> QED BY <1>1 DEF Rebuild

\* Cutting the mirror back to where the round began.
LEMMA TruncateType ==
  ASSUME TypeInv, pc = "judge", Truncate
  PROVE  committed' \in Seq(Factor \cup {Hole})
<1>1. /\ committed \in Seq(Factor \cup {Hole}) /\ before \in Nat
      /\ before <= Len(committed)
  BY DEF TypeInv, GraphType, RoundType, Round
<1>2. \A i \in 1 .. before : committed[i] \in Factor \cup {Hole}
  BY <1>1, ElementOfSeq
<1> QED BY <1>1, <1>2, SubSeqProperties DEF Truncate

\* Rolling the tentative loops back.
LEMMA RollbackType ==
  ASSUME TypeInv, NEW convicted \in SUBSET Key, Rollback(convicted),
         reverted' \in Nat
  PROVE  LoopType' /\ Tentative'
<1> USE DEF TypeInv, LoopType, Tentative, Rollback
<1>1. accepted' = Cardinality(inserted') /\ accepted' \in Nat
  BY CardinalityOfRest, KeysFinite
<1>2. ASSUME NEW k \in Key
      PROVE  (IF k \in pending /\ constraints[k] # <<>>
              THEN SubSeq(constraints[k], 1, Len(constraints[k]) - 1)
              ELSE constraints[k]) \in Seq(Key)
  <2>1. constraints[k] \in Seq(Key) /\ Len(constraints[k]) \in Nat
    OBVIOUS
  <2>2. \A i \in 1 .. Len(constraints[k]) - 1 : constraints[k][i] \in Key
    BY <2>1, ElementOfSeq
  <2>3. SubSeq(constraints[k], 1, Len(constraints[k]) - 1) \in Seq(Key)
    BY <2>1, <2>2, SubSeqProperties
  <2> QED BY <2>1, <2>3
<1>3. constraints' \in [Key -> Seq(Key)]
  BY <1>2
<1> QED BY <1>1, <1>3

\* Dropping the keyframe of a round.
LEMMA DropKeyframeType ==
  ASSUME TypeInv, pc \in {"solve", "judge"}, DropKeyframe
  PROVE  nkeys' \in 0 .. MaxKeys /\ links' \subseteq Key
BY BackendAssumption
DEF BackendAssumption, TypeInv, GraphType, RoundType, Round, DropKeyframe

\* A callback that ends, or falls through to its next stage.
LEMMA ReturnType ==
  ASSUME TypeInv, NEW next \in {"idle", "nssm", "restore"}, Return(next)
  PROVE  RoundType' /\ Round'
BY DEF TypeInv, RoundType, Round, Return

\* Entering an update with a keyframe to drop on failure, if it adds one.
LEMMA EnterType ==
  ASSUME TypeInv, NEW who \in {"frame", "reloc", "loops", "manual", "undo", "fix"},
         NEW loops, Enter(who, loops),
         who \in {"frame", "reloc", "loops"} => nkeys' > 0, slot' \in Nat,
         removed' \in Factor \cup {Hole}
  PROVE  RoundType' /\ Round'
BY DEF TypeInv, GraphType, RoundType, Round, Enter

\* The listing of a clique as loop factors.
LEMMA ListingType ==
  ASSUME NEW fresh \in SUBSET Key, NEW order \in Listings(fresh),
         NEW t \in [Key -> Key]
  PROVE  [i \in DOMAIN order |-> Loop(order[i], t[order[i]])] \in Seq(Factor)
<1>1. Cardinality(fresh) \in Nat /\ order \in [1 .. Cardinality(fresh) -> fresh]
  BY KeysFinite DEF Listings
<1>2. Key \subseteq Nat
  BY DEF Key
<1>3. ASSUME NEW i \in DOMAIN order
      PROVE  Loop(order[i], t[order[i]]) \in Factor
  BY <1>1, <1>2, FactorTypes
<1> QED BY <1>1, <1>3, SeqDef

----------------------------------------------------------------------------
(* The type invariant is inductive.                                        *)

\* The parts of TypeInv an action leaves alone stay true.
LEMMA UnchangedType ==
  ASSUME TypeInv
  PROVE  /\ UNCHANGED loopVars => LoopType' /\ Tentative'
         /\ UNCHANGED <<fixVars, mapVars, force>> => FixType'
BY DEF TypeInv, LoopType, Tentative, FixType, loopVars, fixVars, mapVars

\* Every session starts well typed, empty or loaded from a map file.
LEMMA TypeInit == Init => TypeInv
<1> SUFFICES ASSUME Init PROVE TypeInv
  OBVIOUS
<1> USE DEF Init
<1>1. loaded \in 0 .. MaxKeys /\ MaxKeys \in Nat \ {0}
  BY BackendAssumption DEF BackendAssumption
<1>2. committed \in Seq(Factor) /\ committed \in Seq(Factor \cup {Hole})
  BY <1>1, LoadedChainType, SeqMonotonic
<1>3. FactorsOf(committed) \subseteq Factor
  BY <1>2, FactorsOfType
<1>4. GraphType
  BY <1>1, <1>2, <1>3 DEF GraphType
<1>5. LoopType /\ Tentative
  BY <1>1, FS_EmptySet DEF LoopType, Tentative, Key
<1>6. FixType
  <2>1. awaiting \in BOOLEAN /\ force \in BOOLEAN
    <3>1. awaiting = (loaded > 0) /\ force = FALSE
      OBVIOUS
    <3>2. (loaded > 0) \in BOOLEAN
      BY <1>1
    <3> HIDE DEF Init
    <3> QED BY <3>1, <3>2, Zenon
  <2>2. manual \in Seq(Nat)
    BY EmptySeq
  <2> QED BY <1>1, <2>1, <2>2 DEF FixType
<1>7. RoundType /\ Round
  BY DEF RoundType, Round
<1> QED BY <1>4, <1>5, <1>6, <1>7 DEF TypeInv

\* The handlers.
LEMMA TypeHandler == TypeInv /\ Handler => TypeInv'
<1> SUFFICES ASSUME TypeInv, Handler PROVE TypeInv'
  OBVIOUS
<1>0. /\ MaxKeys \in Nat \ {0} /\ nkeys \in 0 .. MaxKeys
      /\ graph \in Seq(Factor) /\ committed \in Seq(Factor \cup {Hole})
      /\ slot \in Nat /\ removed \in Factor \cup {Hole} /\ applied \in Nat
      /\ fixes \in Nat /\ manual \in Seq(Nat)
  BY BackendAssumption
  DEF BackendAssumption, TypeInv, GraphType, RoundType, FixType
<1>a. ASSUME NEW k \in Key PROVE k \in Nat
  BY DEF Key
<1>1. CASE AddPrior
  <2>1. 0 \in Key
    BY <1>0 DEF Key
  <2>2. GraphType'
    BY <1>0, <1>1, <2>1, FactorTypes, AppendProperties
    DEF AddPrior, TypeInv, GraphType
  <2>3. RoundType' /\ Round'
    BY <1>0, <1>1, EnterType DEF AddPrior
  <2> QED BY <1>1, <2>2, <2>3, UnchangedType DEF AddPrior, TypeInv
<1>2. CASE AddSequential
  <2>1. nkeys \in Key
    BY <1>0, <1>2 DEF Key, AddSequential
  <2>2. graph' \in Seq(Factor)
    BY <1>0, <1>2, <2>1, FactorTypes, ConcatProperties DEF AddSequential
  <2>3. GraphType'
    BY <1>0, <1>2, <2>1, <2>2 DEF AddSequential, TypeInv, GraphType
  <2>4. RoundType' /\ Round'
    BY <1>0, <1>2, EnterType DEF AddSequential
  <2> QED BY <1>2, <2>3, <2>4, UnchangedType DEF AddSequential, TypeInv
<1>3. CASE Relocalize
  <2>1. nkeys \in Key
    BY <1>0, <1>3 DEF Key, Relocalize
  <2>2. graph' \in Seq(Factor)
    BY <1>0, <1>3, <2>1, FactorTypes, ConcatProperties DEF Relocalize
  <2>3. GraphType'
    BY <1>0, <1>3, <2>1, <2>2 DEF Relocalize, TypeInv, GraphType
  <2>4. RoundType' /\ Round'
    BY <1>0, <1>3, EnterType DEF Relocalize
  <2>5. FixType'
    BY <1>3 DEF Relocalize, TypeInv, FixType, fixVars, mapVars
  <2> QED BY <1>3, <2>3, <2>4, <2>5, UnchangedType DEF Relocalize, TypeInv
<1>4. CASE ManualCorrection
  <2>1. nkeys - 1 \in Key
    BY <1>0, <1>4 DEF Key, ManualCorrection
  <2>2. graph' \in Seq(Factor)
    BY <1>0, <1>4, <2>1, FactorTypes, AppendProperties DEF ManualCorrection
  <2>3. GraphType'
    BY <1>4, <2>2 DEF ManualCorrection, TypeInv, GraphType
  <2>4. slot' \in Nat
    BY <1>0, <1>4 DEF ManualCorrection
  <2>5. RoundType' /\ Round'
    BY <1>0, <1>4, <2>4, EnterType DEF ManualCorrection
  <2>6. FixType'
    BY <1>4 DEF ManualCorrection, TypeInv, FixType, fixVars, mapVars
  <2> QED BY <1>4, <2>3, <2>5, <2>6, UnchangedType DEF ManualCorrection, TypeInv
<1>5. CASE UndoManual
  <2> DEFINE idx == manual[Len(manual)]
  <2>1. committed' \in Seq(Factor \cup {Hole}) /\ removed' \in Factor \cup {Hole}
    <3>1. CASE idx \in DOMAIN committed
      <4>1. committed' = [committed EXCEPT ![idx] = Hole] /\ removed' = committed[idx]
        BY <1>5, <3>1 DEF UndoManual
      <4>2. idx \in 1 .. Len(committed)
        BY <1>0, <3>1
      <4> QED BY <1>0, <4>1, <4>2, ExceptSeq, ElementOfSeq
    <3>2. CASE idx \notin DOMAIN committed
      BY <1>0, <1>5, <3>2 DEF UndoManual
    <3> QED BY <3>1, <3>2
  <2>2. isam' \subseteq Factor \cup {Poison}
    BY <1>5, <2>1, RebuildType DEF UndoManual
  <2>3. GraphType'
    BY <1>5, <2>1, <2>2 DEF UndoManual, TypeInv, GraphType
  <2>4. RoundType' /\ Round'
    BY <1>0, <1>5, <2>1, EnterType DEF UndoManual
  <2>5. FixType'
    BY <1>5 DEF UndoManual, TypeInv, FixType, fixVars, mapVars
  <2> QED BY <1>5, <2>3, <2>4, <2>5, UnchangedType DEF UndoManual, TypeInv
<1>6. ASSUME NEW k \in Key, PositionPrior(k)
      PROVE  TypeInv'
  <2>1. graph' \in Seq(Factor)
    BY <1>0, <1>6, FactorTypes, AppendProperties DEF PositionPrior
  <2>2. GraphType'
    BY <1>6, <2>1 DEF PositionPrior, TypeInv, GraphType
  <2>3. RoundType' /\ Round'
    BY <1>0, <1>6, EnterType DEF PositionPrior
  <2> QED BY <1>6, <2>2, <2>3, UnchangedType DEF PositionPrior, TypeInv
<1> QED BY <1>1, <1>2, <1>3, <1>4, <1>5, <1>6 DEF Handler

\* The blamed closures are keyframes.
LEMMA VerdictType ==
  ASSUME TypeInv, NEW convicted \in Verdicts
  PROVE  convicted \in SUBSET Key
BY DEF Verdicts, Spanning, TypeInv, LoopType

\* A round that failed: whatever the poses became, the types hold.
LEMMA TypeUnwind ==
  ASSUME TypeInv, pc \in {"solve", "judge"}, NEW convicted \in SUBSET Key,
         committed' \in Seq(Factor \cup {Hole}), graph' \in Seq(Factor),
         nkeys' \in 0 .. MaxKeys, links' \subseteq Key,
         swept' \subseteq Factor \cup {Poison}, reverted' \in Nat,
         Rollback(convicted), Rebuild, Fail, FixType'
  PROVE  TypeInv'
<1>1. GraphType'
  BY RebuildType DEF GraphType
<1>2. LoopType' /\ Tentative'
  BY RollbackType
<1>3. RoundType' /\ Round'
  BY ReturnType DEF Fail
<1> QED BY <1>1, <1>2, <1>3 DEF TypeInv

\* A committed round keeps the types.
LEMMA TypeCommit ==
  ASSUME TypeInv, Commit, FixType', NEW next \in {"idle", "nssm"}, Return(next)
  PROVE  TypeInv'
<1>1. GraphType'
  BY DEF Commit, TypeInv, GraphType
<1>2. LoopType' /\ Tentative'
  BY DEF Commit, TypeInv, LoopType, Tentative
<1>3. RoundType' /\ Round'
  BY ReturnType
<1> QED BY <1>1, <1>2, <1>3 DEF TypeInv

\* The solve, the verdict and the commit.
LEMMA TypeUpdate == TypeInv /\ Update => TypeInv'
<1> SUFFICES ASSUME TypeInv, Update PROVE TypeInv'
  OBVIOUS
<1>0. /\ graph \in Seq(Factor) /\ committed \in Seq(Factor \cup {Hole})
      /\ nkeys \in 0 .. MaxKeys /\ links \subseteq Key
      /\ swept \subseteq Factor \cup {Poison} /\ isam \subseteq Factor \cup {Poison}
      /\ preRound \subseteq Factor \cup {Poison}
      /\ reverted \in Nat /\ slot \in Nat /\ pending \subseteq Key
      /\ removed \in Factor \cup {Hole} /\ manual \in Seq(Nat)
      /\ applied \in Nat /\ undone \in Nat /\ fixes \in Nat
      /\ before \in Nat
  BY DEF TypeInv, GraphType, RoundType, LoopType, FixType
<1>1. <<>> \in Seq(Factor)
  BY EmptySeq
<1>2. UNCHANGED <<fixVars, mapVars>> /\ force' \in BOOLEAN => FixType'
  BY DEF TypeInv, FixType, fixVars, mapVars
<1>3. CASE SolveThrow
  <2>1. FixType'
    BY <1>2, <1>3 DEF SolveThrow
  <2> QED BY <1>0, <1>1, <1>3, <2>1, DropKeyframeType, TypeUnwind, {} \in SUBSET Key
          DEF SolveThrow
<1>4. CASE SolveOk
  <2>1. committed' \in Seq(Factor \cup {Hole}) /\ before' <= Len(committed')
    <3>1. graph \in Seq(Factor \cup {Hole})
      BY <1>0, SeqMonotonic
    <3>2. Len(graph) \in Nat /\ Len(committed) \in Nat
      BY <1>0
    <3> QED BY <1>0, <1>4, <3>1, <3>2, ConcatProperties DEF SolveOk
  <2>2. FactorsOf(graph) \subseteq Factor
    BY <1>0, SeqMonotonic, FactorsOfType
  <2>3. GraphType'
    BY <1>0, <1>1, <1>4, <2>1, <2>2 DEF SolveOk, GraphType
  <2>4. RoundType' /\ Round'
    BY <1>0, <1>4, <2>1 DEF SolveOk, TypeInv, RoundType, Round
  <2>5. FixType'
    BY <1>2, <1>4 DEF SolveOk
  <2> QED BY <1>4, <2>3, <2>4, <2>5, UnchangedType DEF SolveOk, TypeInv
<1>5. CASE PostSolveThrow
  <2>1. FixType'
    BY <1>5, UnchangedType DEF PostSolveThrow
  <2> QED BY <1>0, <1>5, <2>1, TruncateType, DropKeyframeType, TypeUnwind,
             {} \in SUBSET Key
          DEF PostSolveThrow
<1>6. CASE LateThrow
  <2>1. FixType'
    BY <1>6, UnchangedType DEF LateThrow
  <2>2. swept' \subseteq Factor \cup {Poison}
    BY <1>0, <1>6 DEF LateThrow
  <2> QED BY <1>0, <1>6, <2>1, <2>2, TruncateType, DropKeyframeType, TypeUnwind,
             {} \in SUBSET Key
          DEF LateThrow
<1>7. ASSUME NEW convicted \in Verdicts, Revert(convicted)
      PROVE  TypeInv'
  <2>1. FixType'
    BY <1>7, UnchangedType DEF Revert
  <2> QED BY <1>0, <1>7, <2>1, TruncateType, VerdictType, TypeUnwind DEF Revert
<1>8. CASE CommitFrame \/ CommitLoops \/ CommitReloc
  <2>1. FixType'
    BY <1>8 DEF CommitFrame, CommitLoops, CommitReloc, Commit, TypeInv, FixType,
                fixVars
  <2> QED BY <1>8, <2>1, TypeCommit DEF CommitFrame, CommitLoops, CommitReloc
<1>9. CASE CommitManual
  <2>1. manual' \in Seq(Nat)
    BY <1>0, <1>9, AppendProperties DEF CommitManual
  <2>2. FixType'
    BY <1>9, <2>1 DEF CommitManual, Commit, TypeInv, FixType
  <2> QED BY <1>9, <2>2, TypeCommit DEF CommitManual
<1>10. CASE CommitUndo
  <2>1. \A i \in 1 .. Len(manual) - 1 : manual[i] \in Nat
    BY <1>0, ElementOfSeq
  <2>2. manual' \in Seq(Nat)
    BY <1>0, <1>10, <2>1, SubSeqProperties DEF CommitUndo
  <2>3. FixType'
    BY <1>10, <2>2 DEF CommitUndo, Commit, TypeInv, FixType
  <2> QED BY <1>10, <2>3, TypeCommit DEF CommitUndo
<1>11. CASE CommitFix
  <2>1. FixType'
    BY <1>11 DEF CommitFix, Commit, TypeInv, FixType
  <2> QED BY <1>11, <2>1, TypeCommit DEF CommitFix
<1>12. CASE RestoreUndone
  <2> DEFINE idx == manual[Len(manual)]
  <2>1. committed' \in Seq(Factor \cup {Hole}) /\ isam' \subseteq Factor \cup {Poison}
    <3>1. CASE removed # Hole
      <4>1. committed' = [committed EXCEPT ![idx] = removed]
        BY <1>12, <3>1 DEF RestoreUndone
      <4>2. committed' \in Seq(Factor \cup {Hole})
        <5>1. CASE idx \in 1 .. Len(committed)
          BY <1>0, <4>1, <5>1, ExceptSeq
        <5>2. CASE idx \notin 1 .. Len(committed)
          <6>1. committed' = committed
            BY <1>0, <4>1, <5>2
          <6> QED BY <1>0, <6>1
        <5> QED BY <5>1, <5>2
      <4> QED BY <1>12, <3>1, <4>2, RebuildType DEF RestoreUndone
    <3>2. CASE removed = Hole
      BY <1>0, <1>12, <3>2 DEF RestoreUndone
    <3> QED BY <3>1, <3>2
  <2>2. GraphType'
    BY <1>12, <2>1 DEF RestoreUndone, TypeInv, GraphType
  <2>3. RoundType' /\ Round'
    BY <1>12, ReturnType DEF RestoreUndone
  <2> QED BY <1>12, <2>2, <2>3, UnchangedType DEF RestoreUndone, TypeInv
<1>13. CASE StrandLoops
  <2>1. committed' \in Seq(Factor \cup {Hole}) /\ isam' \subseteq Factor \cup {Poison}
    BY <1>13, TruncateType, RebuildType DEF StrandLoops
  <2>2. nkeys' \in 0 .. MaxKeys /\ links' \subseteq Key
    BY <1>13, DropKeyframeType DEF StrandLoops
  <2>3. GraphType'
    BY <1>0, <1>13, <2>1, <2>2 DEF StrandLoops, GraphType
  <2>4. LoopType' /\ Tentative'
    BY <1>13 DEF StrandLoops, TypeInv, LoopType, Tentative
  <2>5. RoundType' /\ Round'
    BY <1>13, ReturnType DEF StrandLoops, Fail
  <2> QED BY <1>13, <2>3, <2>4, <2>5, UnchangedType DEF StrandLoops, TypeInv
<1> QED BY <1>3, <1>4, <1>5, <1>6, <1>7, <1>8, <1>9, <1>10, <1>11, <1>12, <1>13
        DEF Update

\* A clique is a set of queued closures that were never rejected.
LEMMA CliqueMembers ==
  ASSUME NEW window, NEW clique \in Cliques(window)
  PROVE  clique \subseteq window \ rejected
BY DEF Cliques

\* What offering a candidate does to the queue.
LEMMA OfferType ==
  ASSUME TypeInv, NEW t \in Candidates, Offer(t)
  PROVE  /\ nkeys - 1 \in Key
         /\ queue' \subseteq queue \cup {nkeys - 1}
         /\ queue' \subseteq Key /\ offered' \subseteq Key
         /\ target' \in [Key -> Key]
<1>1. nkeys - 1 \in Key /\ t \in Key
  BY BackendAssumption
  DEF BackendAssumption, TypeInv, GraphType, Candidates, Key
<1> QED BY <1>1 DEF Offer, TypeInv, LoopType

\* The loop-closure stage.
LEMMA TypeNssm == TypeInv /\ Nssm => TypeInv'
<1> SUFFICES ASSUME TypeInv, Nssm PROVE TypeInv'
  OBVIOUS
<1>1. CASE NssmSkip
  BY <1>1, UnchangedType, ReturnType
  DEF NssmSkip, TypeInv, GraphType, graphVars
<1>2. ASSUME NEW t \in Candidates, NssmQueue(t)
      PROVE  TypeInv'
  <2>1. LoopType' /\ Tentative'
    BY <1>2, OfferType DEF NssmQueue, TypeInv, LoopType, Tentative
  <2>2. GraphType'
    BY <1>2 DEF NssmQueue, TypeInv, GraphType, graphVars
  <2>3. RoundType' /\ Round'
    BY <1>2, ReturnType DEF NssmQueue
  <2> QED BY <1>2, <2>1, <2>2, <2>3, UnchangedType DEF NssmQueue, TypeInv
<1>3. ASSUME NEW t \in Candidates, NEW fresh \in SUBSET Key, NssmInsert(t, fresh)
      PROVE  TypeInv'
  <2>0. /\ graph \in Seq(Factor) /\ inserted \subseteq Key
        /\ accepted = Cardinality(inserted) /\ accepted \in Nat
        /\ pending \subseteq inserted /\ constraints \in [Key -> Seq(Key)]
        /\ nkeys \in 0 .. MaxKeys /\ MaxKeys \in Nat
        /\ slot \in Nat /\ removed \in Factor \cup {Hole}
    BY BackendAssumption
    DEF BackendAssumption, TypeInv, GraphType, LoopType, Tentative, RoundType
  <2>1. Offer(t) /\ target' \in [Key -> Key] /\ nkeys - 1 \in Key
    BY <1>3, OfferType DEF NssmInsert
  <2>2. accepted' = Cardinality(inserted') /\ accepted' \in Nat
    <3>1. inserted \cap fresh = {} /\ inserted' = inserted \cup fresh
          /\ accepted' = accepted + Cardinality(fresh)
      BY <1>3 DEF NssmInsert
    <3>2. Cardinality(inserted \cup fresh) = Cardinality(inserted) + Cardinality(fresh)
      BY <2>0, <3>1, CardinalityOfUnion
    <3> QED BY <2>0, <3>1, <3>2, KeysFinite
  <2>3. ASSUME NEW k \in Key
        PROVE  (IF k \in fresh THEN Append(constraints[k], target'[k])
                ELSE constraints[k]) \in Seq(Key)
    <3>1. constraints[k] \in Seq(Key) /\ target'[k] \in Key
      BY <2>0, <2>1
    <3>2. Append(constraints[k], target'[k]) \in Seq(Key)
      BY <3>1, AppendProperties
    <3> QED BY <3>1, <3>2
  <2>4. constraints' \in [Key -> Seq(Key)]
    BY <1>3, <2>3 DEF NssmInsert
  <2>5. LoopType' /\ Tentative'
    BY <1>3, <2>0, <2>2, <2>4, OfferType
    DEF NssmInsert, TypeInv, LoopType, Tentative
  <2>6. graph' \in Seq(Factor)
    <3>1. PICK order \in Listings(fresh) :
            graph' = graph \o [i \in DOMAIN order |-> Loop(order[i], target'[order[i]])]
      BY <1>3 DEF NssmInsert
    <3>2. [i \in DOMAIN order |-> Loop(order[i], target'[order[i]])] \in Seq(Factor)
      BY <2>1, ListingType
    <3> QED BY <2>0, <3>1, <3>2, ConcatProperties
  <2>7. GraphType'
    BY <1>3, <2>6 DEF NssmInsert, TypeInv, GraphType
  <2>8. nkeys > 0
    BY <2>0, <2>1 DEF Key
  <2>9. RoundType' /\ Round'
    BY <1>3, <2>0, <2>8, EnterType DEF NssmInsert
  <2> QED BY <1>3, <2>5, <2>7, <2>9, UnchangedType DEF NssmInsert, TypeInv
<1> QED BY <1>1, <1>2, <1>3 DEF Nssm

\* A stuttering step.
LEMMA TypeStutter == TypeInv /\ UNCHANGED vars => TypeInv'
BY DEF TypeInv, GraphType, LoopType, FixType, RoundType, Tentative, Round,
       vars, graphVars, loopVars, fixVars, mapVars, roundVars

\* The groups of TypeInv add up to the type invariant.
LEMMA TypeGroups == TypeInv => TypeOK
BY DEF TypeInv, GraphType, LoopType, FixType, RoundType, TypeOK

\* The strengthened type invariant holds of every reachable state.
THEOREM TypeInvariant == Spec => []TypeInv
<1>1. TypeInv /\ [Next]_vars => TypeInv'
  BY TypeHandler, TypeUpdate, TypeNssm, TypeStutter DEF Next
<1> QED BY <1>1, TypeInit, PTL DEF Spec

\* Every variable keeps its type, for every number of keyframes, whatever
\* the solver throws, the judge convicts or the rebuild fails.
THEOREM TypeCorrect == Spec => []TypeOK
BY TypeInvariant, TypeGroups, PTL

----------------------------------------------------------------------------
(* Rounds leave nothing behind.                                            *)

\* Only a loop round has tentative loops, only an undo has a factor to put
\* back, and between rounds the buffers are empty.
RoundInv ==
  /\ pc \notin {"solve", "judge"} => pending = {}
  /\ pc # "solve" => graph = <<>> /\ ~force
  /\ caller # "loops" => pending = {}
  /\ caller # "undo" => removed = Hole
  /\ pc \in {"idle", "nssm"} => removed = Hole
  /\ pc = "idle" => caller = "none"
  /\ pc = "nssm" => caller = "frame"
  /\ pc = "restore" => caller = "undo"
  /\ pc \in {"solve", "judge"} => caller \notin {"none"}

\* A round of any kind starts from empty buffers.
LEMMA RoundHandler == TypeInv /\ RoundInv /\ Handler => RoundInv'
<1> SUFFICES ASSUME TypeInv, RoundInv, Handler PROVE RoundInv'
  OBVIOUS
<1> USE DEF RoundInv, Enter, loopVars, mapVars, fixVars
<1>1. CASE AddPrior
  BY <1>1 DEF AddPrior
<1>2. CASE AddSequential
  BY <1>2 DEF AddSequential
<1>3. CASE Relocalize
  BY <1>3 DEF Relocalize
<1>4. CASE ManualCorrection
  BY <1>4 DEF ManualCorrection
<1>5. CASE UndoManual
  BY <1>5 DEF UndoManual
<1>6. ASSUME NEW k \in Key, PositionPrior(k) PROVE RoundInv'
  BY <1>6 DEF PositionPrior
<1> QED BY <1>1, <1>2, <1>3, <1>4, <1>5, <1>6 DEF Handler

\* However a round ends, it empties them.
LEMMA RoundUpdate == TypeInv /\ RoundInv /\ Update => RoundInv'
<1> SUFFICES ASSUME TypeInv, RoundInv, Update PROVE RoundInv'
  OBVIOUS
<1> USE DEF RoundInv, Return, Fail, Rollback, loopVars, mapVars, fixVars
<1>1. CASE SolveThrow
  BY <1>1 DEF SolveThrow
<1>2. CASE SolveOk
  BY <1>2 DEF SolveOk
<1>3. CASE PostSolveThrow
  BY <1>3 DEF PostSolveThrow
<1>4. CASE LateThrow
  BY <1>4 DEF LateThrow
<1>5. ASSUME NEW convicted \in Verdicts, Revert(convicted) PROVE RoundInv'
  BY <1>5 DEF Revert
<1>6. CASE CommitFrame
  BY <1>6 DEF CommitFrame, Commit
<1>7. CASE CommitLoops
  BY <1>7 DEF CommitLoops, Commit
<1>8. CASE CommitReloc
  BY <1>8 DEF CommitReloc, Commit
<1>9. CASE CommitManual
  BY <1>9 DEF CommitManual, Commit
<1>10. CASE CommitUndo
  BY <1>10 DEF CommitUndo, Commit
<1>11. CASE CommitFix
  BY <1>11 DEF CommitFix, Commit
<1>12. CASE RestoreUndone
  BY <1>12 DEF RestoreUndone
<1>13. CASE StrandLoops
  BY <1>13 DEF StrandLoops
<1> QED BY <1>1, <1>2, <1>3, <1>4, <1>5, <1>6, <1>7, <1>8, <1>9, <1>10, <1>11,
           <1>12, <1>13 DEF Update

\* The loop search leaves nothing behind, and enters its round cleanly.
LEMMA RoundNssm == TypeInv /\ RoundInv /\ Nssm => RoundInv'
<1> SUFFICES ASSUME TypeInv, RoundInv, Nssm PROVE RoundInv'
  OBVIOUS
<1> USE DEF RoundInv, Return, Enter, Offer, loopVars, mapVars, fixVars, graphVars
<1>1. CASE NssmSkip
  BY <1>1 DEF NssmSkip
<1>2. ASSUME NEW t \in Candidates, NssmQueue(t) PROVE RoundInv'
  BY <1>2 DEF NssmQueue
<1>3. ASSUME NEW t \in Candidates, NEW fresh \in SUBSET Key, NssmInsert(t, fresh)
      PROVE  RoundInv'
  BY <1>3 DEF NssmInsert
<1> QED BY <1>1, <1>2, <1>3 DEF Nssm

\* Nothing is buffered, tentative or forced outside a running round.
LEMMA RoundInvariant == Spec => []RoundInv
<1>1. Init => RoundInv
  BY DEF Init, RoundInv
<1>2. RoundInv /\ UNCHANGED vars => RoundInv'
  BY DEF RoundInv, vars, graphVars, loopVars, roundVars
<1>3. TypeInv /\ RoundInv /\ [Next]_vars => RoundInv'
  BY <1>2, RoundHandler, RoundUpdate, RoundNssm DEF Next
<1> QED BY <1>1, <1>3, TypeInvariant, PTL DEF Spec

\* A callback leaves no factor, tentative loop or converge-hard request to
\* the next one, however it ended.
THEOREM NothingIsLeftBehind == Spec => []NothingLeftBehind
<1>1. RoundInv => NothingLeftBehind
  BY DEF RoundInv, NothingLeftBehind
<1> QED BY <1>1, RoundInvariant, PTL

----------------------------------------------------------------------------
(* What stands if the round being judged fails.                            *)

\* The mirror as it will stand if the round being judged fails.
Standing == IF pc = "judge" THEN SubSeq(committed, 1, before) ELSE committed

\* The factor an undo in progress has taken out, but not out of the poses.
Undoing == IF removed = Hole THEN {} ELSE {removed}

----------------------------------------------------------------------------
(* The factors of a mirror that grows, is cut, or has a hole.              *)

\* Factors appended to a mirror join its factors.
LEMMA FactorsOfConcat ==
  ASSUME NEW s \in Seq(Factor \cup {Hole}), NEW t \in Seq(Factor \cup {Hole})
  PROVE  FactorsOf(s \o t) = FactorsOf(s) \cup FactorsOf(t)
<1>1. /\ s \o t \in Seq(Factor \cup {Hole})
      /\ Len(s \o t) = Len(s) + Len(t)
      /\ \A i \in 1 .. Len(s) + Len(t) :
           (s \o t)[i] = IF i <= Len(s) THEN s[i] ELSE t[i - Len(s)]
  BY ConcatProperties
<1>2. /\ Len(s) \in Nat /\ Len(t) \in Nat
      /\ DOMAIN s = 1 .. Len(s) /\ DOMAIN t = 1 .. Len(t)
      /\ DOMAIN (s \o t) = 1 .. Len(s) + Len(t)
  BY <1>1, LenProperties
<1>3. ASSUME NEW f \in FactorsOf(s \o t)
      PROVE  f \in FactorsOf(s) \cup FactorsOf(t)
  <2>1. PICK i \in 1 .. Len(s) + Len(t) : f = (s \o t)[i] /\ f # Hole
    BY <1>2 DEF FactorsOf
  <2>2. CASE i <= Len(s)
    BY <1>1, <1>2, <2>1, <2>2 DEF FactorsOf
  <2>3. CASE ~(i <= Len(s))
    <3>1. i - Len(s) \in 1 .. Len(t) /\ f = t[i - Len(s)]
      BY <1>1, <1>2, <2>1, <2>3
    <3> QED BY <1>2, <2>1, <3>1 DEF FactorsOf
  <2> QED BY <2>2, <2>3
<1>4. ASSUME NEW f \in FactorsOf(s)
      PROVE  f \in FactorsOf(s \o t)
  <2>1. PICK i \in 1 .. Len(s) : f = s[i] /\ f # Hole
    BY <1>2 DEF FactorsOf
  <2>2. i \in 1 .. Len(s) + Len(t) /\ f = (s \o t)[i]
    BY <1>1, <1>2, <2>1
  <2> QED BY <1>2, <2>1, <2>2 DEF FactorsOf
<1>5. ASSUME NEW f \in FactorsOf(t)
      PROVE  f \in FactorsOf(s \o t)
  <2>1. PICK i \in 1 .. Len(t) : f = t[i] /\ f # Hole
    BY <1>2 DEF FactorsOf
  <2>2. /\ i + Len(s) \in 1 .. Len(s) + Len(t)
        /\ ~(i + Len(s) <= Len(s)) /\ (i + Len(s)) - Len(s) = i
    BY <1>2, <2>1
  <2>3. f = (s \o t)[i + Len(s)]
    BY <1>1, <2>1, <2>2
  <2> QED BY <1>2, <2>1, <2>2, <2>3 DEF FactorsOf
<1> QED BY <1>3, <1>4, <1>5

\* Cutting an extended mirror back to its old length gives the old mirror.
LEMMA CutBack ==
  ASSUME NEW s \in Seq(Factor \cup {Hole}), NEW t \in Seq(Factor \cup {Hole})
  PROVE  SubSeq(s \o t, 1, Len(s)) = s
<1>1. /\ s \o t \in Seq(Factor \cup {Hole})
      /\ Len(s \o t) = Len(s) + Len(t)
      /\ \A i \in 1 .. Len(s) + Len(t) :
           (s \o t)[i] = IF i <= Len(s) THEN s[i] ELSE t[i - Len(s)]
  BY ConcatProperties
<1>2. Len(s) \in Nat /\ Len(t) \in Nat
  OBVIOUS
<1>3. \A i \in 1 .. Len(s) : (s \o t)[i] = s[i] /\ s[i] \in Factor \cup {Hole}
  BY <1>1, <1>2, ElementOfSeq
<1>4. /\ SubSeq(s \o t, 1, Len(s)) \in Seq(Factor \cup {Hole})
      /\ Len(SubSeq(s \o t, 1, Len(s))) = Len(s)
      /\ \A i \in 1 .. Len(s) : SubSeq(s \o t, 1, Len(s))[i] = s[i]
  BY <1>2, <1>3, SubSeqProperties
<1> QED BY <1>4, SeqEqual

\* Taking the factor at i out of a mirror removes nothing else: with it, the
\* factors are what they were.
LEMMA DigHole ==
  ASSUME NEW s \in Seq(Factor \cup {Hole}), NEW i \in 1 .. Len(s)
  PROVE  FactorsOf(s) = FactorsOf([s EXCEPT ![i] = Hole]) \cup ({s[i]} \ {Hole})
<1>1. DOMAIN s = 1 .. Len(s) /\ DOMAIN [s EXCEPT ![i] = Hole] = 1 .. Len(s)
  BY LenProperties
<1> QED BY <1>1 DEF FactorsOf

\* Putting a factor where a hole is adds exactly that factor.
LEMMA FillHole ==
  ASSUME NEW s \in Seq(Factor \cup {Hole}), NEW i \in 1 .. Len(s), s[i] = Hole,
         NEW f \in Factor
  PROVE  FactorsOf([s EXCEPT ![i] = f]) = FactorsOf(s) \cup {f}
<1>1. DOMAIN s = 1 .. Len(s) /\ DOMAIN [s EXCEPT ![i] = f] = 1 .. Len(s)
  BY LenProperties
<1>2. f # Hole
  BY HoleIsNoFactor
<1> QED BY <1>1, <1>2 DEF FactorsOf

----------------------------------------------------------------------------
(* Convicted closures stay out, and every revert convicts a new one.       *)

\* Every loop closure among the factors F has its source in S.
LoopsAmong(F, S) == \A f \in F : f.kind = "loop" => f.key \in S

LoopInv ==
  /\ rejected \cap inserted = {}
  /\ rejected \cup inserted \cup queue \subseteq offered
  /\ reverted <= Cardinality(rejected)
  /\ LoopsAmong(FactorsOf(Standing), inserted \ pending)
  /\ LoopsAmong(FactorsOf(committed), inserted)
  /\ LoopsAmong(FactorsOf(graph), inserted)
  /\ removed.kind = "loop" => removed.key \in inserted \ pending

\* Replacing one entry of a mirror by a hole, or by a factor whose source is
\* in S, brings in no closure from outside S.
LEMMA LoopsAfterExcept ==
  ASSUME NEW s \in Seq(Factor \cup {Hole}), NEW i, NEW f \in Factor \cup {Hole},
         NEW S, LoopsAmong(FactorsOf(s), S), f.kind = "loop" => f.key \in S
  PROVE  LoopsAmong(FactorsOf([s EXCEPT ![i] = f]), S)
<1>1. DOMAIN [s EXCEPT ![i] = f] = DOMAIN s
  OBVIOUS
<1>2. ASSUME NEW g \in FactorsOf([s EXCEPT ![i] = f])
      PROVE  g \in FactorsOf(s) \/ g = f
  BY <1>1 DEF FactorsOf
<1> QED BY <1>2 DEF LoopsAmong

\* The blame of a failed verification falls on at least one tentative
\* closure, and on no other.
LEMMA VerdictBlames ==
  ASSUME NEW convicted \in Verdicts, pending # {}
  PROVE  convicted # {} /\ convicted \subseteq pending
BY DEF Verdicts, Spanning

\* What a rollback leaves of the marks.
LEMMA LoopUnwind ==
  ASSUME TypeInv, RoundInv, LoopInv, pc \in {"solve", "judge"},
         NEW convicted \in SUBSET pending, Rollback(convicted),
         committed' = Standing, graph' = <<>>, Fail,
         reverted' <= Cardinality(rejected')
  PROVE  LoopInv'
<1>1. /\ inserted' = inserted \ pending /\ rejected' = rejected \cup convicted
      /\ pending' = {} /\ queue' = queue /\ offered' = offered
  BY DEF Rollback
<1>2. Standing' = Standing /\ removed' \in {removed, Hole}
  BY DEF Standing, Fail, Return
<1>3. pending \subseteq inserted
  BY DEF TypeInv, Tentative
<1>4. FactorsOf(graph') = {}
  BY DEF FactorsOf
<1>5. rejected' \cap inserted' = {}
      /\ rejected' \cup inserted' \cup queue' \subseteq offered'
  BY <1>1, <1>3 DEF LoopInv
<1>6. removed'.kind = "loop" => removed'.key \in inserted' \ pending'
  BY <1>1, <1>2 DEF LoopInv, Hole
<1> QED BY <1>1, <1>2, <1>4, <1>5, <1>6 DEF LoopInv, LoopsAmong

\* A committed round keeps what the estimator took.
LEMMA LoopCommit ==
  ASSUME TypeInv, RoundInv, LoopInv, pc = "judge", Commit,
         NEW next \in {"idle", "nssm"}, Return(next)
  PROVE  LoopInv'
<1>1. /\ Standing' = committed /\ removed' = Hole /\ pending' = {}
      /\ UNCHANGED <<committed, graph, inserted, rejected, queue, offered, reverted>>
  BY DEF Standing, Commit, Return
<1> QED BY <1>1 DEF LoopInv, LoopsAmong, Hole

\* Factors of other kinds, buffered from an idle state.
LEMMA LoopBuffer ==
  ASSUME RoundInv, LoopInv, pc = "idle", pc' = "solve",
         LoopsAmong(FactorsOf(graph'), {}),
         UNCHANGED <<committed, removed, loopVars>>
  PROVE  LoopInv'
<1>1. Standing' = Standing
  BY DEF Standing
<1> QED BY <1>1 DEF LoopInv, LoopsAmong, loopVars

\* No handler buffers a loop closure.
LEMMA LoopHandler == TypeInv /\ RoundInv /\ LoopInv /\ Handler => LoopInv'
<1> SUFFICES ASSUME TypeInv, RoundInv, LoopInv, Handler PROVE LoopInv'
  OBVIOUS
<1>0. pc = "idle" => graph = <<>> /\ removed = Hole /\ pending = {}
  BY DEF RoundInv
<1>1. CASE AddPrior
  <2>1. graph' = <<Prior(0)>>
    BY <1>0, <1>1 DEF AddPrior
  <2>2. LoopsAmong(FactorsOf(graph'), {})
    BY <2>1 DEF LoopsAmong, FactorsOf, Prior, Make
  <2> QED BY <1>1, <2>2, LoopBuffer DEF AddPrior, Enter
<1>2. CASE AddSequential
  <2>1. graph' = <<Link(nkeys), Unary(nkeys)>>
    BY <1>0, <1>2 DEF AddSequential
  <2>2. LoopsAmong(FactorsOf(graph'), {})
    BY <2>1 DEF LoopsAmong, FactorsOf, Link, Unary, Make
  <2> QED BY <1>2, <2>2, LoopBuffer DEF AddSequential, Enter
<1>3. CASE Relocalize
  <2>1. graph' = <<Anchor(nkeys), Unary(nkeys)>>
    BY <1>0, <1>3 DEF Relocalize
  <2>2. LoopsAmong(FactorsOf(graph'), {})
    BY <2>1 DEF LoopsAmong, FactorsOf, Anchor, Unary, Make
  <2> QED BY <1>3, <2>2, LoopBuffer DEF Relocalize, Enter
<1>4. CASE ManualCorrection
  <2>1. graph' = <<Manual(nkeys - 1, applied)>>
    BY <1>0, <1>4 DEF ManualCorrection
  <2>2. LoopsAmong(FactorsOf(graph'), {})
    BY <2>1 DEF LoopsAmong, FactorsOf, Manual, Make
  <2> QED BY <1>4, <2>2, LoopBuffer DEF ManualCorrection, Enter
<1>5. CASE UndoManual
  <2> DEFINE idx == manual[Len(manual)]
  <2>1. /\ pc' = "solve" /\ committed \in Seq(Factor \cup {Hole})
        /\ Standing = committed /\ Standing' = committed'
        /\ removed = Hole /\ graph' = <<>> /\ pending = {}
        /\ UNCHANGED loopVars
    BY <1>0, <1>5 DEF UndoManual, Enter, Standing, TypeInv, GraphType
  <2>2. LoopsAmong(FactorsOf(committed), inserted \ pending)
    BY <2>1 DEF LoopInv
  <2>3. /\ LoopsAmong(FactorsOf(committed'), inserted \ pending)
        /\ removed'.kind = "loop" => removed'.key \in inserted \ pending
    <3>1. CASE idx \in DOMAIN committed
      <4>1. committed' = [committed EXCEPT ![idx] = Hole] /\ removed' = committed[idx]
        BY <1>5, <3>1 DEF UndoManual
      <4>2. LoopsAmong(FactorsOf(committed'), inserted \ pending)
        BY <2>1, <2>2, <4>1, LoopsAfterExcept DEF Hole
      <4>3. removed' = Hole \/ removed' \in FactorsOf(committed)
        BY <3>1, <4>1 DEF FactorsOf
      <4> QED BY <2>2, <4>2, <4>3 DEF LoopsAmong, Hole
    <3>2. CASE idx \notin DOMAIN committed
      BY <1>5, <2>1, <2>2, <3>2 DEF UndoManual, Hole
    <3> QED BY <3>1, <3>2
  <2>4. FactorsOf(graph') = {}
    BY <2>1 DEF FactorsOf
  <2> QED BY <2>1, <2>3, <2>4 DEF LoopInv, LoopsAmong, loopVars
<1>6. ASSUME NEW k \in Key, PositionPrior(k) PROVE LoopInv'
  <2>1. graph' = <<Fix(k, fixes)>>
    BY <1>0, <1>6 DEF PositionPrior
  <2>2. LoopsAmong(FactorsOf(graph'), {})
    BY <2>1 DEF LoopsAmong, FactorsOf, Fix, Make
  <2> QED BY <1>6, <2>2, LoopBuffer DEF PositionPrior, Enter
<1> QED BY <1>1, <1>2, <1>3, <1>4, <1>5, <1>6 DEF Handler

\* A round ends with its closures in the graph and marked, or neither.
LEMMA LoopUpdate == TypeInv /\ RoundInv /\ LoopInv /\ Update => LoopInv'
<1> SUFFICES ASSUME TypeInv, RoundInv, LoopInv, Update PROVE LoopInv'
  OBVIOUS
<1>0. /\ committed \in Seq(Factor \cup {Hole}) /\ graph \in Seq(Factor \cup {Hole})
      /\ rejected \subseteq Key /\ pending \subseteq inserted /\ reverted \in Nat
      /\ inserted \subseteq Key /\ removed \in Factor \cup {Hole}
  BY SeqMonotonic DEF TypeInv, GraphType, LoopType, RoundType, Tentative
<1>a. ASSUME Rollback({}), reverted' = reverted
      PROVE  reverted' <= Cardinality(rejected')
  BY <1>a DEF Rollback, LoopInv
<1>1. CASE SolveThrow
  BY <1>1, <1>a, LoopUnwind, {} \in SUBSET pending DEF SolveThrow, Standing
<1>2. CASE SolveOk
  <2>1. /\ pc = "solve" /\ pc' = "judge" /\ before' = Len(committed)
        /\ committed' = committed \o graph /\ graph' = <<>>
        /\ UNCHANGED <<removed, loopVars>>
    BY <1>2 DEF SolveOk
  <2>2. Standing = committed /\ Standing' = committed
    BY <1>0, <2>1, CutBack DEF Standing
  <2>3. FactorsOf(committed') = FactorsOf(committed) \cup FactorsOf(graph)
        /\ FactorsOf(graph') = {}
    <3>1. FactorsOf(committed \o graph) = FactorsOf(committed) \cup FactorsOf(graph)
      BY <1>0, FactorsOfConcat
    <3>2. FactorsOf(<<>>) = {}
      BY DEF FactorsOf
    <3> QED BY <2>1, <3>1, <3>2
  <2> QED BY <2>1, <2>2, <2>3 DEF LoopInv, LoopsAmong, loopVars
<1>3. CASE PostSolveThrow
  <2>1. graph' = <<>>
    BY <1>3 DEF PostSolveThrow, RoundInv
  <2> QED BY <1>3, <2>1, <1>a, LoopUnwind, {} \in SUBSET pending
          DEF PostSolveThrow, Truncate, Standing
<1>4. CASE LateThrow
  <2>1. graph' = <<>>
    BY <1>4 DEF LateThrow, RoundInv
  <2> QED BY <1>4, <2>1, <1>a, LoopUnwind, {} \in SUBSET pending
          DEF LateThrow, Truncate, Standing
<1>5. ASSUME NEW convicted \in Verdicts, Revert(convicted) PROVE LoopInv'
  <2>1. convicted # {} /\ convicted \in SUBSET pending /\ graph' = <<>>
    BY <1>5, VerdictBlames DEF Revert, RoundInv
  <2>2. PICK c \in convicted : c \notin rejected
    BY <1>0, <2>1 DEF LoopInv
  <2>3. rejected' = rejected \cup convicted /\ rejected \cup {c} \subseteq rejected'
    BY <1>5, <2>2 DEF Revert, Rollback
  <2>4. rejected' \in SUBSET Key
    BY <1>0, <2>1, <2>3
  <2>5. IsFiniteSet(rejected) /\ IsFiniteSet(rejected')
        /\ Cardinality(rejected) \in Nat /\ Cardinality(rejected') \in Nat
    BY <1>0, <2>4, KeysFinite
  <2>6. Cardinality(rejected \cup {c}) = Cardinality(rejected) + 1
    BY <2>2, <2>5, FS_AddElement
  <2>7. Cardinality(rejected \cup {c}) <= Cardinality(rejected')
    BY <2>3, <2>5, FS_Subset
  <2>8. reverted' = reverted + 1 /\ reverted <= Cardinality(rejected)
    BY <1>5 DEF Revert, LoopInv
  <2>9. reverted' <= Cardinality(rejected')
    BY <1>0, <2>5, <2>6, <2>7, <2>8
  <2> QED BY <1>5, <2>1, <2>9, LoopUnwind DEF Revert, Truncate, Standing
<1>6. CASE CommitFrame
  BY <1>6, LoopCommit DEF CommitFrame, Commit
<1>7. CASE CommitLoops
  BY <1>7, LoopCommit DEF CommitLoops, Commit
<1>8. CASE CommitReloc
  BY <1>8, LoopCommit DEF CommitReloc, Commit
<1>9. CASE CommitManual
  BY <1>9, LoopCommit DEF CommitManual, Commit
<1>10. CASE CommitUndo
  BY <1>10, LoopCommit DEF CommitUndo, Commit
<1>11. CASE CommitFix
  BY <1>11, LoopCommit DEF CommitFix, Commit
<1>12. CASE RestoreUndone
  <2> DEFINE idx == manual[Len(manual)]
  <2>1. /\ Standing = committed /\ Standing' = committed' /\ removed' = Hole
        /\ pending = {} /\ UNCHANGED <<graph, loopVars>>
    BY <1>12 DEF RestoreUndone, Return, Standing, RoundInv
  <2>2. LoopsAmong(FactorsOf(committed'), inserted)
    <3>1. CASE removed # Hole
      <4>1. committed' = [committed EXCEPT ![idx] = removed]
        BY <1>12, <3>1 DEF RestoreUndone
      <4> QED BY <1>0, <2>1, <4>1, LoopsAfterExcept DEF LoopInv
    <3>2. CASE removed = Hole
      BY <1>12, <3>2 DEF RestoreUndone, LoopInv
    <3> QED BY <3>1, <3>2
  <2> QED BY <2>1, <2>2 DEF LoopInv, LoopsAmong, loopVars, Hole
<1>13. CASE StrandLoops
  <2>1. /\ Standing' = Standing /\ committed' = Standing /\ graph' = <<>>
        /\ removed' \in {removed, Hole} /\ pending' = {} /\ inserted' = inserted
        /\ UNCHANGED <<rejected, queue, offered, reverted>>
    BY <1>13 DEF StrandLoops, Truncate, Standing, Fail, Return, RoundInv
  <2>2. FactorsOf(graph') = {}
    BY <2>1 DEF FactorsOf
  <2> QED BY <2>1, <2>2 DEF LoopInv, LoopsAmong, Hole
<1> QED BY <1>1, <1>2, <1>3, <1>4, <1>5, <1>6, <1>7, <1>8, <1>9, <1>10, <1>11,
           <1>12, <1>13 DEF Update

\* The loop search marks the closures it buffers, none of them convicted.
LEMMA LoopNssm == TypeInv /\ RoundInv /\ LoopInv /\ Nssm => LoopInv'
<1> SUFFICES ASSUME TypeInv, RoundInv, LoopInv, Nssm PROVE LoopInv'
  OBVIOUS
<1>1. CASE NssmSkip
  <2>1. Standing' = Standing /\ removed' = Hole
    BY <1>1 DEF NssmSkip, Return, Standing, graphVars
  <2> QED BY <1>1, <2>1 DEF NssmSkip, LoopInv, LoopsAmong, graphVars, loopVars, Hole
<1>2. ASSUME NEW t \in Candidates, NssmQueue(t) PROVE LoopInv'
  <2>1. Standing' = Standing /\ removed' = Hole
    BY <1>2 DEF NssmQueue, Offer, Return, Standing, graphVars
  <2> QED BY <1>2, <2>1 DEF NssmQueue, Offer, LoopInv, LoopsAmong, graphVars, Hole
<1>3. ASSUME NEW t \in Candidates, NEW fresh \in SUBSET Key, NssmInsert(t, fresh)
      PROVE  LoopInv'
  <2>1. /\ Standing' = Standing /\ pending = {} /\ pc = "nssm" /\ graph = <<>>
        /\ graph \in Seq(Factor) /\ removed' = removed
    BY <1>3 DEF NssmInsert, Offer, Enter, Standing, RoundInv, TypeInv, GraphType
  <2>2. fresh \cap rejected = {} /\ fresh \subseteq queue'
    BY <1>3, CliqueMembers DEF NssmInsert
  <2>3. /\ inserted' = inserted \cup fresh /\ pending' = pending \cup fresh
        /\ fresh \cap inserted = {} /\ rejected' = rejected /\ reverted' = reverted
        /\ committed' = committed
        /\ queue' \subseteq queue \cup {nkeys - 1}
        /\ offered' = offered \cup {nkeys - 1}
    BY <1>3 DEF NssmInsert, Offer
  <2>4. LoopsAmong(FactorsOf(graph'), inserted')
    <3>1. PICK order \in Listings(fresh) :
            graph' = graph \o [i \in DOMAIN order |-> Loop(order[i], target'[order[i]])]
      BY <1>3 DEF NssmInsert
    <3>2. [i \in DOMAIN order |-> Loop(order[i], target'[order[i]])] \in Seq(Factor)
      BY <1>3, OfferType, ListingType DEF NssmInsert
    <3>3. graph' = [i \in DOMAIN order |-> Loop(order[i], target'[order[i]])]
      BY <2>1, <3>1, <3>2, ConcatEmptySeq
    <3>4. \A i \in DOMAIN order : order[i] \in fresh
      BY DEF Listings
    <3>5. \A f \in FactorsOf(graph') : f.key \in fresh
      BY <3>3, <3>4 DEF FactorsOf, Loop, Make
    <3> QED BY <2>3, <3>5 DEF LoopsAmong
  <2>5. inserted' \ pending' = inserted \ pending
    BY <2>1, <2>3
  <2>6. LoopsAmong(FactorsOf(committed'), inserted')
    BY <2>3 DEF LoopInv, LoopsAmong
  <2> QED BY <2>1, <2>2, <2>3, <2>4, <2>5, <2>6 DEF LoopInv
<1> QED BY <1>1, <1>2, <1>3 DEF Nssm

\* Closures in the graph are marked, convicted ones are not.
LEMMA LoopInvariant == Spec => []LoopInv
<1>1. Init => LoopInv
  <2> SUFFICES ASSUME Init PROVE LoopInv
    OBVIOUS
  <2>1. \A f \in FactorsOf(LoadedChain(loaded)) : f.kind # "loop"
    BY DEF FactorsOf, LoadedChain, Prior, Unary, Link, Make
  <2>2. Standing = LoadedChain(loaded) /\ FactorsOf(graph) = {}
    BY DEF Init, Standing, FactorsOf
  <2> QED BY <2>1, <2>2, FS_EmptySet DEF Init, LoopInv, LoopsAmong, Hole
<1>2. LoopInv /\ UNCHANGED vars => LoopInv'
  BY DEF LoopInv, Standing, vars, graphVars, loopVars, roundVars
<1>3. TypeInv /\ RoundInv /\ LoopInv /\ [Next]_vars => LoopInv'
  BY <1>2, LoopHandler, LoopUpdate, LoopNssm DEF Next
<1> QED BY <1>1, <1>3, TypeInvariant, RoundInvariant, PTL DEF Spec

\* A closure a revert convicted never comes back, through no later clique.
THEOREM QuarantineIsForGood == Spec => []QuarantineHolds
<1>1. LoopInv => QuarantineHolds
  BY DEF LoopInv, QuarantineHolds, LoopsAmong
<1> QED BY <1>1, LoopInvariant, PTL

\* Every revert convicts a closure that was not convicted before, so their
\* number is bounded by the closures ever queued.
THEOREM RevertsBounded == Spec => []RevertsAreBounded
<1>1. LoopInv => RevertsAreBounded
  BY DEF LoopInv, RevertsAreBounded
<1> QED BY <1>1, LoopInvariant, PTL

----------------------------------------------------------------------------
(* The books and the ledger.                                               *)

Running == pc \in {"solve", "judge"}

\* The keyframes that stay if the round fails.
Kept == IF Running /\ caller \in {"frame", "reloc"} THEN nkeys - 1 ELSE nkeys

\* What the round adds to the mirror.
Adding ==
  IF pc = "solve" THEN graph
  ELSE IF pc = "judge" THEN SubSeq(committed, before + 1, Len(committed))
  ELSE <<>>

\* The factors the poses show until the round commits.
Mirror == FactorsOf(Standing) \cup Undoing

----------------------------------------------------------------------------
(* The four kinds of steps of update_factor_graph.                         *)

\* The marks of the tentative closures are gone.
Unmarked ==
  /\ inserted' = inserted \ pending /\ pending' = {}
  /\ constraints' =
       [k \in Key |-> IF k \in pending /\ constraints[k] # <<>>
                      THEN SubSeq(constraints[k], 1, Len(constraints[k]) - 1)
                      ELSE constraints[k]]
  /\ UNCHANGED <<offered, target, stranded>>

\* They outlive the round, having been made permanent in it.
Abandoned ==
  /\ pending' = {} /\ stranded' = stranded \cup pending
  /\ UNCHANGED <<inserted, constraints, offered, target>>

\* A round that failed, in whatever way.
Unwound ==
  /\ Running /\ pc' = (IF caller = "undo" THEN "restore" ELSE "idle")
  /\ Standing' = Standing /\ removed' = removed
  /\ Adding' = <<>> /\ Kept' = Kept /\ nkeys' = Kept
  /\ links' = IF caller \in {"frame", "reloc"} THEN {k \in links : k < Kept}
                                               ELSE links
  /\ Unmarked \/ Abandoned
  /\ UNCHANGED <<fixVars, mapVars>>

\* The factors are mirrored.
Solved ==
  /\ pc = "solve" /\ pc' = "judge" /\ caller' = caller
  /\ Standing' = Standing /\ removed' = removed
  /\ Adding' = Adding /\ Kept' = Kept /\ nkeys' = nkeys
  /\ UNCHANGED <<links, inserted, pending, constraints, offered, target,
                 stranded, slot, fixVars, mapVars>>

\* The round is over, its factors stay.
Committed ==
  /\ pc = "judge" /\ pc' = (IF caller = "frame" THEN "nssm" ELSE "idle")
  /\ Standing' = committed /\ removed' = Hole
  /\ Adding' = <<>> /\ Kept' = nkeys /\ nkeys' = nkeys
  /\ pending' = {}
  /\ awaiting' = (awaiting /\ caller # "reloc")
  /\ manual' = IF caller = "manual" THEN Append(manual, slot)
               ELSE IF caller = "undo" THEN SubSeq(manual, 1, Len(manual) - 1)
               ELSE manual
  /\ applied' = (IF caller = "manual" THEN applied + 1 ELSE applied)
  /\ undone' = (IF caller = "undo" THEN undone + 1 ELSE undone)
  /\ fixes' = (IF caller = "fix" THEN fixes + 1 ELSE fixes)
  /\ UNCHANGED <<links, inserted, constraints, offered, target, stranded, loaded>>

\* A handler buffered what it adds.
Begun(who) ==
  /\ pc \in {"idle", "nssm"} /\ pc' = "solve" /\ caller' = who
  /\ Standing' = Standing /\ removed = Hole /\ removed' = Hole
  /\ Adding = <<>> /\ Adding' = graph' /\ Kept = nkeys /\ Kept' = nkeys
  /\ pending = {} /\ graph = <<>>
  /\ UNCHANGED <<fixVars, mapVars>>

\* The factors of a part of a mirror and of the rest are those of the mirror.
LEMMA Parts ==
  ASSUME NEW s \in Seq(Factor \cup {Hole}), NEW b \in 0 .. Len(s)
  PROVE  /\ SubSeq(s, 1, b) \in Seq(Factor \cup {Hole})
         /\ SubSeq(s, b + 1, Len(s)) \in Seq(Factor \cup {Hole})
         /\ Len(SubSeq(s, 1, b)) = b
         /\ Len(SubSeq(s, b + 1, Len(s))) = Len(s) - b
         /\ s = SubSeq(s, 1, b) \o SubSeq(s, b + 1, Len(s))
         /\ FactorsOf(s) = FactorsOf(SubSeq(s, 1, b))
                             \cup FactorsOf(SubSeq(s, b + 1, Len(s)))
<1> DEFINE p == SubSeq(s, 1, b)
           q == SubSeq(s, b + 1, Len(s))
<1>0. Len(s) \in Nat /\ b \in Nat /\ b <= Len(s)
  BY LenProperties
<1>1. /\ p \in Seq(Factor \cup {Hole}) /\ Len(p) = b
      /\ \A i \in 1 .. b : p[i] = s[i]
  <2>1. \A i \in 1 .. b : s[i] \in Factor \cup {Hole}
    BY <1>0, ElementOfSeq
  <2> QED BY <1>0, <2>1, SubSeqProperties
<1>2. /\ q \in Seq(Factor \cup {Hole}) /\ Len(q) = Len(s) - b
      /\ \A i \in 1 .. Len(s) - b : q[i] = s[b + i]
  <2>1. \A i \in b + 1 .. Len(s) : s[i] \in Factor \cup {Hole}
    BY <1>0, ElementOfSeq
  <2>2. /\ q \in Seq(Factor \cup {Hole})
        /\ Len(q) = IF b + 1 <= Len(s) THEN Len(s) - (b + 1) + 1 ELSE 0
        /\ \A i \in 1 .. Len(s) - (b + 1) + 1 : q[i] = s[(b + 1) + i - 1]
    BY <1>0, <2>1, SubSeqProperties
  <2>3. Len(s) - (b + 1) + 1 = Len(s) - b /\ \A i \in Nat : (b + 1) + i - 1 = b + i
    BY <1>0
  <2>4. ASSUME NEW i \in 1 .. Len(s) - b PROVE q[i] = s[b + i]
    <3> HIDE DEF q
    <3>1. i \in 1 .. Len(s) - (b + 1) + 1 /\ (b + 1) + i - 1 = b + i
      BY <1>0, <2>3
    <3>2. q[i] = s[(b + 1) + i - 1]
      BY <2>2, <3>1
    <3> QED BY <3>1, <3>2
  <2>5. Len(q) = Len(s) - b
    BY <1>0, <2>2
  <2> QED BY <2>2, <2>4, <2>5
<1>3. s = p \o q
  <2>1. /\ p \o q \in Seq(Factor \cup {Hole})
        /\ Len(p \o q) = Len(p) + Len(q)
        /\ \A i \in 1 .. Len(p) + Len(q) :
             (p \o q)[i] = IF i <= Len(p) THEN p[i] ELSE q[i - Len(p)]
    BY <1>1, <1>2, ConcatProperties
  <2>2. ASSUME NEW i \in 1 .. Len(s) PROVE (p \o q)[i] = s[i]
    <3> HIDE DEF p, q
    <3>1. i \in 1 .. Len(p) + Len(q) /\ b + (i - b) = i
      BY <1>0, <1>1, <1>2
    <3>2. CASE i <= b
      BY <1>0, <1>1, <2>1, <3>1, <3>2
    <3>3. CASE ~(i <= b)
      <4>1. i - b \in 1 .. Len(s) - b
        BY <1>0, <3>3
      <4>2. q[i - b] = s[b + (i - b)]
        BY <1>2, <4>1
      <4> QED BY <1>1, <2>1, <3>1, <3>3, <4>2
    <3> QED BY <3>2, <3>3
  <2>3. Len(p \o q) = Len(s)
    BY <1>0, <1>1, <1>2, <2>1
  <2> QED BY <2>1, <2>2, <2>3, SeqEqual
<1>4. FactorsOf(p \o q) = FactorsOf(p) \cup FactorsOf(q)
  BY <1>1, <1>2, FactorsOfConcat
<1> QED BY <1>1, <1>2, <1>3, <1>4

\* What was appended is what lies behind the old end.
LEMMA Appended ==
  ASSUME NEW s \in Seq(Factor \cup {Hole}), NEW t \in Seq(Factor \cup {Hole})
  PROVE  SubSeq(s \o t, Len(s) + 1, Len(s \o t)) = t
<1>1. /\ s \o t \in Seq(Factor \cup {Hole})
      /\ Len(s \o t) = Len(s) + Len(t)
      /\ \A i \in 1 .. Len(s) + Len(t) :
           (s \o t)[i] = IF i <= Len(s) THEN s[i] ELSE t[i - Len(s)]
  BY ConcatProperties
<1>2. Len(s) \in Nat /\ Len(t) \in Nat
  OBVIOUS
<1>3. \A i \in Len(s) + 1 .. Len(s \o t) : (s \o t)[i] \in Factor \cup {Hole}
  BY <1>1, <1>2, ElementOfSeq
<1> DEFINE q == SubSeq(s \o t, Len(s) + 1, Len(s \o t))
<1>4. /\ q \in Seq(Factor \cup {Hole})
      /\ Len(q) = IF Len(s) + 1 <= Len(s \o t)
                  THEN Len(s \o t) - (Len(s) + 1) + 1 ELSE 0
      /\ \A i \in 1 .. Len(s \o t) - (Len(s) + 1) + 1 :
           q[i] = (s \o t)[(Len(s) + 1) + i - 1]
  <2>1. Len(s) + 1 \in Int /\ Len(s \o t) \in Int
    BY <1>1, <1>2
  <2> QED BY <1>3, <2>1, SubSeqProperties
<1>5. Len(q) = Len(t) /\ \A i \in 1 .. Len(t) : q[i] = t[i]
  BY <1>1, <1>2, <1>4
<1> QED BY <1>4, <1>5, SeqEqual

\* The mirror is what stands and what the round has added.
LEMMA MirrorParts ==
  ASSUME TypeInv
  PROVE  /\ Standing \in Seq(Factor \cup {Hole}) /\ Adding \in Seq(Factor \cup {Hole})
         /\ pc = "judge" => /\ committed = Standing \o Adding
                            /\ FactorsOf(committed)
                                 = FactorsOf(Standing) \cup FactorsOf(Adding)
<1>1. /\ committed \in Seq(Factor \cup {Hole}) /\ graph \in Seq(Factor \cup {Hole})
      /\ before \in Nat /\ (pc = "judge" => before <= Len(committed))
      /\ Len(committed) \in Nat
  BY SeqMonotonic, LenProperties DEF TypeInv, GraphType, RoundType, Round
<1>2. CASE pc = "judge"
  <2>1. before \in 0 .. Len(committed)
    BY <1>1, <1>2
  <2>2. /\ SubSeq(committed, 1, before) \in Seq(Factor \cup {Hole})
        /\ SubSeq(committed, before + 1, Len(committed)) \in Seq(Factor \cup {Hole})
        /\ committed = SubSeq(committed, 1, before)
                          \o SubSeq(committed, before + 1, Len(committed))
        /\ FactorsOf(committed)
             = FactorsOf(SubSeq(committed, 1, before))
                 \cup FactorsOf(SubSeq(committed, before + 1, Len(committed)))
    BY <1>1, <2>1, Parts
  <2> QED BY <1>2, <2>2, Zenon DEF Standing, Adding
<1>3. CASE pc # "judge"
  BY <1>1, <1>3, EmptySeq DEF Standing, Adding
<1> QED BY <1>2, <1>3

\* A failed round stands on what it stood on.
LEMMA FailUnwinds ==
  ASSUME TypeInv, RoundInv, Running, Unmarked \/ Abandoned, Fail,
         committed' = Standing,
         DropKeyframe \/ (caller = "loops" /\ UNCHANGED <<nkeys, links>>),
         UNCHANGED <<fixVars, mapVars>>
  PROVE  Unwound
<1>1. pc' = (IF caller = "undo" THEN "restore" ELSE "idle")
  BY DEF Fail, Return
<1>2. removed' = removed
  BY DEF Fail, Return, RoundInv
<1>3. Standing' = Standing /\ Adding' = <<>> /\ ~Running'
  BY <1>1 DEF Standing, Adding, Running
<1>4. nkeys' = Kept /\ Kept' = Kept
  BY <1>3 DEF DropKeyframe, Kept, Running
<1>5. links' = IF caller \in {"frame", "reloc"} THEN {k \in links : k < Kept} ELSE links
  BY DEF DropKeyframe, Kept, Running
<1> QED BY <1>1, <1>2, <1>3, <1>4, <1>5 DEF Unwound

\* Every step of update_factor_graph is one of the kinds, or puts back what
\* an undo had taken out.
LEMMA UpdateKinds ==
  ASSUME TypeInv, RoundInv, Update
  PROVE  Unwound \/ Solved \/ Committed \/ RestoreUndone
<1>0. /\ committed \in Seq(Factor \cup {Hole}) /\ graph \in Seq(Factor \cup {Hole})
      /\ Len(committed) \in Nat
  BY SeqMonotonic, LenProperties DEF TypeInv, GraphType
<1>1. ASSUME SolveThrow PROVE Unwound
  <2>1. Unmarked
    BY <1>1 DEF SolveThrow, Rollback, Unmarked
  <2>2. Running /\ Fail /\ DropKeyframe /\ committed' = Standing
        /\ UNCHANGED <<fixVars, mapVars>>
    BY <1>1 DEF SolveThrow, Standing, Running
  <2> QED BY <2>1, <2>2, FailUnwinds
<1>2. CASE SolveOk
  <2>1. Standing' = committed /\ Standing = committed /\ Adding = graph
    BY <1>0, <1>2, CutBack DEF SolveOk, Standing, Adding
  <2>2. Adding' = graph
    BY <1>0, <1>2, Appended DEF SolveOk, Adding
  <2> QED BY <1>2, <2>1, <2>2 DEF SolveOk, Solved, Kept, Running, loopVars
<1>3. ASSUME PostSolveThrow PROVE Unwound
  <2>1. Unmarked
    BY <1>3 DEF PostSolveThrow, Rollback, Unmarked
  <2>2. Running /\ Fail /\ DropKeyframe /\ committed' = Standing
        /\ UNCHANGED <<fixVars, mapVars>>
    BY <1>3 DEF PostSolveThrow, Truncate, Standing, Running
  <2> QED BY <2>1, <2>2, FailUnwinds
<1>4. ASSUME LateThrow PROVE Unwound
  <2>1. Unmarked
    BY <1>4 DEF LateThrow, Rollback, Unmarked
  <2>2. Running /\ Fail /\ DropKeyframe /\ committed' = Standing
        /\ UNCHANGED <<fixVars, mapVars>>
    BY <1>4 DEF LateThrow, Truncate, Standing, Running
  <2> QED BY <2>1, <2>2, FailUnwinds
<1>5. ASSUME NEW convicted \in Verdicts, Revert(convicted) PROVE Unwound
  <2>1. caller = "loops" /\ Running
    BY <1>5 DEF Revert, RoundInv, Running
  <2>2. Unmarked
    BY <1>5 DEF Revert, Rollback, Unmarked
  <2> QED BY <1>5, <2>1, <2>2, FailUnwinds DEF Revert, Truncate, Standing
<1>7. ASSUME StrandLoops PROVE Unwound
  <2>1. Abandoned
    BY <1>7 DEF StrandLoops, Abandoned
  <2>2. Running /\ Fail /\ DropKeyframe /\ committed' = Standing
        /\ UNCHANGED <<fixVars, mapVars>>
    BY <1>7 DEF StrandLoops, Truncate, Standing, Running
  <2> QED BY <2>1, <2>2, FailUnwinds
<1>6. CASE CommitFrame \/ CommitLoops \/ CommitReloc \/ CommitManual \/ CommitUndo
           \/ CommitFix
  <2>1. /\ Commit /\ Return(IF caller = "frame" THEN "nssm" ELSE "idle")
        /\ caller # "none"
    BY <1>6 DEF CommitFrame, CommitLoops, CommitReloc, CommitManual, CommitUndo,
                CommitFix
  <2>2. awaiting' = (awaiting /\ caller # "reloc")
    <3>1. awaiting \in BOOLEAN
      BY DEF TypeInv, FixType
    <3>2. CASE caller = "reloc"
      BY <1>6, <3>2 DEF CommitFrame, CommitLoops, CommitReloc, CommitManual,
                        CommitUndo, CommitFix
    <3>3. CASE caller # "reloc"
      <4>1. awaiting' = awaiting
        BY <1>6, <3>3 DEF CommitFrame, CommitLoops, CommitReloc, CommitManual,
                          CommitUndo, CommitFix
      <4> QED BY <3>1, <3>3, <4>1
    <3> QED BY <3>2, <3>3
  <2>3. /\ manual' = IF caller = "manual" THEN Append(manual, slot)
                     ELSE IF caller = "undo" THEN SubSeq(manual, 1, Len(manual) - 1)
                     ELSE manual
        /\ applied' = (IF caller = "manual" THEN applied + 1 ELSE applied)
        /\ undone' = (IF caller = "undo" THEN undone + 1 ELSE undone)
        /\ fixes' = (IF caller = "fix" THEN fixes + 1 ELSE fixes)
    BY <1>6 DEF CommitFrame, CommitLoops, CommitReloc, CommitManual, CommitUndo,
                CommitFix, fixVars
  <2>4. /\ pc = "judge" /\ pc' = (IF caller = "frame" THEN "nssm" ELSE "idle")
        /\ removed' = Hole
        /\ UNCHANGED <<nkeys, links, committed, offered, target, inserted,
                       constraints, stranded, loaded>>
        /\ pending' = {}
    BY <2>1 DEF Commit, Return
  <2>5. Standing' = committed /\ Adding' = <<>> /\ Kept' = nkeys
    BY <2>4 DEF Standing, Adding, Kept, Running
  <2> QED BY <2>2, <2>3, <2>4, <2>5 DEF Committed
<1> QED BY <1>1, <1>2, <1>3, <1>4, <1>5, <1>6, <1>7 DEF Update

\* Handlers that only buffer.
LEMMA HandlerBegins ==
  ASSUME TypeInv, RoundInv
  PROVE  /\ AddPrior \/ AddSequential => Begun("frame")
         /\ Relocalize => Begun("reloc")
         /\ ManualCorrection => Begun("manual")
         /\ \A k \in Key : PositionPrior(k) => Begun("fix")
         /\ \A t \in Candidates, fresh \in SUBSET Key :
              NssmInsert(t, fresh) => Begun("loops")
<1>0. nkeys \in Nat
  BY DEF TypeInv, GraphType
<1>1. ASSUME pc \in {"idle", "nssm"}
      PROVE  Standing = committed /\ removed = Hole /\ Adding = <<>>
             /\ Kept = nkeys /\ pending = {} /\ graph = <<>>
  BY <1>1 DEF Standing, Adding, Kept, Running, RoundInv
<1>2. ASSUME pc' = "solve", UNCHANGED committed
      PROVE  Standing' = committed /\ Adding' = graph'
             /\ (caller' \in {"frame", "reloc"} => Kept' = nkeys' - 1)
             /\ (caller' \notin {"frame", "reloc"} => Kept' = nkeys')
  BY <1>2 DEF Standing, Adding, Kept, Running
<1>3. AddPrior \/ AddSequential => Begun("frame")
  BY <1>0, <1>1, <1>2 DEF AddPrior, AddSequential, Enter, Begun
<1>4. Relocalize => Begun("reloc")
  BY <1>0, <1>1, <1>2 DEF Relocalize, Enter, Begun
<1>5. ManualCorrection => Begun("manual")
  BY <1>0, <1>1, <1>2 DEF ManualCorrection, Enter, Begun
<1>6. \A k \in Key : PositionPrior(k) => Begun("fix")
  BY <1>0, <1>1, <1>2 DEF PositionPrior, Enter, Begun
<1>7. \A t \in Candidates, fresh \in SUBSET Key :
        NssmInsert(t, fresh) => Begun("loops")
  BY <1>0, <1>1, <1>2 DEF NssmInsert, Offer, Enter, Begun
<1> QED BY <1>3, <1>4, <1>5, <1>6, <1>7

----------------------------------------------------------------------------
(* What a round adds.                                                      *)

\* A round's caller tells what is buffered, or mirrored behind Standing.
Shape ==
  /\ caller = "reloc" <=> awaiting
  /\ caller = "frame"  => \/ nkeys = 1 /\ Adding = <<Prior(0)>>
                          \/ nkeys > 1 /\ Adding = <<Link(nkeys - 1), Unary(nkeys - 1)>>
  /\ caller = "reloc"  => nkeys > 0 /\ Adding = <<Anchor(nkeys - 1), Unary(nkeys - 1)>>
  /\ caller = "manual" => /\ nkeys > 0 /\ Adding = <<Manual(nkeys - 1, applied)>>
                          /\ slot = Len(Standing) + 1
  /\ caller = "undo"   => Adding = <<>>
  /\ caller = "fix"    => \E k \in 0 .. nkeys - 1 : Adding = <<Fix(k, fixes)>>
  /\ caller = "loops"  => /\ pending # {}
                          /\ FactorsOf(Adding) = {Loop(s, target[s]) : s \in pending}

ShapeInv ==
  /\ Running => Shape
  /\ pc \in {"nssm", "restore"} => ~awaiting

\* The factors of the shortest sequences.
LEMMA FactorsOfFew ==
  /\ FactorsOf(<<>>) = {}
  /\ \A f \in Factor : FactorsOf(<<f>>) = {f}
  /\ \A f, g \in Factor : FactorsOf(<<f, g>>) = {f, g}
<1>1. FactorsOf(<<>>) = {}
  BY DEF FactorsOf
<1>2. ASSUME NEW f \in Factor PROVE FactorsOf(<<f>>) = {f}
  BY HoleIsNoFactor DEF FactorsOf
<1>3. ASSUME NEW f \in Factor, NEW g \in Factor PROVE FactorsOf(<<f, g>>) = {f, g}
  <2>1. DOMAIN <<f, g>> = {1, 2} /\ <<f, g>>[1] = f /\ <<f, g>>[2] = g
    OBVIOUS
  <2> QED BY <2>1, HoleIsNoFactor DEF FactorsOf
<1> QED BY <1>1, <1>2, <1>3

\* A clique is buffered as the loop factors of its members.
LEMMA ListedFactors ==
  ASSUME NEW S \in SUBSET Key, NEW order \in Listings(S), NEW t \in [Key -> Key]
  PROVE  FactorsOf([i \in DOMAIN order |-> Loop(order[i], t[order[i]])])
           = {Loop(s, t[s]) : s \in S}
<1> DEFINE listed == [i \in DOMAIN order |-> Loop(order[i], t[order[i]])]
<1>1. /\ DOMAIN order = 1 .. Cardinality(S) /\ \A i \in DOMAIN order : order[i] \in S
      /\ \A x \in S : \E i \in DOMAIN order : order[i] = x
  BY DEF Listings
<1>2. \A i \in DOMAIN order : Loop(order[i], t[order[i]]) # Hole
  BY DEF Loop, Make, Hole
<1>3. FactorsOf(listed) = {listed[i] : i \in DOMAIN order}
  BY <1>2 DEF FactorsOf
<1>4. ASSUME NEW i \in DOMAIN order
      PROVE  listed[i] \in {Loop(s, t[s]) : s \in S}
  BY <1>1, <1>4
<1>5. ASSUME NEW s \in S
      PROVE  Loop(s, t[s]) \in {listed[i] : i \in DOMAIN order}
  <2>1. PICK i \in DOMAIN order : order[i] = s
    BY <1>1
  <2> QED BY <2>1
<1> QED BY <1>3, <1>4, <1>5

\* Every round has the shape of its caller.
LEMMA ShapeStep == TypeInv /\ RoundInv /\ ShapeInv /\ Next => ShapeInv'
<1> SUFFICES ASSUME TypeInv, RoundInv, ShapeInv, Next PROVE ShapeInv'
  OBVIOUS
<1>0. /\ nkeys \in Nat /\ slot \in Nat /\ committed \in Seq(Factor \cup {Hole})
      /\ Len(committed) \in Nat
  BY LenProperties DEF TypeInv, GraphType, RoundType
<1>1. CASE AddPrior
  <2>0. Begun("frame")
    BY <1>1, HandlerBegins
  <2>1. graph' = <<Prior(0)>> /\ nkeys' = 1 /\ ~awaiting
    BY <1>0, <1>1, <2>0 DEF AddPrior, Begun, Running, fixVars, mapVars
  <2> QED BY <2>0, <2>1 DEF ShapeInv, Shape, Begun, Running, fixVars, mapVars
<1>2. CASE AddSequential
  <2>0. Begun("frame")
    BY <1>2, HandlerBegins
  <2>1. graph' = <<Link(nkeys), Unary(nkeys)>> /\ nkeys' = nkeys + 1 /\ nkeys > 0
        /\ ~awaiting
    BY <1>0, <1>2, <2>0 DEF AddSequential, Begun, Running, fixVars, mapVars
  <2>2. nkeys' - 1 = nkeys /\ nkeys' > 1
    BY <1>0, <2>1
  <2> QED BY <2>0, <2>1, <2>2 DEF ShapeInv, Shape, Begun, Running, fixVars, mapVars
<1>3. CASE Relocalize
  <2>0. Begun("reloc")
    BY <1>3, HandlerBegins
  <2>1. graph' = <<Anchor(nkeys), Unary(nkeys)>> /\ nkeys' = nkeys + 1 /\ awaiting
    BY <1>0, <1>3, <2>0 DEF Relocalize, Begun, Running, fixVars, mapVars
  <2>2. nkeys' - 1 = nkeys /\ nkeys' > 0
    BY <1>0, <2>1
  <2> QED BY <2>0, <2>1, <2>2 DEF ShapeInv, Shape, Begun, Running, fixVars, mapVars
<1>4. CASE ManualCorrection
  <2>0. Begun("manual")
    BY <1>4, HandlerBegins
  <2>1. /\ graph' = <<Manual(nkeys - 1, applied)>> /\ nkeys' = nkeys /\ nkeys > 0
        /\ ~awaiting /\ slot' = Len(committed) + 1
    BY <1>0, <1>4, <2>0 DEF ManualCorrection, Begun, Running, fixVars, mapVars
  <2>2. Standing' = committed
    BY <1>4, <2>0 DEF ManualCorrection, Standing, Begun, Running, fixVars, mapVars
  <2> QED BY <2>0, <2>1, <2>2 DEF ShapeInv, Shape, Begun, Running, fixVars, mapVars
<1>5. CASE UndoManual
  <2>1. Adding' = <<>> /\ caller' = "undo" /\ pc' = "solve" /\ ~awaiting'
    BY <1>5 DEF UndoManual, Enter, Adding, RoundInv, mapVars
  <2> QED BY <2>1 DEF ShapeInv, Shape
<1>6. ASSUME NEW k \in Key, PositionPrior(k) PROVE ShapeInv'
  <2>0. Begun("fix")
    BY <1>6, HandlerBegins
  <2>1. graph' = <<Fix(k, fixes)>> /\ nkeys' = nkeys /\ k \in 0 .. nkeys - 1 /\ ~awaiting
    BY <1>0, <1>6, <2>0 DEF PositionPrior, Key, Begun, Running, fixVars, mapVars
  <2> QED BY <2>0, <2>1 DEF ShapeInv, Shape, Begun, Running, fixVars, mapVars
<1>7. CASE NssmSkip
  BY <1>7 DEF NssmSkip, Return, ShapeInv, Running
<1>8. ASSUME NEW t \in Candidates, NssmQueue(t) PROVE ShapeInv'
  BY <1>8 DEF NssmQueue, Return, ShapeInv, Running
<1>9. ASSUME NEW t \in Candidates, NEW fresh \in SUBSET Key, NssmInsert(t, fresh)
      PROVE  ShapeInv'
  <2>1. Begun("loops")
    BY <1>9, HandlerBegins
  <2>2. /\ pending' = fresh /\ fresh # {} /\ target' \in [Key -> Key] /\ ~awaiting
    BY <1>9, <2>1, OfferType DEF NssmInsert, Offer, Begun, ShapeInv
  <2>3. PICK order \in Listings(fresh) :
          graph' = graph \o [i \in DOMAIN order |-> Loop(order[i], target'[order[i]])]
    BY <1>9 DEF NssmInsert
  <2>4. [i \in DOMAIN order |-> Loop(order[i], target'[order[i]])] \in Seq(Factor)
    BY <2>2, ListingType
  <2>5. graph' = [i \in DOMAIN order |-> Loop(order[i], target'[order[i]])]
    BY <2>1, <2>3, <2>4, ConcatEmptySeq DEF Begun
  <2>6. FactorsOf(graph') = {Loop(s, target'[s]) : s \in fresh}
    BY <2>2, <2>5, ListedFactors
  <2> QED BY <2>1, <2>2, <2>6 DEF ShapeInv, Shape, Begun, Running, fixVars, mapVars
<1>10. CASE Unwound
  <2>1. ~Running'
    BY <1>10 DEF Unwound, Running
  <2>2. pc' = "restore" => ~awaiting'
    BY <1>10 DEF Unwound, ShapeInv, Shape, mapVars
  <2> QED BY <1>10, <2>1, <2>2 DEF Unwound, ShapeInv
<1>11. CASE Solved
  BY <1>11 DEF Solved, Running, ShapeInv, Shape, fixVars, mapVars
<1>12. CASE Committed
  BY <1>12 DEF Committed, Running, ShapeInv, Shape
<1>13. CASE RestoreUndone
  BY <1>13 DEF RestoreUndone, Return, Running, ShapeInv
<1> QED BY <1>1, <1>2, <1>3, <1>4, <1>5, <1>6, <1>7, <1>8, <1>9, <1>10, <1>11,
           <1>12, <1>13, UpdateKinds DEF Next, Handler, Nssm

\* Rounds have their shape in every reachable state.
LEMMA ShapeInvariant == Spec => []ShapeInv
<1>1. Init => ShapeInv
  BY DEF Init, ShapeInv, Running
<1>2. ASSUME ShapeInv, UNCHANGED vars PROVE ShapeInv'
  <2>1. Adding' = Adding /\ Standing' = Standing
    BY <1>2 DEF Adding, Standing, vars, graphVars, roundVars
  <2>2. /\ pc' = pc /\ caller' = caller /\ awaiting' = awaiting /\ nkeys' = nkeys
        /\ applied' = applied /\ slot' = slot /\ fixes' = fixes
        /\ pending' = pending /\ target' = target
    BY <1>2 DEF vars, graphVars, loopVars, fixVars, mapVars, roundVars
  <2> QED BY <1>2, <2>1, <2>2 DEF ShapeInv, Shape, Running
<1>3. TypeInv /\ RoundInv /\ ShapeInv /\ [Next]_vars => ShapeInv'
  BY <1>2, ShapeStep
<1> QED BY <1>1, <1>3, TypeInvariant, RoundInvariant, PTL DEF Spec

----------------------------------------------------------------------------
(* The undo stack.                                                         *)

\* The correction entry i of the undo stack stands for: the factor at its
\* place, or the one a running undo has taken from there.
LiveAt(i) == IF Standing[manual[i]] = Hole THEN removed ELSE Standing[manual[i]]

StackInv ==
  /\ \A i \in DOMAIN manual : /\ manual[i] \in 1 .. Len(Standing)
                              /\ LiveAt(i).kind = "manual" /\ LiveAt(i).ref < applied
  /\ \A i, j \in DOMAIN manual :
       i < j => manual[i] < manual[j] /\ LiveAt(i).ref < LiveAt(j).ref
  /\ \A p \in 1 .. Len(Standing) :
       Standing[p].kind = "manual" => \E i \in DOMAIN manual : manual[i] = p
  /\ applied - undone = Len(manual)
  /\ removed # Hole => /\ removed.kind = "manual" /\ manual # <<>>
                       /\ Standing[manual[Len(manual)]] = Hole
  /\ (Running /\ caller = "undo") \/ pc = "restore" => removed # Hole

\* A step that leaves the stack and what stands alone.
LEMMA StackSame ==
  ASSUME StackInv, UNCHANGED <<manual, applied, undone>>, Standing' = Standing,
         removed' = removed,
         (Running' /\ caller' = "undo") \/ pc' = "restore"
           => (Running /\ caller = "undo") \/ pc = "restore"
  PROVE  StackInv'
<1>1. \A i \in DOMAIN manual : LiveAt(i)' = LiveAt(i)
  BY DEF LiveAt
<1> QED BY <1>1 DEF StackInv

\* The types the stack needs.
LEMMA StackTypes ==
  ASSUME TypeInv
  PROVE  /\ manual \in Seq(Nat) /\ Len(manual) \in Nat /\ DOMAIN manual = 1 .. Len(manual)
         /\ \A i \in DOMAIN manual : manual[i] \in Nat
         /\ applied \in Nat /\ undone \in Nat
         /\ removed \in Factor \cup {Hole}
         /\ Standing \in Seq(Factor \cup {Hole}) /\ Len(Standing) \in Nat
         /\ DOMAIN Standing = 1 .. Len(Standing)
         /\ \A p \in 1 .. Len(Standing) : Standing[p] \in Factor \cup {Hole}
<1>1. manual \in Seq(Nat) /\ applied \in Nat /\ undone \in Nat
      /\ removed \in Factor \cup {Hole}
  BY DEF TypeInv, FixType, RoundType
<1>2. Standing \in Seq(Factor \cup {Hole})
  BY MirrorParts
<1> QED BY <1>1, <1>2, LenProperties, ElementOfSeq

\* The entries name different places, and only the last can name a hole,
\* while an undo runs.
LEMMA StackFacts ==
  ASSUME TypeInv, StackInv
  PROVE  /\ \A i \in DOMAIN manual : LiveAt(i).ref \in Nat
         /\ removed = Hole => \A i \in DOMAIN manual :
              Standing[manual[i]] # Hole /\ LiveAt(i) = Standing[manual[i]]
         /\ removed # Hole =>
              /\ Len(manual) \in DOMAIN manual /\ LiveAt(Len(manual)) = removed
              /\ \A i \in DOMAIN manual : i # Len(manual) =>
                   Standing[manual[i]] # Hole /\ LiveAt(i) = Standing[manual[i]]
<1>1. ASSUME NEW i \in DOMAIN manual
      PROVE  /\ LiveAt(i) \in Factor \cup {Hole} /\ LiveAt(i).kind = "manual"
             /\ LiveAt(i) # Hole
  BY <1>1, StackTypes DEF StackInv, LiveAt, Hole
<1>2. \A f \in Factor : f.ref \in Nat
  BY DEF Factor
<1>3. ASSUME removed = Hole, NEW i \in DOMAIN manual
      PROVE  Standing[manual[i]] # Hole /\ LiveAt(i) = Standing[manual[i]]
  BY <1>1, <1>3 DEF LiveAt
<1>4. ASSUME removed # Hole
      PROVE  Len(manual) \in DOMAIN manual /\ LiveAt(Len(manual)) = removed
  <2>1. Len(manual) \in DOMAIN manual
    BY <1>4, StackTypes, EmptySeq DEF StackInv
  <2> QED BY <1>4, <2>1 DEF StackInv, LiveAt
<1>5. ASSUME removed # Hole, NEW i \in DOMAIN manual, i # Len(manual)
      PROVE  Standing[manual[i]] # Hole /\ LiveAt(i) = Standing[manual[i]]
  <2>1. i < Len(manual)
    BY <1>5, StackTypes
  <2>2. LiveAt(i).ref < LiveAt(Len(manual)).ref
    BY <1>4, <1>5, <2>1 DEF StackInv
  <2>3. LiveAt(i) # removed
    BY <1>1, <1>2, <1>4, <1>5, <2>2
  <2> QED BY <2>3 DEF LiveAt
<1> QED BY <1>1, <1>2, <1>3, <1>4, <1>5

\* No round but a correction's adds a manual factor.
LEMMA AddsNoManual ==
  ASSUME TypeInv, RoundInv, ShapeInv, Running, caller # "manual",
         NEW p \in DOMAIN Adding
  PROVE  Adding[p].kind # "manual"
<1>1. Shape /\ caller \in {"frame", "reloc", "loops", "undo", "fix"}
  BY DEF ShapeInv, TypeInv, RoundType, RoundInv, Running
<1>2. CASE caller = "frame"
  BY <1>1, <1>2 DEF Shape, Prior, Link, Unary, Make
<1>3. CASE caller = "reloc"
  BY <1>1, <1>3 DEF Shape, Anchor, Unary, Make
<1>4. CASE caller = "fix"
  BY <1>1, <1>4 DEF Shape, Fix, Make
<1>5. CASE caller = "undo"
  BY <1>1, <1>5 DEF Shape
<1>6. CASE caller = "loops"
  <2>1. Adding[p] = Hole \/ Adding[p] \in FactorsOf(Adding)
    BY DEF FactorsOf
  <2>2. \A f \in FactorsOf(Adding) : f.kind = "loop"
    BY <1>1, <1>6 DEF Shape, Loop, Make
  <2> QED BY <2>1, <2>2 DEF Hole
<1> QED BY <1>1, <1>2, <1>3, <1>4, <1>5, <1>6

\* An undo in progress has dug its hole: the entry lives in removed.
LEMMA StackUndo ==
  ASSUME TypeInv, RoundInv, StackInv, UndoManual
  PROVE  StackInv' /\ Mirror' = Mirror /\ \A i \in DOMAIN manual : LiveAt(i)' = LiveAt(i)
<1> DEFINE last == Len(manual)
           idx  == manual[last]
<1>1. /\ pc = "idle" /\ manual # <<>> /\ manual' = manual /\ applied' = applied
      /\ undone' = undone /\ pc' = "solve" /\ removed = Hole
      /\ Standing = committed /\ Standing' = committed'
  BY DEF UndoManual, Enter, RoundInv, Standing, fixVars
<1>2. last \in DOMAIN manual /\ \A i \in DOMAIN manual : i # last => i < last
  BY <1>1, StackTypes, EmptySeq
<1>3. idx \in 1 .. Len(committed) /\ DOMAIN committed = 1 .. Len(committed)
  BY <1>1, <1>2, StackTypes DEF StackInv
<1>4. committed' = [committed EXCEPT ![idx] = Hole] /\ removed' = committed[idx]
  BY <1>3 DEF UndoManual
<1>5. /\ Len(committed') = Len(committed) /\ committed'[idx] = Hole
      /\ \A p \in 1 .. Len(committed) : p # idx => committed'[p] = committed[p]
  <2>1. committed \in Seq(Factor \cup {Hole})
    BY <1>1, StackTypes
  <2>2. Len([committed EXCEPT ![idx] = Hole]) = Len(committed)
    BY <1>3, <2>1, ExceptSeq
  <2> QED BY <1>3, <1>4, <2>2
<1>6. \A i \in DOMAIN manual :
        committed[manual[i]] # Hole /\ LiveAt(i) = committed[manual[i]]
  BY <1>1, StackFacts
<1>7. ASSUME NEW i \in DOMAIN manual PROVE LiveAt(i)' = LiveAt(i)
  <2>1. LiveAt(i)' = IF committed'[manual[i]] = Hole THEN removed' ELSE committed'[manual[i]]
    BY <1>1 DEF LiveAt
  <2>2. CASE i = last
    BY <1>2, <1>4, <1>5, <1>6, <2>1, <2>2
  <2>3. CASE i # last
    <3>1. manual[i] \in 1 .. Len(committed) /\ manual[i] < idx
      BY <1>1, <1>2, <1>7, <2>3 DEF StackInv
    <3>2. manual[i] # idx
      BY <1>3, <3>1
    <3> QED BY <1>5, <1>6, <2>1, <3>1, <3>2
  <2> QED BY <2>2, <2>3
<1>8. removed' # Hole /\ removed'.kind = "manual"
  BY <1>2, <1>4, <1>6 DEF StackInv
<1>9. ASSUME NEW p \in 1 .. Len(committed), committed'[p].kind = "manual"
      PROVE  \E i \in DOMAIN manual : manual[i] = p
  <2>1. p # idx
    BY <1>5, <1>9 DEF Hole
  <2> QED BY <1>1, <1>5, <1>9, <2>1 DEF StackInv
<1>10. idx = manual'[Len(manual')]
  BY <1>1
<1> HIDE DEF idx, last
<1>11. StackInv'
  BY <1>1, <1>5, <1>7, <1>8, <1>9, <1>10 DEF StackInv
<1>12. Mirror' = Mirror
  <2>1. FactorsOf(committed) = FactorsOf([committed EXCEPT ![idx] = Hole])
                                 \cup ({committed[idx]} \ {Hole})
    BY <1>1, <1>3, StackTypes, DigHole
  <2> QED BY <1>1, <1>4, <1>8, <2>1 DEF Mirror, Undoing
<1> QED BY <1>7, <1>11, <1>12

\* A failed undo puts its factor back where it came from.
LEMMA StackRestore ==
  ASSUME TypeInv, RoundInv, StackInv, RestoreUndone
  PROVE  StackInv' /\ Mirror' = Mirror /\ \A i \in DOMAIN manual : LiveAt(i)' = LiveAt(i)
<1> DEFINE last == Len(manual)
           idx  == manual[last]
<1>1. /\ pc = "restore" /\ manual' = manual /\ applied' = applied
      /\ undone' = undone /\ pc' = "idle" /\ removed # Hole /\ removed' = Hole
      /\ Standing = committed /\ Standing' = committed' /\ removed.kind = "manual"
      /\ manual # <<>>
  BY DEF RestoreUndone, Return, Standing, StackInv, fixVars
<1>2. last \in DOMAIN manual /\ \A i \in DOMAIN manual : i # last => i < last
  BY <1>1, StackTypes, EmptySeq
<1>3. idx \in 1 .. Len(committed) /\ DOMAIN committed = 1 .. Len(committed)
  BY <1>1, <1>2, StackTypes DEF StackInv
<1>4. committed' = [committed EXCEPT ![idx] = removed]
  BY <1>1 DEF RestoreUndone
<1>5. /\ Len(committed') = Len(committed) /\ committed'[idx] = removed
      /\ \A p \in 1 .. Len(committed) : p # idx => committed'[p] = committed[p]
  <2>1. committed \in Seq(Factor \cup {Hole}) /\ removed \in Factor \cup {Hole}
    BY <1>1, StackTypes
  <2>2. Len([committed EXCEPT ![idx] = removed]) = Len(committed)
    BY <1>3, <2>1, ExceptSeq
  <2> QED BY <1>3, <1>4, <2>2
<1>6. /\ LiveAt(last) = removed
      /\ \A i \in DOMAIN manual : i # last =>
           committed[manual[i]] # Hole /\ LiveAt(i) = committed[manual[i]]
  BY <1>1, StackFacts
<1>7. ASSUME NEW i \in DOMAIN manual PROVE LiveAt(i)' = LiveAt(i)
  <2>1. LiveAt(i)' = IF committed'[manual[i]] = Hole THEN removed' ELSE committed'[manual[i]]
    BY <1>1 DEF LiveAt
  <2>2. CASE i = last
    BY <1>1, <1>5, <1>6, <2>1, <2>2
  <2>3. CASE i # last
    <3>1. manual[i] \in 1 .. Len(committed) /\ manual[i] < idx
      BY <1>1, <1>2, <1>7, <2>3 DEF StackInv
    <3>2. manual[i] # idx
      BY <1>3, <3>1
    <3> QED BY <1>5, <1>6, <2>1, <2>3, <3>1, <3>2
  <2> QED BY <2>2, <2>3
<1>8. ASSUME NEW p \in 1 .. Len(committed), committed'[p].kind = "manual"
      PROVE  \E i \in DOMAIN manual : manual[i] = p
  <2>1. CASE p = idx
    BY <1>2, <2>1
  <2>2. CASE p # idx
    BY <1>1, <1>5, <1>8, <2>2 DEF StackInv
  <2> QED BY <2>1, <2>2
<1>9. StackInv'
  BY <1>1, <1>5, <1>7, <1>8 DEF StackInv, Running
<1>10. Mirror' = Mirror
  <2>1. /\ removed \in Factor /\ committed \in Seq(Factor \cup {Hole})
        /\ idx \in 1 .. Len(committed) /\ committed[idx] = Hole
    BY <1>1, <1>3, StackTypes DEF StackInv
  <2>2. FactorsOf([committed EXCEPT ![idx] = removed]) = FactorsOf(committed) \cup {removed}
    <3> HIDE DEF idx
    <3> QED BY <2>1, FillHole
  <2> QED BY <1>1, <1>4, <2>2 DEF Mirror, Undoing
<1> QED BY <1>7, <1>9, <1>10

\* A commit pushes the correction it added, pops the one it undid, or leaves
\* the stack alone.
LEMMA StackCommit ==
  ASSUME TypeInv, RoundInv, ShapeInv, StackInv, Committed
  PROVE  /\ StackInv'
         /\ \A i \in DOMAIN manual' : LiveAt(i)' = IF i \in DOMAIN manual THEN LiveAt(i)
                                                   ELSE Manual(nkeys - 1, applied)
<1>0. PICK last \in Nat : last = Len(manual) /\ DOMAIN manual = 1 .. last
  BY StackTypes
<1>1. /\ pc = "judge" /\ Running /\ Shape /\ removed' = Hole /\ ~Running'
      /\ pc' # "restore" /\ Standing' = Standing \o Adding
  BY MirrorParts DEF Committed, Running, ShapeInv
<1>2. /\ Len(Standing') = Len(Standing) + Len(Adding) /\ Len(Adding) \in Nat
      /\ DOMAIN Adding = 1 .. Len(Adding)
      /\ \A p \in 1 .. Len(Standing') :
           Standing'[p] = IF p <= Len(Standing) THEN Standing[p]
                                                ELSE Adding[p - Len(Standing)]
  BY <1>1, MirrorParts, ConcatProperties, LenProperties
<1>3. \A p \in 1 .. Len(Standing) : p \in 1 .. Len(Standing') /\ Standing'[p] = Standing[p]
  BY <1>2, StackTypes
<1>4. \A i : LiveAt(i)' = IF Standing'[manual'[i]] = Hole THEN Hole
                          ELSE Standing'[manual'[i]]
  BY <1>1 DEF LiveAt
<1>5. ASSUME removed = Hole, NEW i \in DOMAIN manual, manual'[i] = manual[i]
      PROVE  LiveAt(i)' = LiveAt(i)
  <2>1. Standing[manual[i]] # Hole /\ LiveAt(i) = Standing[manual[i]]
    BY <1>5, StackFacts
  <2>2. manual[i] \in 1 .. Len(Standing)
    BY DEF StackInv
  <2> QED BY <1>3, <1>4, <1>5, <2>1, <2>2
<1>6. CASE caller = "manual"
  <2>1. /\ removed = Hole /\ nkeys > 0 /\ Adding = <<Manual(nkeys - 1, applied)>>
        /\ slot = Len(Standing) + 1 /\ manual' = Append(manual, slot)
        /\ applied' = applied + 1 /\ undone' = undone
    BY <1>1, <1>6 DEF Shape, RoundInv, Committed
  <2>2. /\ Len(manual') = last + 1 /\ DOMAIN manual' = 1 .. last + 1
        /\ manual'[last + 1] = slot
        /\ \A i \in DOMAIN manual : i \in DOMAIN manual' /\ manual'[i] = manual[i]
        /\ \A i \in DOMAIN manual' : i \in DOMAIN manual \/ i = last + 1
    <3>1. slot \in Nat
      BY <2>1, StackTypes
    <3> QED BY <1>0, <2>1, <3>1, StackTypes, AppendProperties
  <2>3. /\ Len(Standing') = slot /\ slot \in 1 .. Len(Standing')
        /\ Standing'[slot] = Manual(nkeys - 1, applied)
    BY <1>2, <2>1, StackTypes
  <2>4. /\ LiveAt(last + 1)' = Manual(nkeys - 1, applied)
        /\ LiveAt(last + 1)'.kind = "manual" /\ LiveAt(last + 1)'.ref = applied
    BY <1>4, <2>2, <2>3 DEF Manual, Make, Hole
  <2>5. \A i \in DOMAIN manual : LiveAt(i)' = LiveAt(i)
    BY <1>5, <2>1, <2>2
  <2>6. ASSUME NEW i \in DOMAIN manual'
        PROVE  /\ manual'[i] \in 1 .. Len(Standing')
               /\ LiveAt(i)'.kind = "manual" /\ LiveAt(i)'.ref < applied'
    <3>1. CASE i \in DOMAIN manual
      <4>1. /\ manual[i] \in 1 .. Len(Standing) /\ LiveAt(i).kind = "manual"
            /\ LiveAt(i).ref < applied
        BY <3>1 DEF StackInv
      <4>2. LiveAt(i).ref \in Nat /\ applied \in Nat
        BY <3>1, StackFacts, StackTypes
      <4> QED BY <1>3, <2>1, <2>2, <2>5, <3>1, <4>1, <4>2
    <3>2. CASE i = last + 1
      BY <2>1, <2>2, <2>3, <2>4, <3>2, StackTypes
    <3> QED BY <2>2, <3>1, <3>2
  <2>7. ASSUME NEW i \in DOMAIN manual', NEW j \in DOMAIN manual', i < j
        PROVE  manual'[i] < manual'[j] /\ LiveAt(i)'.ref < LiveAt(j)'.ref
    <3>1. i \in DOMAIN manual
      BY <2>2, <2>7, StackTypes
    <3>2. CASE j \in DOMAIN manual
      BY <2>2, <2>5, <2>7, <3>1, <3>2 DEF StackInv
    <3>3. CASE j = last + 1
      <4>1. manual[i] \in 1 .. Len(Standing) /\ LiveAt(i).ref < applied
        BY <3>1 DEF StackInv
      <4> QED BY <2>1, <2>2, <2>4, <2>5, <3>1, <3>3, <4>1, StackTypes
    <3> QED BY <2>2, <3>2, <3>3
  <2>8. ASSUME NEW p \in 1 .. Len(Standing'), Standing'[p].kind = "manual"
        PROVE  \E i \in DOMAIN manual' : manual'[i] = p
    <3>1. CASE p = slot
      BY <1>0, <2>2, <3>1
    <3>2. CASE p # slot
      <4>1. p \in 1 .. Len(Standing)
        BY <2>1, <2>3, <3>2, StackTypes
      <4>2. PICK i \in DOMAIN manual : manual[i] = p
        BY <1>3, <2>8, <4>1 DEF StackInv
      <4> QED BY <2>2, <4>2
    <3> QED BY <3>1, <3>2
  <2>9. applied' - undone' = Len(manual')
    BY <1>0, <2>1, <2>2, StackTypes DEF StackInv
  <2>10. \A i \in DOMAIN manual' : LiveAt(i)' = IF i \in DOMAIN manual THEN LiveAt(i)
                                                 ELSE Manual(nkeys - 1, applied)
    BY <2>2, <2>4, <2>5
  <2>11. StackInv'
    BY <1>1, <2>6, <2>7, <2>8, <2>9 DEF StackInv
  <2> QED BY <2>10, <2>11
<1>7. CASE caller = "undo"
  <2>1. /\ removed # Hole /\ Adding = <<>> /\ undone' = undone + 1 /\ applied' = applied
        /\ manual' = SubSeq(manual, 1, last - 1)
    BY <1>0, <1>1, <1>7 DEF Shape, StackInv, Committed
  <2>2. last \in DOMAIN manual /\ Standing[manual[last]] = Hole
    BY <1>0, <2>1, StackFacts DEF StackInv
  <2>3. /\ Len(manual') = last - 1 /\ DOMAIN manual' = 1 .. last - 1
        /\ \A i \in DOMAIN manual' : i \in DOMAIN manual /\ i # last /\ manual'[i] = manual[i]
    <3>1. last - 1 \in Nat /\ \A i \in 1 .. last - 1 : manual[i] \in Nat
      BY <1>0, <2>2, StackTypes
    <3>2. /\ SubSeq(manual, 1, last - 1) \in Seq(Nat)
          /\ Len(SubSeq(manual, 1, last - 1)) = last - 1
          /\ \A i \in 1 .. last - 1 : SubSeq(manual, 1, last - 1)[i] = manual[i]
      <4>1. /\ last - 1 \in Int /\ 1 \in Int
            /\ (IF 1 <= last - 1 THEN (last - 1) - 1 + 1 ELSE 0) = last - 1
        BY <3>1
      <4> QED BY <3>1, <4>1, SubSeqProperties
    <3>3. DOMAIN SubSeq(manual, 1, last - 1) = 1 .. last - 1
      BY <3>2, LenProperties
    <3>4. \A i \in 1 .. last - 1 : i \in DOMAIN manual /\ i # last
      BY <1>0, <3>1
    <3> QED BY <2>1, <3>2, <3>3, <3>4
  <2>4. Standing' = Standing
    BY <1>1, <2>1, MirrorParts, ConcatEmptySeq
  <2>5. ASSUME NEW i \in DOMAIN manual' PROVE LiveAt(i)' = LiveAt(i)
    <3>1. Standing[manual[i]] # Hole /\ LiveAt(i) = Standing[manual[i]]
      BY <1>0, <2>1, <2>3, StackFacts
    <3> QED BY <1>4, <2>3, <2>4, <3>1
  <2>6. ASSUME NEW i \in DOMAIN manual'
        PROVE  /\ manual'[i] \in 1 .. Len(Standing')
               /\ LiveAt(i)'.kind = "manual" /\ LiveAt(i)'.ref < applied'
    BY <2>1, <2>3, <2>4, <2>5 DEF StackInv
  <2>7. ASSUME NEW i \in DOMAIN manual', NEW j \in DOMAIN manual', i < j
        PROVE  manual'[i] < manual'[j] /\ LiveAt(i)'.ref < LiveAt(j)'.ref
    BY <2>3, <2>5, <2>7 DEF StackInv
  <2>8. ASSUME NEW p \in 1 .. Len(Standing'), Standing'[p].kind = "manual"
        PROVE  \E i \in DOMAIN manual' : manual'[i] = p
    <3>1. PICK i \in DOMAIN manual : manual[i] = p
      BY <2>4, <2>8 DEF StackInv
    <3>2. i # last
      BY <2>2, <2>4, <2>8, <3>1 DEF Hole
    <3>3. i \in DOMAIN manual'
      BY <1>0, <2>3, <3>2
    <3> QED BY <2>3, <3>1, <3>3
  <2>9. applied' - undone' = Len(manual')
    BY <1>0, <2>1, <2>3, StackTypes DEF StackInv
  <2>10. \A i \in DOMAIN manual' : i \in DOMAIN manual /\ LiveAt(i)' = LiveAt(i)
    BY <2>3, <2>5
  <2>11. StackInv'
    BY <1>1, <2>6, <2>7, <2>8, <2>9 DEF StackInv
  <2> QED BY <2>10, <2>11
<1>8. CASE caller \notin {"manual", "undo"}
  <2>1. removed = Hole /\ manual' = manual /\ applied' = applied /\ undone' = undone
    BY <1>8 DEF RoundInv, Committed
  <2>2. \A i \in DOMAIN manual : LiveAt(i)' = LiveAt(i)
    BY <1>5, <2>1
  <2>3. ASSUME NEW p \in 1 .. Len(Standing'), Standing'[p].kind = "manual"
        PROVE  \E i \in DOMAIN manual : manual[i] = p
    <3>1. CASE p \in 1 .. Len(Standing)
      BY <1>3, <2>3, <3>1 DEF StackInv
    <3>2. CASE p \notin 1 .. Len(Standing)
      <4>1. ~(p <= Len(Standing)) /\ p - Len(Standing) \in DOMAIN Adding
        BY <1>2, <3>2, StackTypes
      <4>2. Standing'[p] = Adding[p - Len(Standing)]
        BY <1>2, <4>1
      <4>3. Adding[p - Len(Standing)].kind # "manual"
        BY <1>1, <1>8, <4>1, AddsNoManual
      <4> QED BY <2>3, <4>2, <4>3
    <3> QED BY <3>1, <3>2
  <2>4. \A i \in DOMAIN manual : manual[i] \in 1 .. Len(Standing')
    BY <1>3 DEF StackInv
  <2>5. StackInv'
    BY <1>1, <2>1, <2>2, <2>3, <2>4 DEF StackInv
  <2> QED BY <2>1, <2>2, <2>5
<1> QED BY <1>6, <1>7, <1>8

\* Every step keeps the stack.
LEMMA StackStep == TypeInv /\ RoundInv /\ ShapeInv /\ StackInv /\ Next => StackInv'
<1> SUFFICES ASSUME TypeInv, RoundInv, ShapeInv, StackInv, Next PROVE StackInv'
  OBVIOUS
<1>1. ASSUME pc' = "solve", caller' # "undo", Standing' = Standing,
             removed' = removed, UNCHANGED fixVars
      PROVE  StackInv'
  BY <1>1, StackSame DEF fixVars
<1>2. CASE AddPrior \/ AddSequential
  <2>1. Begun("frame")
    BY <1>2, HandlerBegins
  <2> QED BY <1>1, <2>1 DEF Begun
<1>3. CASE Relocalize
  <2>1. Begun("reloc")
    BY <1>3, HandlerBegins
  <2> QED BY <1>1, <2>1 DEF Begun
<1>4. CASE ManualCorrection
  <2>1. Begun("manual")
    BY <1>4, HandlerBegins
  <2> QED BY <1>1, <2>1 DEF Begun
<1>5. ASSUME NEW k \in Key, PositionPrior(k) PROVE StackInv'
  <2>1. Begun("fix")
    BY <1>5, HandlerBegins
  <2> QED BY <1>1, <2>1 DEF Begun
<1>6. ASSUME NEW t \in Candidates, NEW fresh \in SUBSET Key, NssmInsert(t, fresh)
      PROVE  StackInv'
  <2>1. Begun("loops")
    BY <1>6, HandlerBegins
  <2> QED BY <1>1, <2>1 DEF Begun
<1>7. ASSUME NssmSkip \/ \E t \in Candidates : NssmQueue(t) PROVE StackInv'
  <2>1. /\ Standing' = Standing /\ removed' = removed /\ pc' = "idle"
        /\ UNCHANGED <<manual, applied, undone>>
    BY <1>7 DEF NssmSkip, NssmQueue, Offer, Return, Standing, RoundInv, graphVars,
                fixVars
  <2> QED BY <2>1, StackSame DEF Running
<1>8. CASE Unwound
  <2>1. /\ Standing' = Standing /\ removed' = removed /\ ~Running' /\ Running
        /\ pc' = "restore" => caller = "undo"
        /\ UNCHANGED <<manual, applied, undone>>
    BY <1>8 DEF Unwound, Running, fixVars
  <2> QED BY <2>1, StackSame
<1>9. CASE Solved
  <2>1. /\ Standing' = Standing /\ removed' = removed /\ Running /\ pc' = "judge"
        /\ caller' = caller /\ UNCHANGED <<manual, applied, undone>>
    BY <1>9 DEF Solved, Running, fixVars
  <2> QED BY <2>1, StackSame
<1> QED BY <1>2, <1>3, <1>4, <1>5, <1>6, <1>7, <1>8, <1>9, StackUndo, StackRestore,
           StackCommit, UpdateKinds DEF Next, Handler, Nssm

\* The undo stack is sound in every reachable state.
LEMMA StackInvariant == Spec => []StackInv
<1>1. Init => StackInv
  <2> SUFFICES ASSUME Init PROVE StackInv
    OBVIOUS
  <2>1. Standing = LoadedChain(loaded) /\ manual = <<>> /\ removed = Hole /\ pc = "idle"
        /\ applied = 0 /\ undone = 0
    BY DEF Init, Standing
  <2>2. \A p \in DOMAIN LoadedChain(loaded) : LoadedChain(loaded)[p].kind # "manual"
    BY DEF LoadedChain, Prior, Unary, Link, Make
  <2>3. DOMAIN Standing = 1 .. Len(Standing)
    BY TypeInit, StackTypes
  <2> QED BY <2>1, <2>2, <2>3 DEF StackInv, Running
<1>2. ASSUME StackInv, UNCHANGED vars PROVE StackInv'
  <2>1. /\ UNCHANGED <<manual, applied, undone>> /\ Standing' = Standing
        /\ removed' = removed /\ pc' = pc /\ caller' = caller
    BY <1>2 DEF Standing, vars, graphVars, fixVars, roundVars
  <2> QED BY <1>2, <2>1, StackSame DEF Running
<1>3. TypeInv /\ RoundInv /\ ShapeInv /\ StackInv /\ [Next]_vars => StackInv'
  BY <1>2, StackStep
<1> QED BY <1>1, <1>3, TypeInvariant, RoundInvariant, ShapeInvariant, PTL DEF Spec

\* The undo stack names the live hand corrections in order, and none else.
THEOREM UndoPeelsTheNewest == Spec => []UndoStackIsLive
<1>1. ASSUME TypeInv, RoundInv, StackInv, pc = "idle"
      PROVE  UndoStackIsLive
  <2>1. /\ Standing = committed /\ removed = Hole
        /\ DOMAIN committed = 1 .. Len(committed)
    BY <1>1, StackTypes DEF Standing, RoundInv
  <2>2. \A i \in DOMAIN manual :
          /\ manual[i] \in DOMAIN committed
          /\ LiveAt(i) = committed[manual[i]] /\ committed[manual[i]] # Hole
    BY <1>1, <2>1, StackFacts DEF StackInv
  <2> DEFINE live  == {f \in FactorsOf(committed) : f.kind = "manual"}
             entry == [i \in 1 .. Len(manual) |-> committed[manual[i]]]
  <2>3. Len(manual) \in Nat /\ DOMAIN manual = 1 .. Len(manual)
    BY <1>1, StackTypes
  <2>4. entry \in Bijection(1 .. Len(manual), live)
    <3>1. \A i \in 1 .. Len(manual) : entry[i] \in live
      BY <1>1, <2>2, <2>3 DEF FactorsOf, StackInv
    <3>2. ASSUME NEW i \in 1 .. Len(manual), NEW j \in 1 .. Len(manual), i < j
          PROVE  entry[i] # entry[j]
      <4>1. LiveAt(i).ref < LiveAt(j).ref /\ LiveAt(i).ref \in Nat
        BY <1>1, <2>3, <3>2, StackFacts DEF StackInv
      <4> QED BY <2>2, <2>3, <4>1
    <3>3. \A i, j \in 1 .. Len(manual) : entry[i] = entry[j] => i = j
      BY <3>2
    <3>4. ASSUME NEW f \in live PROVE \E i \in 1 .. Len(manual) : entry[i] = f
      <4>1. PICK p \in 1 .. Len(committed) : committed[p] = f /\ f.kind = "manual"
        BY <2>1 DEF FactorsOf
      <4>2. PICK i \in DOMAIN manual : manual[i] = p
        BY <1>1, <2>1, <4>1 DEF StackInv
      <4> QED BY <2>3, <4>1, <4>2
    <3>5. entry \in [1 .. Len(manual) -> live] /\ DOMAIN entry = 1 .. Len(manual)
      BY <3>1
    <3> HIDE DEF entry, live
    <3> QED BY <3>3, <3>4, <3>5 DEF Bijection, Injection, Surjection, IsInjective
  <2>5. Cardinality(live) = Len(manual)
    <3> HIDE DEF entry, live
    <3>1. ExistsBijection(1 .. Len(manual), live)
      BY <2>4 DEF ExistsBijection
    <3> QED BY <2>3, <3>1, FS_CountingElements
  <2>6. \A i, j \in DOMAIN manual :
          i < j => committed[manual[i]].ref < committed[manual[j]].ref
    BY <1>1, <2>2 DEF StackInv
  <2>7. /\ \A i \in DOMAIN manual : committed[manual[i]].kind = "manual"
        /\ applied - undone = Len(manual)
    BY <1>1, <2>2 DEF StackInv
  <2> QED BY <2>2, <2>5, <2>6, <2>7 DEF UndoStackIsLive
<1>2. TypeInv /\ RoundInv /\ StackInv => UndoStackIsLive
  BY <1>1 DEF UndoStackIsLive
<1> QED BY <1>2, TypeInvariant, RoundInvariant, StackInvariant, PTL

----------------------------------------------------------------------------
(* What the steps do to the mirror.                                        *)

\* A step that changes nothing the poses show.
Steady ==
  /\ Mirror' = Mirror /\ Kept' = Kept
  /\ UNCHANGED <<fixVars, mapVars>>
  /\ awaiting => Standing' = Standing /\ removed' = removed
  /\ \A i \in DOMAIN manual : LiveAt(i)' = LiveAt(i)

\* What the poses show are factors of keyframes.
LEMMA MirrorFactors ==
  ASSUME TypeInv, NEW f \in Mirror
  PROVE  f \in Factor /\ f.key \in Key /\ f.key \in Int /\ f.ref \in Nat
<1>1. f \in Factor
  BY MirrorParts, FactorsOfType DEF Mirror, Undoing, TypeInv, RoundType
<1>2. f.key \in Key /\ f.ref \in Nat
  BY <1>1 DEF Factor
<1> QED BY <1>1, <1>2 DEF Key

\* A commit adds the round's factors; an undo's takes its correction out.
LEMMA CommitMirror ==
  ASSUME TypeInv, RoundInv, ShapeInv, StackInv, Committed
  PROVE  IF caller = "undo"
         THEN /\ Mirror' = Mirror \ {removed} /\ Kept' = Kept
              /\ removed.kind = "manual" /\ removed \in Mirror
              /\ FactorsOf(Adding) = {} /\ removed = LiveAt(Len(manual))
              /\ manual # <<>>
         ELSE Mirror' = Mirror \cup FactorsOf(Adding)
<1>1. /\ pc = "judge" /\ Running /\ Shape /\ Undoing' = {} /\ Standing' = committed
      /\ FactorsOf(committed) = FactorsOf(Standing) \cup FactorsOf(Adding)
  BY MirrorParts DEF Committed, Running, ShapeInv, Undoing
<1>2. CASE caller # "undo"
  BY <1>1, <1>2 DEF RoundInv, Mirror, Undoing
<1>3. CASE caller = "undo"
  <2>1. /\ Adding = <<>> /\ removed # Hole /\ removed.kind = "manual" /\ manual # <<>>
        /\ Kept' = Kept /\ LiveAt(Len(manual)) = removed /\ Len(manual) \in DOMAIN manual
    BY <1>1, <1>3, StackFacts DEF Shape, StackInv, Committed, Kept
  <2>2. FactorsOf(Adding) = {} /\ Mirror' = FactorsOf(Standing)
    BY <1>1, <2>1, FactorsOfFew DEF Mirror
  <2>3. removed \notin FactorsOf(Standing)
    <3> SUFFICES ASSUME removed \in FactorsOf(Standing) PROVE FALSE
      OBVIOUS
    <3>1. PICK p \in 1 .. Len(Standing) : Standing[p] = removed
      BY StackTypes DEF FactorsOf
    <3>2. PICK i \in DOMAIN manual : manual[i] = p
      BY <2>1, <3>1 DEF StackInv
    <3>3. LiveAt(i) = removed /\ i # Len(manual)
      BY <2>1, <3>1, <3>2 DEF LiveAt, StackInv
    <3>4. i < Len(manual)
      BY <3>3, StackTypes
    <3>5. LiveAt(i).ref < LiveAt(Len(manual)).ref /\ LiveAt(i).ref \in Nat
      BY <2>1, <3>4, StackFacts DEF StackInv
    <3> QED BY <2>1, <3>3, <3>5
  <2>4. Mirror = FactorsOf(Standing) \cup {removed}
    BY <2>1 DEF Mirror, Undoing
  <2> QED BY <1>3, <2>1, <2>2, <2>3, <2>4
<1> QED BY <1>2, <1>3

\* A round that failed is steady.
LEMMA UnwoundSteady ==
  ASSUME Unwound
  PROVE  Steady
BY DEF Unwound, Steady, Mirror, Undoing, LiveAt, fixVars

\* All but a commit are steady.
LEMMA SteadySteps ==
  ASSUME TypeInv, RoundInv, ShapeInv, StackInv, Next, ~Committed
  PROVE  Steady
<1>1. ASSUME Standing' = Standing, removed' = removed, Kept' = Kept,
             UNCHANGED <<fixVars, mapVars>>
      PROVE  Steady
  BY <1>1 DEF Steady, Mirror, Undoing, LiveAt, fixVars
<1>2. CASE AddPrior \/ AddSequential
  <2>1. Begun("frame")
    BY <1>2, HandlerBegins
  <2> QED BY <1>1, <2>1 DEF Begun
<1>3. CASE Relocalize
  <2>1. Begun("reloc")
    BY <1>3, HandlerBegins
  <2> QED BY <1>1, <2>1 DEF Begun
<1>4. CASE ManualCorrection
  <2>1. Begun("manual")
    BY <1>4, HandlerBegins
  <2> QED BY <1>1, <2>1 DEF Begun
<1>5. ASSUME NEW k \in Key, PositionPrior(k) PROVE Steady
  <2>1. Begun("fix")
    BY <1>5, HandlerBegins
  <2> QED BY <1>1, <2>1 DEF Begun
<1>6. ASSUME NEW t \in Candidates, NEW fresh \in SUBSET Key, NssmInsert(t, fresh)
      PROVE  Steady
  <2>1. Begun("loops")
    BY <1>6, HandlerBegins
  <2> QED BY <1>1, <2>1 DEF Begun
<1>7. ASSUME NssmSkip \/ \E t \in Candidates : NssmQueue(t) PROVE Steady
  BY <1>1, <1>7 DEF NssmSkip, NssmQueue, Offer, Return, Standing, RoundInv, Kept,
                    Running, graphVars
<1>8. CASE UndoManual
  <2>1. Kept' = Kept /\ UNCHANGED <<fixVars, mapVars>> /\ ~awaiting
    BY <1>8 DEF UndoManual, Enter, Kept, Running
  <2> QED BY <1>8, <2>1, StackUndo DEF Steady
<1>9. CASE RestoreUndone
  <2>1. Kept' = Kept /\ UNCHANGED <<fixVars, mapVars>> /\ ~awaiting
    BY <1>9 DEF RestoreUndone, Return, Kept, Running, ShapeInv
  <2> QED BY <1>9, <2>1, StackRestore DEF Steady
<1>10. CASE Unwound \/ Solved
  BY <1>1, <1>10 DEF Unwound, Solved
<1> QED BY <1>2, <1>3, <1>4, <1>5, <1>6, <1>7, <1>8, <1>9, <1>10, UpdateKinds
        DEF Next, Handler, Nssm

\* The factors a round adds, by its caller.
LEMMA AddedFactors ==
  ASSUME TypeInv, RoundInv, ShapeInv, Running
  PROVE  /\ caller = "frame" =>
              \/ nkeys = 1 /\ FactorsOf(Adding) = {Prior(0)}
              \/ nkeys > 1 /\ FactorsOf(Adding) = {Link(nkeys - 1), Unary(nkeys - 1)}
         /\ caller = "reloc" =>
              nkeys > 0 /\ FactorsOf(Adding) = {Anchor(nkeys - 1), Unary(nkeys - 1)}
         /\ caller = "manual" =>
              nkeys > 0 /\ FactorsOf(Adding) = {Manual(nkeys - 1, applied)}
         /\ caller = "undo" => FactorsOf(Adding) = {}
         /\ caller = "fix" =>
              \E k \in 0 .. nkeys - 1 : FactorsOf(Adding) = {Fix(k, fixes)}
         /\ caller = "loops" => FactorsOf(Adding) = {Loop(s, target[s]) : s \in pending}
         /\ caller # "loops" => pending = {}
         /\ caller \in {"frame", "reloc", "manual", "undo", "fix", "loops"}
         /\ nkeys \in Nat /\ nkeys <= MaxKeys
<1>1. /\ Shape /\ nkeys \in Nat /\ nkeys <= MaxKeys /\ applied \in Nat /\ fixes \in Nat
  BY BackendAssumption DEF BackendAssumption, ShapeInv, TypeInv, GraphType, FixType
<1>2. caller \in {"frame", "reloc", "manual", "undo", "fix", "loops"}
      /\ (caller # "loops" => pending = {})
  BY DEF TypeInv, RoundType, RoundInv, Running
<1>3. /\ MaxKeys \in Nat \ {0}
      /\ \A k \in Nat : k < nkeys => k \in Key
  BY <1>1, BackendAssumption DEF BackendAssumption, Key
<1>4. \A kind \in Kinds, k \in Key, r \in Nat : Make(kind, k, r) \in Factor
  BY DEF Make, Factor
<1>5. ASSUME NEW k \in Nat, k < nkeys
      PROVE  /\ Prior(k) \in Factor /\ Link(k) \in Factor /\ Unary(k) \in Factor
             /\ Anchor(k) \in Factor
             /\ Manual(k, applied) \in Factor /\ Fix(k, fixes) \in Factor
  BY <1>1, <1>3, <1>4, <1>5 DEF Prior, Link, Unary, Anchor, Manual, Fix, Kinds
<1>6. nkeys > 0 => nkeys - 1 \in Nat /\ nkeys - 1 < nkeys
  BY <1>1
<1>7. CASE caller = "frame"
  <2>1. CASE nkeys = 1 /\ Adding = <<Prior(0)>>
    BY <1>1, <1>2, <1>5, <1>7, <2>1, FactorsOfFew
  <2>2. CASE nkeys > 1 /\ Adding = <<Link(nkeys - 1), Unary(nkeys - 1)>>
    <3>1. Link(nkeys - 1) \in Factor /\ Unary(nkeys - 1) \in Factor
      BY <1>1, <1>5, <1>6, <2>2
    <3> QED BY <1>1, <1>2, <1>7, <2>2, <3>1, FactorsOfFew
  <2> QED BY <1>1, <1>7, <2>1, <2>2 DEF Shape
<1>8. CASE caller = "reloc"
  <2>1. nkeys > 0 /\ Adding = <<Anchor(nkeys - 1), Unary(nkeys - 1)>>
    BY <1>1, <1>8 DEF Shape
  <2>2. Anchor(nkeys - 1) \in Factor /\ Unary(nkeys - 1) \in Factor
    BY <1>5, <1>6, <2>1
  <2> QED BY <1>1, <1>2, <1>8, <2>1, <2>2, FactorsOfFew
<1>9. CASE caller = "manual"
  <2>1. nkeys > 0 /\ Adding = <<Manual(nkeys - 1, applied)>>
    BY <1>1, <1>9 DEF Shape
  <2>2. Manual(nkeys - 1, applied) \in Factor
    BY <1>5, <1>6, <2>1
  <2> QED BY <1>1, <1>2, <1>9, <2>1, <2>2, FactorsOfFew
<1>10. CASE caller = "fix"
  <2>1. PICK k \in 0 .. nkeys - 1 : Adding = <<Fix(k, fixes)>>
    BY <1>1, <1>10 DEF Shape
  <2>2. Fix(k, fixes) \in Factor
    BY <1>1, <1>5
  <2>3. FactorsOf(Adding) = {Fix(k, fixes)}
    BY <2>1, <2>2, FactorsOfFew
  <2> QED BY <1>1, <1>2, <1>10, <2>3
<1>11. CASE caller = "undo"
  BY <1>1, <1>2, <1>11, FactorsOfFew DEF Shape
<1>12. CASE caller = "loops"
  BY <1>1, <1>2, <1>12 DEF Shape
<1> QED BY <1>2, <1>7, <1>8, <1>9, <1>10, <1>11, <1>12

----------------------------------------------------------------------------
(* A session started from a map, and what ties the keyframes in.           *)

\* The chain of a loaded map ties in its own keyframes, and only them.
LEMMA ChainFacts ==
  ASSUME NEW n \in Nat
  PROVE  /\ \A f \in FactorsOf(LoadedChain(n)) :
              /\ f.kind \in {"prior", "link", "unary"}
              /\ f.key \in Nat /\ f.key < n
         /\ \A k \in 0 .. n - 1 :
              {Prior(k), Link(k)} \cap FactorsOf(LoadedChain(n)) # {}
<1>1. DOMAIN LoadedChain(n) = 1 .. 2 * n
  BY DEF LoadedChain
<1>2. \A i \in 1 .. 2 * n : LoadedChain(n)[i] = IF i = 1 THEN Prior(0)
                                                 ELSE IF i % 2 = 0 THEN Unary(i \div 2 - 1)
                                                 ELSE Link(i \div 2)
  BY DEF LoadedChain
<1>3. ASSUME NEW f \in FactorsOf(LoadedChain(n))
      PROVE  f.kind \in {"prior", "link", "unary"} /\ f.key \in Nat /\ f.key < n
  <2>1. PICK i \in 1 .. 2 * n : f = LoadedChain(n)[i]
    BY <1>1 DEF FactorsOf
  <2>2. CASE i = 1
    <3>1. n > 0
      BY <2>2
    <3> QED BY <1>2, <2>1, <2>2, <3>1 DEF Prior, Make
  <2>3. CASE i # 1 /\ i % 2 = 0
    <3>1. i \div 2 - 1 \in Nat /\ i \div 2 - 1 < n
      BY <2>3
    <3>2. f = Unary(i \div 2 - 1)
      BY <1>2, <2>1, <2>3
    <3> QED BY <3>1, <3>2 DEF Unary, Make
  <2>4. CASE i # 1 /\ i % 2 # 0
    <3>1. i \div 2 \in Nat /\ i \div 2 < n
      BY <2>4
    <3>2. f = Link(i \div 2)
      BY <1>2, <2>1, <2>4
    <3> QED BY <3>1, <3>2 DEF Link, Make
  <2> QED BY <2>2, <2>3, <2>4
<1>4. ASSUME NEW k \in 0 .. n - 1
      PROVE  {Prior(k), Link(k)} \cap FactorsOf(LoadedChain(n)) # {}
  <2>1. CASE k = 0
    <3>1. 1 \in 1 .. 2 * n /\ LoadedChain(n)[1] = Prior(0)
      BY <1>2, <2>1
    <3>2. Prior(0) \in FactorsOf(LoadedChain(n))
      BY <1>1, <3>1 DEF FactorsOf, Prior, Make, Hole
    <3> QED BY <2>1, <3>2
  <2>2. CASE k # 0
    <3>1. /\ 2 * k + 1 \in 1 .. 2 * n /\ 2 * k + 1 # 1 /\ (2 * k + 1) % 2 # 0
          /\ (2 * k + 1) \div 2 = k
      BY <2>2
    <3>2. LoadedChain(n)[2 * k + 1] = Link(k)
      BY <1>2, <3>1
    <3>3. Link(k) \in FactorsOf(LoadedChain(n))
      BY <1>1, <3>1, <3>2 DEF FactorsOf, Link, Make, Hole
    <3> QED BY <3>3
  <2> QED BY <2>1, <2>2
<1> QED BY <1>3, <1>4

\* While a loaded map waits nothing enters; once it is anchored it stays so.
MapInv ==
  /\ loaded <= Kept
  /\ awaiting => /\ loaded > 0 /\ Kept = loaded
                 /\ Standing = LoadedChain(loaded) /\ removed = Hole
  /\ loaded > 0 => Link(loaded) \notin Mirror
  /\ loaded > 0 /\ ~awaiting => Anchor(loaded) \in Mirror /\ loaded < Kept

\* No round chains a frame to the last keyframe of the map.
LEMMA NoSeam ==
  ASSUME TypeInv, RoundInv, ShapeInv, MapInv, Running, loaded > 0
  PROVE  Link(loaded) \notin FactorsOf(Adding)
<1>1. CASE caller = "frame"
  <2>1. /\ nkeys \in Nat /\ loaded \in Nat /\ nkeys > 0 /\ Kept = nkeys - 1
        /\ ~awaiting
    BY <1>1 DEF TypeInv, GraphType, FixType, Kept, Running, Round, ShapeInv, Shape
  <2>2. nkeys - 1 # loaded
    BY <2>1 DEF MapInv
  <2>3. FactorsOf(Adding) \in {{Prior(0)}, {Link(nkeys - 1), Unary(nkeys - 1)}}
    BY <1>1, AddedFactors
  <2> QED BY <2>2, <2>3 DEF Link, Prior, Unary, Make
<1>2. CASE caller = "reloc"
  BY <1>2, AddedFactors DEF Link, Anchor, Unary, Make
<1>3. CASE caller = "manual"
  BY <1>3, AddedFactors DEF Link, Manual, Make
<1>4. CASE caller = "fix"
  BY <1>4, AddedFactors DEF Link, Fix, Make
<1>5. CASE caller = "loops"
  BY <1>5, AddedFactors DEF Link, Loop, Make
<1>6. CASE caller = "undo"
  BY <1>6, AddedFactors
<1> QED BY <1>1, <1>2, <1>3, <1>4, <1>5, <1>6, AddedFactors

\* The only round that leaves the waiting state is the one that anchors.
LEMMA MapStep ==
  TypeInv /\ RoundInv /\ ShapeInv /\ StackInv /\ MapInv /\ Next => MapInv'
<1> SUFFICES ASSUME TypeInv, RoundInv, ShapeInv, StackInv, MapInv, Next PROVE MapInv'
  OBVIOUS
<1>1. CASE ~Committed
  BY <1>1, SteadySteps DEF Steady, MapInv, mapVars
<1>2. CASE Committed
  <2>1. /\ pc = "judge" /\ Running /\ loaded' = loaded /\ Kept' = nkeys /\ loaded \in Nat
        /\ awaiting \in BOOLEAN /\ ((caller = "reloc") <=> awaiting)
        /\ awaiting' = (awaiting /\ caller # "reloc")
    BY <1>2 DEF Committed, Running, ShapeInv, Shape, TypeInv, FixType
  <2>2. ~awaiting'
    BY <2>1
  <2>3. /\ nkeys \in Nat
        /\ caller \in {"frame", "reloc"} => nkeys > 0 /\ Kept = nkeys - 1
        /\ caller \notin {"frame", "reloc"} => Kept = nkeys
    BY <2>1 DEF Kept, TypeInv, Round, GraphType
  <2>4. CASE caller = "undo"
    <3>1. /\ Mirror' = Mirror \ {removed} /\ removed.kind = "manual" /\ Kept' = Kept
      BY <1>2, <2>4, CommitMirror
    <3> QED BY <2>1, <2>2, <2>4, <3>1 DEF MapInv, Anchor, Make
  <2>5. CASE caller = "reloc"
    <3>1. Mirror' = Mirror \cup {Anchor(nkeys - 1), Unary(nkeys - 1)}
      BY <1>2, <2>1, <2>5, CommitMirror, AddedFactors
    <3>2. loaded > 0 /\ loaded = nkeys - 1 /\ Link(loaded) \notin Mirror
      BY <2>1, <2>3, <2>5 DEF MapInv
    <3>3. Link(loaded) \notin Mirror' /\ Anchor(loaded) \in Mirror'
      BY <3>1, <3>2 DEF Link, Anchor, Unary, Make
    <3> QED BY <2>1, <2>2, <2>3, <3>2, <3>3 DEF MapInv
  <2>6. CASE caller \notin {"undo", "reloc"}
    <3>1. Mirror' = Mirror \cup FactorsOf(Adding) /\ ~awaiting
      BY <1>2, <2>1, <2>6, CommitMirror
    <3>2. loaded <= Kept /\ Kept <= nkeys /\ (loaded > 0 => loaded < Kept)
      BY <2>1, <2>3, <3>1 DEF MapInv
    <3>3. loaded > 0 => Link(loaded) \notin FactorsOf(Adding)
      BY <2>1, NoSeam
    <3>4. Kept \in Int
      BY <2>3
    <3> QED BY <2>1, <2>2, <2>3, <3>1, <3>2, <3>3, <3>4 DEF MapInv
  <2> QED BY <2>4, <2>5, <2>6
<1> QED BY <1>1, <1>2

\* The map frame is kept in every reachable state.
LEMMA MapFrameInvariant == Spec => []MapInv
<1>1. Init => MapInv
  <2> SUFFICES ASSUME Init PROVE MapInv
    OBVIOUS
  <2>1. /\ Standing = LoadedChain(loaded) /\ removed = Hole /\ Kept = loaded
        /\ Mirror = FactorsOf(LoadedChain(loaded)) /\ loaded \in Nat
        /\ awaiting = (loaded > 0)
    BY BackendAssumption DEF BackendAssumption, Init, Standing, Kept, Running, Mirror,
                             Undoing
  <2>2. \A f \in Mirror : f.key \in Nat /\ f.key < loaded
    BY <2>1, ChainFacts
  <2>3. Link(loaded) \notin Mirror
    BY <2>1, <2>2 DEF Link, Make
  <2>4. (loaded > 0 => awaiting) /\ (awaiting => loaded > 0)
    BY <2>1
  <2>5. loaded <= Kept
    BY <2>1
  <2> QED BY <2>1, <2>3, <2>4, <2>5 DEF MapInv
<1>2. ASSUME MapInv, UNCHANGED vars PROVE MapInv'
  <2>1. Standing' = Standing /\ Kept' = Kept /\ Mirror' = Mirror /\ removed' = removed
        /\ loaded' = loaded /\ awaiting' = awaiting
    BY <1>2 DEF Standing, Kept, Running, Mirror, Undoing, vars, graphVars, mapVars,
                roundVars
  <2> QED BY <1>2, <2>1 DEF MapInv
<1>3. TypeInv /\ RoundInv /\ ShapeInv /\ StackInv /\ MapInv /\ [Next]_vars => MapInv'
  BY <1>2, MapStep
<1> QED BY <1>1, <1>3, TypeInvariant, RoundInvariant, ShapeInvariant, StackInvariant,
           PTL DEF Spec

\* Until a frame is anchored in a loaded map nothing else enters the graph,
\* and no dead-reckoning link ever chains the two sessions.
THEOREM MapWaitsForItsAnchor == Spec => []MapFrameGate
<1>1. ASSUME TypeInv, RoundInv, ShapeInv, StackInv, MapInv PROVE MapFrameGate
  <2>1. awaiting /\ pc = "idle" => committed = LoadedChain(loaded)
    BY <1>1 DEF MapInv, Standing
  <2>2. FactorsOf(Standing) \subseteq FactorsOf(committed)
        /\ \A f \in FactorsOf(committed) :
              f \in FactorsOf(Standing) \/ (pc = "judge" /\ f \in FactorsOf(Adding))
    <3>1. CASE pc = "judge"
      BY <1>1, <3>1, MirrorParts
    <3>2. CASE pc # "judge"
      BY <3>2 DEF Standing
    <3> QED BY <3>1, <3>2
  <2>3. ASSUME loaded > 0 PROVE Link(loaded) \notin FactorsOf(committed)
    <3>1. Link(loaded) \notin FactorsOf(Standing)
      BY <1>1, <2>3 DEF MapInv, Mirror
    <3>2. pc = "judge" => Link(loaded) \notin FactorsOf(Adding)
      BY <1>1, <2>3, NoSeam DEF Running
    <3> QED BY <2>2, <3>1, <3>2
  <2>4. ASSUME loaded > 0, ~awaiting PROVE Anchor(loaded) \in FactorsOf(committed)
    <3>1. Anchor(loaded) \in Mirror /\ Anchor(loaded).kind = "anchor"
      BY <1>1, <2>4 DEF MapInv, Anchor, Make
    <3>2. removed = Hole \/ removed.kind = "manual"
      BY <1>1 DEF StackInv
    <3>3. Anchor(loaded) \notin Undoing
      BY <3>1, <3>2 DEF Undoing
    <3> QED BY <2>2, <3>1, <3>3 DEF Mirror
  <2> QED BY <2>1, <2>3, <2>4 DEF MapFrameGate
<1> QED BY <1>1, TypeInvariant, RoundInvariant, ShapeInvariant, StackInvariant,
           MapFrameInvariant, PTL

----------------------------------------------------------------------------
(* What the estimator holds, over rebuilds that throw.                     *)

\* With no keyframe standing, nothing stands.
EmptyInv == Kept = 0 => Mirror = {}

LEMMA EmptyInvariant == Spec => []EmptyInv
<1>1. Init => EmptyInv
  <2> SUFFICES ASSUME Init PROVE EmptyInv
    OBVIOUS
  <2>1. Mirror = FactorsOf(LoadedChain(loaded)) /\ Kept = loaded /\ loaded \in Nat
    BY BackendAssumption
       DEF BackendAssumption, Init, Standing, Kept, Running, Mirror, Undoing
  <2>2. \A f \in Mirror : f.key \in Nat /\ f.key < loaded
    BY <2>1, ChainFacts
  <2> QED BY <2>1, <2>2 DEF EmptyInv
<1>2. ASSUME TypeInv, RoundInv, ShapeInv, StackInv, EmptyInv, Next PROVE EmptyInv'
  <2>1. CASE ~Committed
    BY <1>2, <2>1, SteadySteps DEF EmptyInv, Steady
  <2>2. CASE Committed
    <3>1. /\ Running /\ Kept' = nkeys /\ nkeys \in Nat
      BY <1>2, <2>2 DEF Committed, Running, TypeInv, GraphType
    <3>2. CASE caller = "undo"
      BY <1>2, <2>2, <3>2, CommitMirror DEF EmptyInv
    <3>3. CASE caller # "undo"
      <4>1. caller \in {"frame", "reloc", "loops"} => nkeys > 0
        BY <1>2, <3>1 DEF TypeInv, Round, Running
      <4>2. caller = "fix" => nkeys > 0
        BY <1>2, <3>1, AddedFactors
      <4>3. nkeys > 0
        BY <1>2, <3>1, <3>3, <4>1, <4>2, AddedFactors
      <4> QED BY <3>1, <4>3 DEF EmptyInv
    <3> QED BY <3>2, <3>3
  <2> QED BY <2>1, <2>2
<1>3. ASSUME EmptyInv, UNCHANGED vars PROVE EmptyInv'
  <2>1. Mirror' = Mirror /\ Kept' = Kept
    BY <1>3 DEF Standing, Mirror, Undoing, Kept, Running, vars, graphVars, roundVars
  <2> QED BY <1>3, <2>1 DEF EmptyInv
<1>4. TypeInv /\ RoundInv /\ ShapeInv /\ StackInv /\ EmptyInv /\ [Next]_vars => EmptyInv'
  BY <1>2, <1>3
<1> QED BY <1>1, <1>4, TypeInvariant, RoundInvariant, ShapeInvariant, StackInvariant,
           PTL DEF Spec

\* The estimator holds the whole mirror, sound or poisoned; or its rebuild
\* took nothing, and no pose of the first keyframe can be read from it.
HoldInv ==
  \/ isam \ {Poison} = FactorsOf(committed)
  \/ IF pc = "judge" THEN 0 \notin Estimated ELSE isam = {Poison}

\* An estimate that is readable has a pose of the first keyframe, so it is
\* the estimate of the whole mirror.
LEMMA ReadableHolds ==
  ASSUME TypeInv, HoldInv, pc = "judge", Readable
  PROVE  isam \ {Poison} = FactorsOf(committed)
<1>1. PICK m \in 1 .. nkeys : Estimated = 0 .. m - 1
  BY DEF Readable
<1>2. 0 \in 0 .. m - 1
  BY <1>1 DEF TypeInv, GraphType
<1> QED BY <1>1, <1>2 DEF HoldInv

\* A rebuilt estimator holds the mirror it was rebuilt from, or nothing.
LEMMA RebuildHolds ==
  ASSUME Rebuild, pc' # "judge"
  PROVE  HoldInv'
<1>1. Poison \notin FactorsOf(committed')
  BY DEF FactorsOf, Poison
<1> QED BY <1>1 DEF Rebuild, HoldInv

\* A step that leaves the estimator and the mirror alone.
LEMMA HoldSame ==
  ASSUME HoldInv, pc # "judge", pc' # "judge", UNCHANGED <<committed, isam>>
  PROVE  HoldInv'
BY DEF HoldInv

\* A failed rebuild is followed by a round that commits only if the rebuild
\* had taken the whole mirror.
LEMMA HoldStep ==
  TypeInv /\ RoundInv /\ ShapeInv /\ EmptyInv /\ HoldInv /\ Next => HoldInv'
<1> SUFFICES ASSUME TypeInv, RoundInv, ShapeInv, EmptyInv, HoldInv, Next PROVE HoldInv'
  OBVIOUS
<1>1. CASE AddPrior \/ AddSequential \/ Relocalize \/ ManualCorrection
  BY <1>1, HoldSame DEF AddPrior, AddSequential, Relocalize, ManualCorrection, Enter
<1>2. ASSUME NEW k \in Key, PositionPrior(k) PROVE HoldInv'
  BY <1>2, HoldSame DEF PositionPrior, Enter
<1>3. CASE UndoManual
  BY <1>3, RebuildHolds DEF UndoManual, Enter
<1>4. CASE SolveThrow \/ PostSolveThrow \/ LateThrow \/ StrandLoops
  BY <1>4, RebuildHolds DEF SolveThrow, PostSolveThrow, LateThrow, StrandLoops, Fail,
                            Return
<1>5. ASSUME NEW convicted \in Verdicts, Revert(convicted) PROVE HoldInv'
  BY <1>5, RebuildHolds DEF Revert, Fail, Return
<1>6. CASE RestoreUndone
  <2>1. pc = "restore" /\ pc' = "idle"
    BY <1>6 DEF RestoreUndone, Return
  <2> QED BY <1>6, <2>1, RebuildHolds, HoldSame DEF RestoreUndone
<1>7. ASSUME Commit, pc' # "judge" PROVE HoldInv'
  BY <1>7, ReadableHolds DEF Commit, HoldInv
<1>8. CASE CommitFrame \/ CommitLoops \/ CommitReloc \/ CommitManual \/ CommitUndo
           \/ CommitFix
  BY <1>7, <1>8 DEF CommitFrame, CommitLoops, CommitReloc, CommitManual, CommitUndo,
                    CommitFix, Return
<1>9. CASE NssmSkip
  BY <1>9, HoldSame DEF NssmSkip, Return, graphVars
<1>10. ASSUME NEW t \in Candidates, NssmQueue(t) PROVE HoldInv'
  BY <1>10, HoldSame DEF NssmQueue, Offer, Return, graphVars
<1>11. ASSUME NEW t \in Candidates, NEW fresh \in SUBSET Key, NssmInsert(t, fresh)
       PROVE  HoldInv'
  BY <1>11, HoldSame DEF NssmInsert, Offer, Enter
<1>12. CASE SolveOk
  <2>1. /\ committed \in Seq(Factor \cup {Hole}) /\ graph \in Seq(Factor \cup {Hole})
        /\ pc = "solve" /\ pc' = "judge" /\ committed' = committed \o graph
        /\ isam' = isam \cup FactorsOf(graph)
        /\ Running /\ Standing = committed /\ Adding = graph
    BY <1>12, SeqMonotonic DEF SolveOk, TypeInv, GraphType, Running, Standing, Adding
  <2>2. FactorsOf(committed') = FactorsOf(committed) \cup FactorsOf(graph)
    BY <2>1, FactorsOfConcat
  <2>3. Poison \notin FactorsOf(graph)
    BY DEF FactorsOf, Poison
  <2>4. CASE isam \ {Poison} = FactorsOf(committed)
    <3>1. isam' \ {Poison} = FactorsOf(committed')
      BY <2>1, <2>2, <2>3, <2>4
    <3> QED BY <3>1 DEF HoldInv
  <2>5. CASE isam = {Poison} /\ FactorsOf(committed) # {}
    <3>1. Mirror # {} /\ Kept # 0
      BY <2>1, <2>5 DEF Mirror, EmptyInv
    <3>2. ASSUME NEW f \in isam', f.kind \in {"prior", "link", "anchor"}
          PROVE  f.key # 0
      <4>1. f \in FactorsOf(Adding)
        BY <2>1, <2>5, <3>2 DEF Poison, Hole
      <4>2. caller \in {"frame", "reloc"} => Kept = nkeys - 1 /\ nkeys \in Nat
        BY <2>1, AddedFactors DEF Kept
      <4>3. CASE caller = "frame"
        <5>1. CASE nkeys = 1
          BY <3>1, <4>2, <4>3, <5>1
        <5>2. CASE nkeys # 1
          BY <2>1, <4>1, <4>2, <4>3, <5>2, AddedFactors DEF Link, Unary, Make
        <5> QED BY <5>1, <5>2
      <4>4. CASE caller = "reloc"
        BY <2>1, <3>1, <4>1, <4>2, <4>4, AddedFactors DEF Anchor, Unary, Make
      <4>5. CASE caller = "manual"
        BY <2>1, <3>2, <4>1, <4>5, AddedFactors DEF Manual, Make
      <4>6. CASE caller = "fix"
        BY <2>1, <3>2, <4>1, <4>6, AddedFactors DEF Fix, Make
      <4>7. CASE caller = "loops"
        BY <2>1, <3>2, <4>1, <4>7, AddedFactors DEF Loop, Make
      <4>8. CASE caller = "undo"
        BY <2>1, <4>1, <4>8, AddedFactors
      <4> QED BY <2>1, <4>3, <4>4, <4>5, <4>6, <4>7, <4>8, AddedFactors
    <3>3. 0 \notin Estimated'
      BY <3>2 DEF Estimated
    <3> QED BY <2>1, <3>3 DEF HoldInv
  <2>6. isam = {Poison} => isam \ {Poison} = {}
    OBVIOUS
  <2> QED BY <2>1, <2>4, <2>5, <2>6 DEF HoldInv
<1> QED BY <1>1, <1>2, <1>3, <1>4, <1>5, <1>6, <1>8, <1>9, <1>10, <1>11, <1>12
        DEF Next, Handler, Update, Nssm

LEMMA HoldInvariant == Spec => []HoldInv
<1>1. Init => HoldInv
  BY DEF Init, HoldInv, FactorsOf, Poison
<1>2. HoldInv /\ UNCHANGED vars => HoldInv'
  BY DEF HoldInv, Estimated, vars, graphVars, roundVars
<1>3. TypeInv /\ RoundInv /\ ShapeInv /\ EmptyInv /\ HoldInv /\ [Next]_vars => HoldInv'
  BY <1>2, HoldStep
<1> QED BY <1>1, <1>3, TypeInvariant, RoundInvariant, ShapeInvariant, EmptyInvariant,
           PTL DEF Spec

\* Between callbacks the estimator holds the mirror, even if its rebuild threw
\* and rounds were committed on it since; or its rebuild took nothing.
THEOREM EstimatorHoldsMirror == Spec => []EstimatorMirrors
<1>1. HoldInv => EstimatorMirrors
  BY DEF HoldInv, EstimatorMirrors
<1> QED BY <1>1, HoldInvariant, PTL

----------------------------------------------------------------------------
(* The pose invariant is inductive when no throw comes after the sweep.    *)

\* The poses show the standing mirror; a loop round carries its snapshot; and
\* an undo in progress knows the hole its factor came from.
PoseInv ==
  /\ swept \ {Poison} = FactorsOf(Standing) \cup Undoing
  /\ pc \in {"solve", "judge"} /\ pending # {} => preRound = swept
  /\ removed # Hole => /\ manual[Len(manual)] \in 1 .. Len(Standing)
                       /\ Standing[manual[Len(manual)]] = Hole

\* A round that failed and left the poses as they were.
LEMMA PoseUnwind ==
  ASSUME RoundInv, PoseInv, pc \in {"solve", "judge"}, committed' = Standing,
         swept' = swept, manual' = manual, Fail
  PROVE  PoseInv'
<1>1. Standing' = Standing /\ pc' \notin {"solve", "judge"}
  BY DEF Standing, Fail, Return
<1>2. removed' = removed
  BY DEF RoundInv, Fail, Return
<1>3. swept' \ {Poison} = FactorsOf(Standing') \cup Undoing'
  BY <1>1, <1>2 DEF PoseInv, Undoing
<1>5. removed' # Hole => /\ manual'[Len(manual')] \in 1 .. Len(Standing')
                         /\ Standing'[manual'[Len(manual')]] = Hole
  BY <1>1, <1>2 DEF PoseInv
<1> QED BY <1>1, <1>3, <1>5 DEF PoseInv

\* A committed round: the poses now show what the estimator holds, which was
\* readable, so it is the mirror.
LEMMA PoseCommit ==
  ASSUME TypeInv, RoundInv, HoldInv, PoseInv, Commit, NEW next \in {"idle", "nssm"}, Return(next)
  PROVE  PoseInv'
<1>1. /\ Standing' = committed /\ Undoing' = {}
      /\ pc' \notin {"solve", "judge"} /\ removed' = Hole
  BY DEF Standing, Undoing, Commit, Return
<1>2. isam \ {Poison} = FactorsOf(committed) /\ swept' = isam
      /\ isam' = isam /\ committed' = committed
  BY ReadableHolds DEF Commit
<1> QED BY <1>1, <1>2 DEF PoseInv

\* A handler that only buffers factors.
LEMMA PoseBuffer ==
  ASSUME RoundInv, PoseInv, pc \in {"idle", "nssm"}, pc' = "solve",
         UNCHANGED <<committed, swept, manual, removed>>,
         preRound' = IF pending' # {} THEN swept ELSE {}
  PROVE  PoseInv'
<1>1. Standing' = Standing /\ Undoing' = Undoing /\ removed' = Hole
  BY DEF Standing, Undoing, RoundInv
<1> QED BY <1>1 DEF PoseInv

\* Buffering factors moves no pose and touches no mirrored factor; an undo
\* digs its hole before anything is solved.
LEMMA PoseHandler == TypeInv /\ RoundInv /\ PoseInv /\ Handler => PoseInv'
<1> SUFFICES ASSUME TypeInv, RoundInv, PoseInv, Handler PROVE PoseInv'
  OBVIOUS
<1>1. CASE AddPrior
  BY <1>1, PoseBuffer DEF AddPrior, Enter, fixVars, loopVars
<1>2. CASE AddSequential
  BY <1>2, PoseBuffer DEF AddSequential, Enter, fixVars, loopVars
<1>3. CASE Relocalize
  BY <1>3, PoseBuffer DEF Relocalize, Enter, fixVars, loopVars
<1>4. CASE ManualCorrection
  BY <1>4, PoseBuffer DEF ManualCorrection, Enter, fixVars, loopVars
<1>5. CASE UndoManual
  <2> DEFINE idx == manual[Len(manual)]
  <2>1. /\ committed \in Seq(Factor \cup {Hole}) /\ removed = Hole
        /\ swept \ {Poison} = FactorsOf(committed) /\ pc' = "solve" /\ pending' = {}
        /\ swept' = swept /\ manual' = manual
    BY <1>5 DEF UndoManual, TypeInv, GraphType, RoundInv, PoseInv, Standing,
                Undoing, Enter, fixVars, loopVars
  <2>2. Standing' = committed'
    BY <2>1 DEF Standing
  <2>4. CASE idx \in 1 .. Len(committed)
    <3>1. committed' = [committed EXCEPT ![idx] = Hole] /\ removed' = committed[idx]
      BY <1>5, <2>1, <2>4 DEF UndoManual
    <3>2. committed' \in Seq(Factor \cup {Hole}) /\ Len(committed') = Len(committed)
          /\ committed'[idx] = Hole
      BY <2>1, <2>4, <3>1, ExceptSeq
    <3>3. FactorsOf(committed) = FactorsOf(committed') \cup ({removed'} \ {Hole})
      BY <2>1, <2>4, <3>1, DigHole
    <3>4. swept' \ {Poison} = FactorsOf(Standing') \cup Undoing'
      BY <2>1, <2>2, <3>3 DEF Undoing
    <3> QED BY <2>1, <2>2, <2>4, <3>2, <3>4 DEF PoseInv
  <2>5. CASE idx \notin 1 .. Len(committed)
    <3>1. committed' = committed /\ removed' = Hole
      BY <1>5, <2>1, <2>5 DEF UndoManual
    <3> QED BY <2>1, <2>2, <3>1 DEF PoseInv, Undoing
  <2> QED BY <2>4, <2>5
<1>6. ASSUME NEW k \in Key, PositionPrior(k) PROVE PoseInv'
  BY <1>6, PoseBuffer DEF PositionPrior, Enter, fixVars, loopVars
<1> QED BY <1>1, <1>2, <1>3, <1>4, <1>5, <1>6 DEF Handler

\* A round ends with the poses showing what is mirrored.
LEMMA PoseUpdate ==
  ASSUME ~LateThrows
  PROVE  TypeInv /\ RoundInv /\ HoldInv /\ PoseInv /\ Update => PoseInv'
<1> SUFFICES ASSUME TypeInv, RoundInv, HoldInv, PoseInv, Update PROVE PoseInv'
  OBVIOUS
<1>0. /\ committed \in Seq(Factor \cup {Hole}) /\ graph \in Seq(Factor \cup {Hole})
      /\ removed \in Factor \cup {Hole}
  BY SeqMonotonic DEF TypeInv, GraphType, RoundType
<1>1. CASE SolveThrow
  BY <1>1, PoseUnwind DEF SolveThrow, Standing, fixVars
<1>2. CASE SolveOk
  <2>1. /\ pc = "solve" /\ pc' = "judge" /\ before' = Len(committed)
        /\ committed' = committed \o graph
        /\ UNCHANGED <<swept, pending, preRound, removed, manual>>
    BY <1>2 DEF SolveOk, loopVars, fixVars
  <2>2. Standing = committed /\ Standing' = committed /\ Undoing' = Undoing
    BY <1>0, <2>1, CutBack DEF Standing, Undoing
  <2> QED BY <2>1, <2>2 DEF PoseInv
<1>3. CASE PostSolveThrow
  BY <1>3, PoseUnwind DEF PostSolveThrow, Truncate, Standing, fixVars
<1>4. CASE LateThrow
  <2>1. swept' = swept
    BY <1>4 DEF LateThrow, PoseInv
  <2> QED BY <1>4, <2>1, PoseUnwind DEF LateThrow, Truncate, Standing, fixVars
<1>5. ASSUME NEW convicted \in Verdicts, Revert(convicted) PROVE PoseInv'
  <2>1. swept' = swept
    BY <1>5 DEF Revert, PoseInv
  <2> QED BY <1>5, <2>1, PoseUnwind DEF Revert, Truncate, Standing, fixVars
<1>13. CASE StrandLoops
  <2>1. swept' = swept
    BY <1>13 DEF StrandLoops, PoseInv
  <2> QED BY <1>13, <2>1, PoseUnwind DEF StrandLoops, Truncate, Standing, fixVars
<1>6. CASE CommitFrame
  BY <1>6, PoseCommit DEF CommitFrame
<1>7. CASE CommitLoops
  BY <1>7, PoseCommit DEF CommitLoops
<1>8. CASE CommitReloc
  BY <1>8, PoseCommit DEF CommitReloc
<1>9. CASE CommitManual
  BY <1>9, PoseCommit DEF CommitManual
<1>10. CASE CommitUndo
  BY <1>10, PoseCommit DEF CommitUndo
<1>11. CASE CommitFix
  BY <1>11, PoseCommit DEF CommitFix
<1>12. CASE RestoreUndone
  <2> DEFINE idx == manual[Len(manual)]
  <2>1. /\ pc = "restore" /\ pc' = "idle" /\ removed' = Hole /\ swept' = swept
        /\ Standing = committed /\ Standing' = committed' /\ Undoing' = {}
    BY <1>12 DEF RestoreUndone, Return, Standing, Undoing
  <2>2. CASE removed # Hole
    <3>1. committed' = [committed EXCEPT ![idx] = removed]
      BY <1>12, <2>2 DEF RestoreUndone
    <3>2. idx \in 1 .. Len(committed) /\ committed[idx] = Hole /\ removed \in Factor
      BY <1>0, <2>1, <2>2 DEF PoseInv
    <3>3. FactorsOf(committed') = FactorsOf(committed) \cup {removed}
      <4>1. committed \in Seq(Factor \cup {Hole})
        BY <1>0
      <4> HIDE DEF idx
      <4>2. FactorsOf([committed EXCEPT ![idx] = removed]) = FactorsOf(committed) \cup {removed}
        BY <3>2, <4>1, FillHole
      <4> QED BY <3>1, <4>2
    <3>4. swept' \ {Poison} = FactorsOf(committed')
      BY <2>1, <2>2, <3>3 DEF PoseInv, Undoing
    <3> QED BY <2>1, <3>4 DEF PoseInv
  <2>3. CASE removed = Hole
    BY <1>12, <2>1, <2>3 DEF RestoreUndone, PoseInv, Undoing
  <2> QED BY <2>2, <2>3
<1> QED BY <1>1, <1>2, <1>3, <1>4, <1>5, <1>6, <1>7, <1>8, <1>9, <1>10, <1>11,
           <1>12, <1>13 DEF Update

\* The loop search only buffers.
LEMMA PoseNssm == TypeInv /\ RoundInv /\ PoseInv /\ Nssm => PoseInv'
<1> SUFFICES ASSUME TypeInv, RoundInv, PoseInv, Nssm PROVE PoseInv'
  OBVIOUS
<1>0. pc = "nssm" /\ removed = Hole /\ Standing = committed
      => swept \ {Poison} = FactorsOf(committed)
  BY DEF PoseInv, Undoing
<1>1. CASE NssmSkip
  BY <1>1 DEF NssmSkip, Return, RoundInv, PoseInv, Standing, Undoing, graphVars,
              loopVars, fixVars
<1>2. ASSUME NEW t \in Candidates, NssmQueue(t) PROVE PoseInv'
  BY <1>2 DEF NssmQueue, Offer, Return, RoundInv, PoseInv, Standing, Undoing,
              graphVars, fixVars
<1>3. ASSUME NEW t \in Candidates, NEW fresh \in SUBSET Key, NssmInsert(t, fresh)
      PROVE  PoseInv'
  BY <1>3, PoseBuffer DEF NssmInsert, Offer, Enter, fixVars
<1> QED BY <1>1, <1>2, <1>3 DEF Nssm

\* Whatever throws, is reverted, or fails to rebuild, the pose invariant
\* holds, if a round without loops throws before the sweep only.
THEOREM PoseInvariant ==
  ASSUME ~LateThrows
  PROVE  Spec => []PoseInv
<1>1. Init => PoseInv
  <2>1. Poison \notin FactorsOf(committed)
    BY DEF FactorsOf, Poison
  <2> QED BY <2>1 DEF Init, PoseInv, Standing, Undoing
<1>2. PoseInv /\ UNCHANGED vars => PoseInv'
  BY DEF PoseInv, Standing, Undoing, vars, graphVars, loopVars, fixVars, roundVars
<1>3. TypeInv /\ RoundInv /\ HoldInv /\ PoseInv /\ [Next]_vars => PoseInv'
  BY <1>2, PoseHandler, PoseUpdate, PoseNssm DEF Next
<1> QED BY <1>1, <1>3, TypeInvariant, RoundInvariant, HoldInvariant, PTL DEF Spec

\* Between callbacks the published poses are those of an estimator that held
\* exactly the committed factors: a failed round leaves no trace in them.
THEOREM PosesAreAtomic ==
  ASSUME ~LateThrows
  PROVE  Spec => []PosesMatchGraph
<1>1. RoundInv /\ PoseInv => PosesMatchGraph
  BY DEF RoundInv, PoseInv, PosesMatchGraph, Standing, Undoing
<1> QED BY <1>1, RoundInvariant, PoseInvariant, PTL

----------------------------------------------------------------------------
(* The books of the loop closures.                                         *)

\* A handler leaves the books of the closures alone.
LEMMA HandlerKeepsLoops ==
  ASSUME Handler
  PROVE  UNCHANGED loopVars /\ pc' = "solve"
<1>1. ASSUME NEW k \in Key, PositionPrior(k) PROVE UNCHANGED loopVars /\ pc' = "solve"
  BY <1>1 DEF PositionPrior, Enter
<1> QED BY <1>1 DEF Handler, AddPrior, AddSequential, Relocalize, ManualCorrection,
                    UndoManual, Enter

\* Closures are offered by keyframes that stay, each once.
OfferInv ==
  /\ offered \subseteq 0 .. Kept - 1
  /\ pc = "nssm" => nkeys - 1 \notin offered

\* The marked closures that are neither tentative nor stranded.
Closed == (inserted \ pending) \ stranded

\* The closures the poses show are those, and a marked closure has one
\* constraint marker.
BookInv ==
  /\ stranded \subseteq inserted \ pending
  /\ {f \in Mirror : f.kind = "loop"} = {Loop(s, target[s]) : s \in Closed}
  /\ \A k \in Key : constraints[k] = IF k \in inserted THEN <<target[k]>> ELSE <<>>

\* The newest keyframe offers its first closure.
LEMMA OfferFacts ==
  ASSUME TypeInv, OfferInv, NEW t \in Candidates, Offer(t)
  PROVE  /\ pc = "nssm" /\ Kept = nkeys /\ nkeys \in Nat
         /\ nkeys - 1 \in 0 .. Kept - 1 /\ nkeys - 1 \in Key /\ nkeys - 1 \notin offered
         /\ offered' = offered \cup {nkeys - 1}
         /\ target'[nkeys - 1] = t
         /\ \A s \in Key : s # nkeys - 1 => target'[s] = target[s]
<1>1. /\ pc = "nssm" /\ offered' = offered \cup {nkeys - 1}
      /\ target' = [target EXCEPT ![nkeys - 1] = t]
  BY DEF Offer
<1>2. /\ nkeys \in Nat /\ nkeys <= MaxKeys /\ MaxKeys \in Nat /\ MinRevisitSep \in Nat
      /\ target \in [Key -> Key]
  BY BackendAssumption DEF BackendAssumption, TypeInv, GraphType, LoopType
<1>3. t \in Nat /\ (nkeys - 1) - t >= MinRevisitSep
  BY <1>2 DEF Candidates, Key
<1>4. Kept = nkeys
  BY <1>1 DEF Kept, Running
<1>5. nkeys - 1 \in 0 .. Kept - 1 /\ nkeys - 1 \in Key
  BY <1>2, <1>3, <1>4 DEF Key
<1> QED BY <1>1, <1>2, <1>4, <1>5 DEF OfferInv

\* Offers come from keyframes that stay.
LEMMA OfferStep ==
  TypeInv /\ RoundInv /\ ShapeInv /\ StackInv /\ OfferInv /\ Next => OfferInv'
<1> SUFFICES ASSUME TypeInv, RoundInv, ShapeInv, StackInv, OfferInv, Next
             PROVE  OfferInv'
  OBVIOUS
<1>1. ASSUME Committed PROVE OfferInv'
  <2>1. /\ offered' = offered /\ Kept' = nkeys /\ nkeys' = nkeys /\ nkeys \in Nat
        /\ pc' = "nssm" => caller = "frame"
        /\ pc = "judge"
    BY <1>1 DEF Committed, TypeInv, GraphType
  <2>2. Kept <= nkeys /\ Kept \in Int /\ (caller = "frame" => Kept = nkeys - 1)
    BY <2>1 DEF Kept, Running
  <2> QED BY <2>1, <2>2 DEF OfferInv
<1>2. ASSUME ~Committed, offered' = offered, pc' # "nssm" PROVE OfferInv'
  BY <1>2, SteadySteps DEF OfferInv, Steady
<1>3. ASSUME NEW t \in Candidates, NssmQueue(t) PROVE OfferInv'
  <2>1. ~Committed /\ pc' = "idle" /\ Offer(t)
    BY <1>3 DEF NssmQueue, Offer, Return, Committed
  <2>2. /\ offered' = offered \cup {nkeys - 1} /\ nkeys - 1 \in 0 .. Kept - 1
    BY <2>1, OfferFacts
  <2> QED BY <2>1, <2>2, SteadySteps DEF OfferInv, Steady
<1>4. ASSUME NEW t \in Candidates, NEW fresh \in SUBSET Key, NssmInsert(t, fresh)
      PROVE  OfferInv'
  <2>1. ~Committed /\ pc' = "solve" /\ Offer(t)
    BY <1>4 DEF NssmInsert, Offer, Enter, Committed
  <2>2. /\ offered' = offered \cup {nkeys - 1} /\ nkeys - 1 \in 0 .. Kept - 1
    BY <2>1, OfferFacts
  <2> QED BY <2>1, <2>2, SteadySteps DEF OfferInv, Steady
<1>5. CASE NssmSkip
  BY <1>2, <1>5 DEF NssmSkip, Return, Committed, loopVars
<1>6. CASE Handler
  BY <1>2, <1>6, HandlerKeepsLoops DEF loopVars, Committed
<1>7. CASE Unwound
  BY <1>7, UnwoundSteady DEF Unwound, Unmarked, Abandoned, OfferInv, Steady
<1>8. CASE Solved
  BY <1>2, <1>8 DEF Solved, Committed
<1>9. CASE RestoreUndone
  BY <1>2, <1>9 DEF RestoreUndone, Return, Committed, loopVars
<1> QED BY <1>1, <1>3, <1>4, <1>5, <1>6, <1>7, <1>8, <1>9, UpdateKinds DEF Next, Nssm

\* Only a loop round adds closures.
LEMMA AddsLoops ==
  ASSUME TypeInv, RoundInv, ShapeInv, Running
  PROVE  {f \in FactorsOf(Adding) : f.kind = "loop"} = {Loop(s, target[s]) : s \in pending}
<1>1. CASE caller = "loops"
  <2>1. FactorsOf(Adding) = {Loop(s, target[s]) : s \in pending}
    BY <1>1, AddedFactors
  <2> QED BY <2>1 DEF Loop, Make
<1>2. CASE caller # "loops"
  <2>1. pending = {}
    BY <1>2, AddedFactors
  <2>2. \A f \in FactorsOf(Adding) : f.kind # "loop"
    <3>1. CASE caller = "frame"
      BY <3>1, AddedFactors DEF Prior, Link, Unary, Make
    <3>2. CASE caller = "reloc"
      BY <3>2, AddedFactors DEF Anchor, Unary, Make
    <3>3. CASE caller = "manual"
      BY <3>3, AddedFactors DEF Manual, Make
    <3>4. CASE caller = "fix"
      BY <3>4, AddedFactors DEF Fix, Make
    <3>5. CASE caller = "undo"
      BY <3>5, AddedFactors
    <3> QED BY <1>2, <3>1, <3>2, <3>3, <3>4, <3>5, AddedFactors
  <2> QED BY <2>1, <2>2
<1> QED BY <1>1, <1>2

\* The books balance after every step.
LEMMA BookStep ==
  TypeInv /\ RoundInv /\ ShapeInv /\ StackInv /\ LoopInv /\ OfferInv /\ BookInv /\ Next
  => BookInv'
<1> SUFFICES ASSUME TypeInv, RoundInv, ShapeInv, StackInv, LoopInv, OfferInv, BookInv,
                    Next
             PROVE  BookInv'
  OBVIOUS
<1>0. /\ pending \subseteq inserted /\ inserted \subseteq offered /\ inserted \subseteq Key
      /\ constraints \in [Key -> Seq(Key)] /\ target \in [Key -> Key]
  BY DEF TypeInv, LoopType, Tentative, LoopInv
<1>1. ASSUME ~Committed, UNCHANGED <<inserted, pending, target, constraints, stranded>>
      PROVE  BookInv'
  BY <1>1, SteadySteps DEF BookInv, Closed, Steady
<1>2. CASE Handler
  BY <1>1, <1>2, HandlerKeepsLoops DEF loopVars, Committed
<1>3. CASE NssmSkip
  BY <1>1, <1>3 DEF NssmSkip, Committed, loopVars
<1>4. CASE RestoreUndone
  BY <1>1, <1>4 DEF RestoreUndone, Committed, loopVars
<1>5. CASE Solved
  BY <1>1, <1>5 DEF Solved, Committed
<1>6. ASSUME NEW t \in Candidates, NssmQueue(t) PROVE BookInv'
  <2>1. ~Committed /\ Offer(t) /\ inserted' = inserted /\ pending' = pending
        /\ constraints' = constraints /\ stranded' = stranded
    BY <1>6 DEF NssmQueue, Offer, Committed
  <2>2. \A s \in inserted : target'[s] = target[s]
    BY <1>0, <2>1, OfferFacts
  <2>3. Mirror' = Mirror
    BY <2>1, SteadySteps DEF Steady
  <2>4. Closed' = Closed
        /\ {Loop(s, target'[s]) : s \in Closed} = {Loop(s, target[s]) : s \in Closed}
    BY <2>1, <2>2 DEF Closed
  <2> QED BY <2>1, <2>2, <2>3, <2>4 DEF BookInv
<1>7. ASSUME NEW t \in Candidates, NEW fresh \in SUBSET Key, NssmInsert(t, fresh)
      PROVE  BookInv'
  <2>1. /\ ~Committed /\ Offer(t) /\ pending = {} /\ fresh \cap inserted = {}
        /\ inserted' = inserted \cup fresh /\ pending' = fresh /\ stranded' = stranded
        /\ constraints' = [k \in Key |-> IF k \in fresh
                                         THEN Append(constraints[k], target'[k])
                                         ELSE constraints[k]]
    BY <1>7 DEF NssmInsert, Offer, Committed, RoundInv
  <2>2. \A s \in inserted : target'[s] = target[s]
    BY <1>0, <2>1, OfferFacts
  <2>3. Mirror' = Mirror
    BY <2>1, SteadySteps DEF Steady
  <2>4. inserted' \ pending' = inserted \ pending /\ Closed' = Closed
    BY <2>1 DEF Closed
  <2>5. {Loop(s, target'[s]) : s \in Closed} = {Loop(s, target[s]) : s \in Closed}
    BY <2>2 DEF Closed
  <2>6. ASSUME NEW k \in Key
        PROVE  constraints'[k] = IF k \in inserted' THEN <<target'[k]>> ELSE <<>>
    <3>1. CASE k \in fresh
      <4>1. constraints[k] = <<>> /\ constraints'[k] = Append(constraints[k], target'[k])
        BY <2>1, <3>1 DEF BookInv
      <4>2. constraints'[k] = <<target'[k]>>
        BY <4>1
      <4> QED BY <2>1, <3>1, <4>2
    <3>2. CASE k \notin fresh
      BY <2>1, <2>2, <3>2 DEF BookInv
    <3> QED BY <3>1, <3>2
  <2> QED BY <2>1, <2>3, <2>4, <2>5, <2>6 DEF BookInv
<1>8. CASE Unwound /\ Unmarked
  <2>1. /\ target' = target
        /\ inserted' = inserted \ pending /\ pending' = {} /\ stranded' = stranded
        /\ constraints' =
             [k \in Key |-> IF k \in pending /\ constraints[k] # <<>>
                            THEN SubSeq(constraints[k], 1, Len(constraints[k]) - 1)
                            ELSE constraints[k]]
    BY <1>8 DEF Unmarked
  <2>2. Mirror' = Mirror /\ inserted' \ pending' = inserted \ pending
        /\ Closed' = Closed
    BY <1>8, <2>1, UnwoundSteady DEF Steady, Closed
  <2>3. ASSUME NEW k \in Key
        PROVE  constraints'[k] = IF k \in inserted' THEN <<target'[k]>> ELSE <<>>
    <3>1. CASE k \in pending
      <4>1. constraints[k] = <<target[k]>> /\ target[k] \in Key
        BY <1>0, <3>1 DEF BookInv
      <4>2. constraints'[k] = SubSeq(<<target[k]>>, 1, 0)
        BY <2>1, <3>1, <4>1
      <4>3. SubSeq(<<target[k]>>, 1, 0) = <<>>
        BY <4>1, SubSeqEmpty
      <4> QED BY <2>1, <3>1, <4>2, <4>3
    <3>2. CASE k \notin pending
      BY <2>1, <3>2 DEF BookInv
    <3> QED BY <3>1, <3>2
  <2> QED BY <2>1, <2>2, <2>3 DEF BookInv
<1>10. CASE Unwound /\ Abandoned
  <2>1. /\ inserted' = inserted /\ pending' = {} /\ stranded' = stranded \cup pending
        /\ target' = target /\ constraints' = constraints
    BY <1>10 DEF Abandoned
  <2>2. Mirror' = Mirror /\ Closed' = Closed
    BY <1>10, <2>1, UnwoundSteady DEF Steady, Closed
  <2>3. stranded' \subseteq inserted' \ pending'
    BY <1>0, <2>1 DEF BookInv
  <2> QED BY <2>1, <2>2, <2>3 DEF BookInv
<1>9. CASE Committed
  <2>1. /\ Running /\ inserted' = inserted /\ pending' = {} /\ target' = target
        /\ constraints' = constraints /\ stranded' = stranded
        /\ stranded \subseteq inserted \ pending
    BY <1>9 DEF Committed, Running, BookInv
  <2>2. CASE caller = "undo"
    <3>1. /\ Mirror' = Mirror \ {removed} /\ removed.kind = "manual" /\ pending = {}
      BY <1>9, <2>1, <2>2, CommitMirror, AddedFactors
    <3>2. {f \in Mirror' : f.kind = "loop"} = {f \in Mirror : f.kind = "loop"}
      BY <3>1
    <3> QED BY <2>1, <3>1, <3>2 DEF BookInv, Closed
  <2>3. CASE caller # "undo"
    <3>1. Mirror' = Mirror \cup FactorsOf(Adding)
      BY <1>9, <2>3, CommitMirror
    <3>2. {f \in FactorsOf(Adding) : f.kind = "loop"} = {Loop(s, target[s]) : s \in pending}
      BY <2>1, AddsLoops
    <3>3. {f \in Mirror' : f.kind = "loop"}
            = {Loop(s, target[s]) : s \in Closed}
                \cup {Loop(s, target[s]) : s \in pending}
      BY <3>1, <3>2 DEF BookInv
    <3>4. Closed' = Closed \cup pending
      BY <1>0, <2>1 DEF Closed
    <3>5. {Loop(s, target[s]) : s \in Closed} \cup {Loop(s, target[s]) : s \in pending}
          = {Loop(s, target[s]) : s \in Closed'}
      BY <3>4
    <3> QED BY <2>1, <3>3, <3>5 DEF BookInv
  <2> QED BY <2>2, <2>3
<1>11. Unwound => Unmarked \/ Abandoned
  BY DEF Unwound
<1> QED BY <1>2, <1>3, <1>4, <1>5, <1>6, <1>7, <1>8, <1>9, <1>10, <1>11, UpdateKinds
        DEF Next, Nssm

\* Offers and books are in order in every reachable state.
LEMMA BookInvariant == Spec => [](OfferInv /\ BookInv)
<1>1. Init => OfferInv /\ BookInv
  <2> SUFFICES ASSUME Init PROVE OfferInv /\ BookInv
    OBVIOUS
  <2>1. Mirror = FactorsOf(LoadedChain(loaded)) /\ loaded \in Nat
    BY BackendAssumption DEF BackendAssumption, Init, Standing, Mirror, Undoing
  <2>2. \A f \in Mirror : f.kind # "loop"
    BY <2>1, ChainFacts
  <2> QED BY <2>2 DEF Init, OfferInv, BookInv, Closed
<1>2. ASSUME OfferInv, BookInv, UNCHANGED vars PROVE OfferInv' /\ BookInv'
  <2>1. Kept' = Kept /\ Mirror' = Mirror
    BY <1>2 DEF Standing, Kept, Running, Mirror, Undoing, vars, graphVars, roundVars
  <2> QED BY <1>2, <2>1 DEF OfferInv, BookInv, Closed, vars, graphVars, loopVars, roundVars
<1>3. TypeInv /\ RoundInv /\ ShapeInv /\ StackInv /\ LoopInv /\ (OfferInv /\ BookInv)
      /\ [Next]_vars => (OfferInv /\ BookInv)'
  BY <1>2, OfferStep, BookStep
<1> QED BY <1>1, <1>3, TypeInvariant, RoundInvariant, ShapeInvariant, StackInvariant,
           LoopInvariant, PTL DEF Spec

\* Between callbacks the flag, the factor, the marker and the counter of
\* every closure agree, but for the factors of those whose round threw after
\* it was verified: their marks were permanent by then and are left behind.
THEOREM BooksBalance == Spec => []LoopBooks
<1>1. ASSUME TypeInv, RoundInv, BookInv, pc = "idle"
      PROVE  LoopBooks
  <2>1. FactorsOf(committed) = Mirror /\ pending = {}
    BY <1>1 DEF Mirror, Standing, Undoing, RoundInv
  <2>2. Closed = inserted \ stranded
    BY <2>1 DEF Closed
  <2> QED BY <1>1, <2>1, <2>2 DEF BookInv, LoopBooks, TypeInv, Tentative
<1>2. TypeInv /\ RoundInv /\ BookInv => LoopBooks
  BY <1>1 DEF LoopBooks
<1> QED BY <1>2, TypeInvariant, RoundInvariant, BookInvariant, PTL

----------------------------------------------------------------------------
(* What ties the keyframes in.                                             *)

\* Every keyframe that stays is tied in, no factor names another one, and
\* consecutive_links_ has an entry for every link of this session.
TieInv ==
  /\ \A k \in 0 .. Kept - 1 : {Prior(k), Link(k), Anchor(k)} \cap Mirror # {}
  /\ \A f \in Mirror : f.key < Kept
  /\ links = {k \in Key : Link(k) \in Mirror \cup FactorsOf(Adding) /\ k >= loaded}

\* What a round adds names keyframes it has, ties in the one it adds and
\* links none but that one.
LEMMA AddsTies ==
  ASSUME TypeInv, RoundInv, ShapeInv, LoopInv, OfferInv, Running
  PROVE  /\ \A f \in FactorsOf(Adding) : f.key < nkeys
         /\ caller \in {"frame", "reloc"} => /\ Kept = nkeys - 1 /\ nkeys > 0
              /\ {Prior(Kept), Link(Kept), Anchor(Kept)} \cap FactorsOf(Adding) # {}
         /\ caller \notin {"frame", "reloc"} => Kept = nkeys
         /\ \A k \in Key : Link(k) \in FactorsOf(Adding) =>
              caller = "frame" /\ k = nkeys - 1
<1>1. nkeys \in Nat /\ nkeys - 1 < nkeys /\ MaxKeys \in Nat
  BY BackendAssumption DEF BackendAssumption, TypeInv, GraphType
<1>0. /\ \A k : Link(k).kind = "link" /\ Link(k).key = k
      /\ \A k : Prior(k).kind = "prior" /\ Prior(k).key = k
      /\ \A k : Anchor(k).kind = "anchor" /\ Anchor(k).key = k
      /\ \A k : Unary(k).kind = "unary" /\ Unary(k).key = k
      /\ \A k, t : Loop(k, t).kind = "loop" /\ Loop(k, t).key = k
  BY DEF Link, Prior, Anchor, Unary, Loop, Make
<1>2. CASE caller = "frame"
  <2>0. Kept = nkeys - 1
    BY <1>2 DEF Kept
  <2>1. CASE nkeys = 1 /\ FactorsOf(Adding) = {Prior(0)}
    <3>1. Kept = 0 /\ \A k : Link(k) # Prior(0)
      BY <1>0, <2>0, <2>1
    <3> QED BY <1>0, <1>1, <1>2, <2>0, <2>1, <3>1
  <2>2. CASE nkeys > 1 /\ FactorsOf(Adding) = {Link(nkeys - 1), Unary(nkeys - 1)}
    <3>1. \A k : Link(k) # Unary(nkeys - 1) /\ (Link(k) = Link(nkeys - 1) => k = nkeys - 1)
      BY <1>0
    <3> QED BY <1>0, <1>1, <1>2, <2>0, <2>2, <3>1
  <2> QED BY <1>2, <2>1, <2>2, AddedFactors
<1>3. CASE caller = "reloc"
  <2>1. nkeys > 0 /\ FactorsOf(Adding) = {Anchor(nkeys - 1), Unary(nkeys - 1)}
    BY <1>3, AddedFactors
  <2>2. Kept = nkeys - 1
    BY <1>3 DEF Kept
  <2>3. \A k : Link(k) # Unary(nkeys - 1) /\ Link(k) # Anchor(nkeys - 1)
    BY <1>0
  <2> QED BY <1>0, <1>1, <1>3, <2>1, <2>2, <2>3
<1>4. CASE caller = "manual"
  <2>1. FactorsOf(Adding) = {Manual(nkeys - 1, applied)}
    BY <1>4, AddedFactors
  <2> QED BY <1>1, <1>4, <2>1 DEF Kept, Manual, Link, Make
<1>5. CASE caller = "fix"
  <2>1. PICK k \in 0 .. nkeys - 1 : FactorsOf(Adding) = {Fix(k, fixes)}
    BY <1>5, AddedFactors
  <2> QED BY <1>1, <1>5, <2>1 DEF Kept, Fix, Link, Make
<1>6. CASE caller = "undo"
  BY <1>6, AddedFactors DEF Kept
<1>7. CASE caller = "loops"
  <2>1. FactorsOf(Adding) = {Loop(s, target[s]) : s \in pending}
    BY <1>7, AddedFactors
  <2>2. pending \subseteq offered /\ Kept = nkeys
    BY <1>7 DEF LoopInv, TypeInv, Tentative, Kept
  <2>3. \A s \in pending : s \in 0 .. nkeys - 1
    BY <2>2 DEF OfferInv
  <2>4. \A k, s, t : Link(k) # Loop(s, t)
    BY <1>0
  <2> QED BY <1>0, <1>1, <1>7, <2>1, <2>2, <2>3, <2>4
<1> QED BY <1>2, <1>3, <1>4, <1>5, <1>6, <1>7, AddedFactors

\* Every step keeps the ties.
LEMMA TieStep ==
  TypeInv /\ RoundInv /\ ShapeInv /\ StackInv /\ LoopInv /\ OfferInv /\ MapInv /\ TieInv
  /\ Next => TieInv'
<1> SUFFICES ASSUME TypeInv, RoundInv, ShapeInv, StackInv, LoopInv, OfferInv, MapInv,
                    TieInv, Next
             PROVE  TieInv'
  OBVIOUS
<1>1. ShapeInv'
  BY ShapeStep
<1>2. /\ nkeys \in Nat /\ Kept \in Int /\ loaded \in Nat
      /\ ~Running => Kept = nkeys
  BY DEF TypeInv, GraphType, FixType, Kept
<1>3. ~Running => Adding = <<>> /\ FactorsOf(Adding) = {}
  BY FactorsOfFew DEF Adding, Running
<1>4. ASSUME ~Committed, links' = links,
             \A k \in Key : Link(k) \in FactorsOf(Adding') <=> Link(k) \in FactorsOf(Adding)
      PROVE  TieInv'
  BY <1>4, SteadySteps DEF TieInv, Steady, mapVars
<1>5. ASSUME ~Committed, links' = links, ~Running,
             \A k \in Key : Link(k) \notin FactorsOf(Adding')
      PROVE  TieInv'
  BY <1>3, <1>4, <1>5
<1>6. ASSUME ~Committed, links' = links, ~Running, ~Running' PROVE TieInv'
  <2>1. Adding' = <<>>
    BY <1>6 DEF Adding, Running
  <2>2. FactorsOf(Adding') = {}
    BY <2>1, FactorsOfFew
  <2> QED BY <1>5, <1>6, <2>2
<1>7. CASE AddPrior
  <2>1. Adding' = <<Prior(0)>> /\ ~Committed /\ ~Running /\ links' = links
    BY <1>3, <1>7 DEF AddPrior, Enter, Adding, Running, Committed, RoundInv
  <2>2. \A k \in Key : Link(k) \notin FactorsOf(Adding')
    BY <2>1 DEF FactorsOf, Link, Prior, Make
  <2> QED BY <1>5, <2>1, <2>2
<1>8. CASE AddSequential
  <2>1. /\ Adding' = <<Link(nkeys), Unary(nkeys)>> /\ ~Committed /\ ~Running
        /\ links' = links \cup {nkeys}
    BY <1>3, <1>8 DEF AddSequential, Enter, Adding, Running, Committed, RoundInv
  <2>2. nkeys \in Key /\ nkeys >= loaded
    BY <1>2, <1>8, <2>1, BackendAssumption
       DEF BackendAssumption, AddSequential, Key, MapInv
  <2>3. Link(nkeys) \in Factor /\ Unary(nkeys) \in Factor
    BY <2>2, FactorTypes
  <2>4. FactorsOf(Adding') = {Link(nkeys), Unary(nkeys)}
    BY <2>1, <2>3, FactorsOfFew
  <2>5. \A k \in Key : Link(k) \in FactorsOf(Adding') <=> k = nkeys
    BY <2>4 DEF Link, Unary, Make
  <2>6. links = {k \in Key : Link(k) \in Mirror /\ k >= loaded}
    BY <1>3, <2>1 DEF TieInv
  <2>7. Mirror' = Mirror /\ loaded' = loaded /\ Kept' = Kept
    BY <2>1, SteadySteps DEF Steady, mapVars
  <2>8. links' = {k \in Key : Link(k) \in Mirror' \cup FactorsOf(Adding') /\ k >= loaded'}
    BY <2>1, <2>2, <2>5, <2>6, <2>7
  <2> QED BY <2>7, <2>8 DEF TieInv
<1>9. CASE Relocalize
  <2>1. Adding' = <<Anchor(nkeys), Unary(nkeys)>> /\ ~Committed /\ ~Running /\ links' = links
    BY <1>3, <1>9 DEF Relocalize, Enter, Adding, Running, Committed, RoundInv
  <2>2. \A k \in Key : Link(k) \notin FactorsOf(Adding')
    BY <2>1 DEF FactorsOf, Link, Anchor, Unary, Make
  <2> QED BY <1>5, <2>1, <2>2
<1>10. CASE ManualCorrection
  <2>1. /\ Adding' = <<Manual(nkeys - 1, applied)>> /\ ~Committed /\ ~Running
        /\ links' = links
    BY <1>3, <1>10 DEF ManualCorrection, Enter, Adding, Running, Committed, RoundInv
  <2>2. \A k \in Key : Link(k) \notin FactorsOf(Adding')
    BY <2>1 DEF FactorsOf, Link, Manual, Make
  <2> QED BY <1>5, <2>1, <2>2
<1>11. CASE UndoManual
  <2>1. Adding' = <<>> /\ ~Committed /\ ~Running /\ links' = links
    BY <1>11 DEF UndoManual, Enter, Adding, Running, Committed, RoundInv
  <2>2. FactorsOf(Adding') = {}
    BY <2>1, FactorsOfFew
  <2> QED BY <1>5, <2>1, <2>2
<1>12. ASSUME NEW q \in Key, PositionPrior(q) PROVE TieInv'
  <2>1. Adding' = <<Fix(q, fixes)>> /\ ~Committed /\ ~Running /\ links' = links
    BY <1>3, <1>12 DEF PositionPrior, Enter, Adding, Running, Committed, RoundInv
  <2>2. \A k \in Key : Link(k) \notin FactorsOf(Adding')
    BY <2>1 DEF FactorsOf, Link, Fix, Make
  <2> QED BY <1>5, <2>1, <2>2
<1>13. ASSUME NEW t \in Candidates, NEW fresh \in SUBSET Key, NssmInsert(t, fresh)
       PROVE  TieInv'
  <2>1. /\ pc' = "solve" /\ caller' = "loops" /\ ~Committed /\ ~Running /\ links' = links
    BY <1>13 DEF NssmInsert, Offer, Enter, Running, Committed
  <2>2. FactorsOf(Adding') = {Loop(s, target'[s]) : s \in pending'}
    BY <1>1, <2>1 DEF ShapeInv, Shape, Running
  <2>3. \A k \in Key : Link(k) \notin FactorsOf(Adding')
    BY <2>2 DEF Link, Loop, Make
  <2> QED BY <1>5, <2>1, <2>3
<1>14. ASSUME NssmSkip \/ \E t \in Candidates : NssmQueue(t) PROVE TieInv'
  <2>1. ~Committed /\ links' = links /\ ~Running /\ ~Running'
    BY <1>14 DEF NssmSkip, NssmQueue, Offer, Return, Running, Committed, graphVars
  <2> QED BY <1>6, <2>1
<1>15. CASE RestoreUndone
  <2>1. ~Committed /\ links' = links /\ ~Running /\ ~Running'
    BY <1>15 DEF RestoreUndone, Return, Running, Committed
  <2> QED BY <1>6, <2>1
<1>16. CASE Solved
  <2>1. ~Committed /\ links' = links /\ Adding' = Adding
    BY <1>16 DEF Solved, Committed
  <2> QED BY <1>4, <2>1
<1>17. CASE Unwound
  <2>1. /\ Running /\ Mirror' = Mirror /\ Kept' = Kept /\ loaded' = loaded
        /\ Adding' = <<>>
        /\ links' = IF caller \in {"frame", "reloc"} THEN {k \in links : k < Kept}
                                                      ELSE links
    BY <1>17, UnwoundSteady DEF Unwound, Steady, mapVars
  <2>2. FactorsOf(Adding') = {}
    BY <2>1, FactorsOfFew
  <2>3. \A k \in Key : Link(k) \in FactorsOf(Adding) =>
          caller = "frame" /\ k = nkeys - 1 /\ Kept = nkeys - 1
    BY <2>1, AddsTies
  <2>4. \A k \in Key : Link(k) \in Mirror => k < Kept
    BY DEF TieInv, Link, Make
  <2>5. links' = {k \in Key : Link(k) \in Mirror /\ k >= loaded}
    <3>1. CASE caller \in {"frame", "reloc"}
      <4>1. links' = {k \in links : k < Kept}
        BY <2>1, <3>1
      <4>2. \A k \in Key : k < Kept => Link(k) \notin FactorsOf(Adding)
        BY <1>2, <2>3
      <4> QED BY <2>4, <4>1, <4>2 DEF TieInv
    <3>2. CASE caller \notin {"frame", "reloc"}
      BY <2>1, <2>3, <3>2 DEF TieInv
    <3> QED BY <3>1, <3>2
  <2> QED BY <2>1, <2>2, <2>5 DEF TieInv
<1>18. CASE Committed
  <2>1. /\ Running /\ Kept' = nkeys /\ links' = links /\ loaded' = loaded
        /\ Adding' = <<>>
    BY <1>18 DEF Committed, Running
  <2>2. FactorsOf(Adding') = {}
    BY <2>1, FactorsOfFew
  <2>3. CASE caller = "undo"
    <3>1. /\ Mirror' = Mirror \ {removed} /\ removed.kind = "manual" /\ Kept' = Kept
          /\ FactorsOf(Adding) = {}
      BY <1>18, <2>3, CommitMirror
    <3>2. \A k \in Key : Link(k) \in Mirror' <=> Link(k) \in Mirror
      BY <3>1 DEF Link, Make
    <3>3. \A k \in 0 .. Kept - 1 : {Prior(k), Link(k), Anchor(k)} \cap Mirror' # {}
      BY <3>1 DEF TieInv, Prior, Link, Anchor, Make
    <3>4. links = {k \in Key : Link(k) \in Mirror' /\ k >= loaded}
      BY <3>1, <3>2 DEF TieInv
    <3> QED BY <2>1, <2>2, <3>1, <3>3, <3>4 DEF TieInv
  <2>4. CASE caller # "undo"
    <3>1. Mirror' = Mirror \cup FactorsOf(Adding)
      BY <1>18, <2>4, CommitMirror
    <3>2. Kept <= nkeys
      BY <1>2 DEF Kept
    <3>3. ASSUME NEW k \in 0 .. nkeys - 1
          PROVE  {Prior(k), Link(k), Anchor(k)} \cap Mirror' # {}
      <4>1. CASE k \in 0 .. Kept - 1
        BY <3>1, <4>1 DEF TieInv
      <4>2. CASE k \notin 0 .. Kept - 1
        <5>1. caller \in {"frame", "reloc"} /\ k = Kept
          BY <1>2, <2>1, <4>2, AddsTies
        <5> QED BY <2>1, <3>1, <5>1, AddsTies
      <4> QED BY <4>1, <4>2
    <3>4. ASSUME NEW f \in Mirror' PROVE f.key < nkeys
      <4>1. CASE f \in FactorsOf(Adding)
        BY <2>1, <4>1, AddsTies
      <4>2. CASE f \in Mirror
        <5>1. f.key \in Int
          BY <4>2, MirrorFactors
        <5> QED BY <1>2, <3>2, <4>2, <5>1 DEF TieInv
      <4> QED BY <3>1, <4>1, <4>2
    <3>5. links = {k \in Key : Link(k) \in Mirror' /\ k >= loaded}
      BY <3>1 DEF TieInv
    <3> QED BY <2>1, <2>2, <3>3, <3>4, <3>5 DEF TieInv
  <2> QED BY <2>3, <2>4
<1> QED BY <1>7, <1>8, <1>9, <1>10, <1>11, <1>12, <1>13, <1>14, <1>15, <1>16, <1>17,
           <1>18, UpdateKinds DEF Next, Handler, Nssm

\* The ties hold in every reachable state.
LEMMA TieInvariant == Spec => []TieInv
<1>1. Init => TieInv
  <2> SUFFICES ASSUME Init PROVE TieInv
    OBVIOUS
  <2>1. /\ Mirror = FactorsOf(LoadedChain(loaded)) /\ loaded \in Nat /\ Kept = loaded
        /\ Adding = <<>> /\ links = {}
    BY BackendAssumption DEF BackendAssumption, Init, Standing, Mirror, Undoing, Kept,
                             Running, Adding
  <2>2. FactorsOf(Adding) = {}
    BY <2>1, FactorsOfFew
  <2>3. /\ \A f \in Mirror : f.key \in Nat /\ f.key < loaded
        /\ \A k \in 0 .. loaded - 1 : {Prior(k), Link(k)} \cap Mirror # {}
    BY <2>1, ChainFacts
  <2>4. \A k \in Key : Link(k) \in Mirror => ~(k >= loaded)
    BY <2>1, <2>3 DEF Link, Make
  <2>5. \A k \in 0 .. loaded - 1 : {Prior(k), Link(k), Anchor(k)} \cap Mirror # {}
    BY <2>3
  <2> QED BY <2>1, <2>2, <2>3, <2>4, <2>5 DEF TieInv
<1>2. ASSUME TieInv, UNCHANGED vars PROVE TieInv'
  <2>1. Kept' = Kept /\ Mirror' = Mirror /\ Adding' = Adding /\ links' = links
        /\ loaded' = loaded
    BY <1>2 DEF Standing, Kept, Running, Mirror, Undoing, Adding, vars, graphVars,
                mapVars, roundVars
  <2> QED BY <1>2, <2>1 DEF TieInv
<1>3. TypeInv /\ RoundInv /\ ShapeInv /\ StackInv /\ LoopInv /\ (OfferInv /\ BookInv)
      /\ MapInv /\ TieInv /\ [Next]_vars => TieInv'
  BY <1>2, TieStep
<1> QED BY <1>1, <1>3, TypeInvariant, RoundInvariant, ShapeInvariant, StackInvariant,
           LoopInvariant, BookInvariant, MapFrameInvariant, PTL DEF Spec

\* A revisit is of an older keyframe, if any separation is asked for.
BackInv == \A s \in offered : target[s] < s

LEMMA BackInvariant ==
  ASSUME MinStSep > 0 \/ MinRevisitSep > 0
  PROVE  Spec => []BackInv
<1>1. Init => BackInv
  BY DEF Init, BackInv
<1>2. ASSUME TypeInv, RoundInv, OfferInv, BackInv, [Next]_vars PROVE BackInv'
  <2>1. ASSUME UNCHANGED <<offered, target>> PROVE BackInv'
    BY <1>2, <2>1 DEF BackInv
  <2>2. ASSUME NEW t \in Candidates, Offer(t) PROVE BackInv'
    <3>1. /\ offered' = offered \cup {nkeys - 1} /\ offered \subseteq Key
          /\ nkeys - 1 \in Key /\ nkeys - 1 \notin offered /\ target'[nkeys - 1] = t
          /\ \A s \in Key : s # nkeys - 1 => target'[s] = target[s]
      BY <1>2, <2>2, OfferFacts DEF TypeInv, LoopType
    <3>2. t < nkeys - 1
      <4>1. nkeys \in Nat /\ MinStSep \in Nat /\ MinRevisitSep \in Nat /\ t \in Int
            /\ t < nkeys - MinStSep /\ (nkeys - 1) - t >= MinRevisitSep
        BY <1>2, BackendAssumption
           DEF BackendAssumption, TypeInv, GraphType, Candidates, Key
      <4> QED BY <4>1
    <3>3. \A s \in offered : target'[s] = target[s]
      BY <3>1
    <3> QED BY <1>2, <3>1, <3>2, <3>3 DEF BackInv
  <2>3. CASE UNCHANGED vars
    BY <2>1, <2>3 DEF vars, loopVars
  <2>4. CASE Handler
    BY <2>1, <2>4, HandlerKeepsLoops DEF loopVars
  <2>5. CASE Update
    BY <1>2, <2>1, <2>5, UpdateKinds DEF Unwound, Unmarked, Abandoned, Solved, Committed,
                                         RestoreUndone, loopVars
  <2>6. CASE Nssm
    <3>1. CASE NssmSkip
      BY <2>1, <3>1 DEF NssmSkip, loopVars
    <3>2. ASSUME NEW t \in Candidates, NssmQueue(t) PROVE BackInv'
      BY <2>2, <3>2 DEF NssmQueue
    <3>3. ASSUME NEW t \in Candidates, NEW fresh \in SUBSET Key, NssmInsert(t, fresh)
          PROVE  BackInv'
      BY <2>2, <3>3 DEF NssmInsert
    <3> QED BY <2>6, <3>1, <3>2, <3>3 DEF Nssm
  <2> QED BY <1>2, <2>3, <2>4, <2>5, <2>6 DEF Next
<1>3. TypeInv /\ RoundInv /\ (OfferInv /\ BookInv) /\ BackInv /\ [Next]_vars => BackInv'
  BY <1>2
<1> QED BY <1>1, <1>3, TypeInvariant, RoundInvariant, BookInvariant, PTL DEF Spec

\* Dropping the keyframe of a failed round takes with it all that names it:
\* the system the estimator solves has no dangling variable.
THEOREM ChainStaysIntact ==
  ASSUME MinStSep > 0 \/ MinRevisitSep > 0
  PROVE  Spec => []ChainIsIntact
<1>1. ASSUME TypeInv, RoundInv, LoopInv, BookInv, TieInv, BackInv, pc = "idle"
      PROVE  ChainIsIntact
  <2>1. FactorsOf(committed) = Mirror /\ pending = {} /\ Kept = nkeys /\ Adding = <<>>
    BY <1>1 DEF Mirror, Standing, Undoing, RoundInv, Kept, Running, Adding
  <2>2. FactorsOf(Adding) = {}
    BY <2>1, FactorsOfFew
  <2>3. ASSUME NEW f \in Mirror, f.kind = "loop" PROVE f.ref < f.key
    <3>1. PICK s \in inserted : f = Loop(s, target[s])
      BY <1>1, <2>3 DEF BookInv, Closed
    <3>2. target[s] < s
      BY <1>1 DEF LoopInv, BackInv
    <3> QED BY <3>1, <3>2 DEF Loop, Make
  <2> QED BY <1>1, <2>1, <2>2, <2>3 DEF TieInv, ChainIsIntact
<1>2. TypeInv /\ RoundInv /\ LoopInv /\ (OfferInv /\ BookInv) /\ TieInv /\ BackInv
      => ChainIsIntact
  BY <1>1 DEF ChainIsIntact
<1> QED BY <1>2, TypeInvariant, RoundInvariant, LoopInvariant, BookInvariant,
           TieInvariant, BackInvariant, PTL

----------------------------------------------------------------------------
(* The refinement.                                                         *)

\* Position priors are numbered in the order they were committed.
FixInv == \A f \in Mirror : f.kind = "fix" => f.ref < fixes

LEMMA FixInvariant == Spec => []FixInv
<1>1. Init => FixInv
  <2> SUFFICES ASSUME Init PROVE FixInv
    OBVIOUS
  <2>1. Mirror = FactorsOf(LoadedChain(loaded)) /\ loaded \in Nat
    BY BackendAssumption DEF BackendAssumption, Init, Standing, Mirror, Undoing
  <2>2. \A f \in Mirror : f.kind # "fix"
    BY <2>1, ChainFacts
  <2> QED BY <2>2 DEF FixInv
<1>2. ASSUME TypeInv, RoundInv, ShapeInv, StackInv, FixInv, Next PROVE FixInv'
  <2>1. CASE ~Committed
    BY <1>2, <2>1, SteadySteps DEF FixInv, Steady, fixVars
  <2>2. CASE Committed
    <3>1. /\ Running /\ fixes \in Nat
          /\ fixes' = IF caller = "fix" THEN fixes + 1 ELSE fixes
      BY <1>2, <2>2 DEF Committed, Running, TypeInv, FixType
    <3>2. CASE caller = "undo"
      BY <1>2, <2>2, <3>1, <3>2, CommitMirror DEF FixInv
    <3>3. CASE caller # "undo"
      <4>1. Mirror' = Mirror \cup FactorsOf(Adding)
        BY <1>2, <2>2, <3>3, CommitMirror
      <4>2. \A f \in FactorsOf(Adding) : f.kind = "fix" => caller = "fix" /\ f.ref = fixes
        <5>1. CASE caller = "frame"
          BY <1>2, <3>1, <5>1, AddedFactors DEF Prior, Link, Unary, Make
        <5>2. CASE caller = "reloc"
          BY <1>2, <3>1, <5>2, AddedFactors DEF Anchor, Unary, Make
        <5>3. CASE caller = "manual"
          BY <1>2, <3>1, <5>3, AddedFactors DEF Manual, Make
        <5>4. CASE caller = "fix"
          BY <1>2, <3>1, <5>4, AddedFactors DEF Fix, Make
        <5>5. CASE caller = "loops"
          BY <1>2, <3>1, <5>5, AddedFactors DEF Loop, Make
        <5> QED BY <1>2, <3>1, <3>3, <5>1, <5>2, <5>3, <5>4, <5>5, AddedFactors
      <4>3. \A f \in Mirror : f.ref \in Nat
        BY <1>2, MirrorFactors
      <4> QED BY <1>2, <3>1, <4>1, <4>2, <4>3 DEF FixInv
    <3> QED BY <3>2, <3>3
  <2> QED BY <2>1, <2>2
<1>3. ASSUME FixInv, UNCHANGED vars PROVE FixInv'
  <2>1. Mirror' = Mirror /\ fixes' = fixes
    BY <1>3 DEF Standing, Mirror, Undoing, vars, graphVars, fixVars, roundVars
  <2> QED BY <1>3, <2>1 DEF FixInv
<1>4. TypeInv /\ RoundInv /\ ShapeInv /\ StackInv /\ FixInv /\ [Next]_vars => FixInv'
  BY <1>2, <1>3
<1> QED BY <1>1, <1>4, TypeInvariant, RoundInvariant, ShapeInvariant, StackInvariant,
           PTL DEF Spec

\* The undo stack as the ledger reads it, and as the entries live.
LedgerStack == [i \in DOMAIN manual |-> IF committed[manual[i]] = Hole
                                        THEN removed ELSE committed[manual[i]]]
LiveStack == [i \in DOMAIN manual |-> LiveAt(i)]

\* What the ledger reads off the back-end.
Mapped ==
  /\ swept \ {Poison} = Mirror
  /\ LedgerStack = LiveStack
  /\ LiveStack \in Seq(Factor) /\ Len(LiveStack) = Len(manual)
  /\ Len(manual) \in Nat /\ DOMAIN manual = 1 .. Len(manual)

LEMMA MappedHolds == TypeInv /\ StackInv /\ PoseInv => Mapped
<1> SUFFICES ASSUME TypeInv, StackInv, PoseInv PROVE Mapped
  OBVIOUS
<1>1. Len(manual) \in Nat /\ DOMAIN manual = 1 .. Len(manual)
  BY StackTypes
<1>2. ASSUME NEW i \in DOMAIN manual PROVE committed[manual[i]] = Standing[manual[i]]
  <2>1. manual[i] \in 1 .. Len(Standing)
    BY DEF StackInv
  <2>2. CASE pc = "judge"
    <3>1. /\ committed = Standing \o Adding /\ Standing \in Seq(Factor \cup {Hole})
          /\ Adding \in Seq(Factor \cup {Hole}) /\ Len(Adding) \in Nat
          /\ Len(Standing) \in Nat
      BY <2>2, MirrorParts, LenProperties
    <3>2. \A p \in 1 .. Len(Standing) + Len(Adding) :
            (Standing \o Adding)[p] = IF p <= Len(Standing) THEN Standing[p]
                                      ELSE Adding[p - Len(Standing)]
      BY <3>1, ConcatProperties
    <3>3. manual[i] \in 1 .. Len(Standing) + Len(Adding) /\ manual[i] <= Len(Standing)
      BY <2>1, <3>1
    <3> QED BY <3>1, <3>2, <3>3
  <2>3. CASE pc # "judge"
    BY <2>3 DEF Standing
  <2> QED BY <2>2, <2>3
<1>3. LedgerStack = LiveStack
  BY <1>2 DEF LedgerStack, LiveStack, LiveAt
<1>4. ASSUME NEW i \in DOMAIN manual PROVE LiveAt(i) \in Factor
  <2>1. LiveAt(i).kind = "manual" /\ manual[i] \in 1 .. Len(Standing)
    BY DEF StackInv
  <2>2. LiveAt(i) \in Factor \cup {Hole}
    BY <2>1, StackTypes DEF LiveAt
  <2> QED BY <2>1, <2>2 DEF Hole
<1>5. LiveStack \in [1 .. Len(manual) -> Factor]
  BY <1>1, <1>4 DEF LiveStack
<1>6. LiveStack \in Seq(Factor) /\ Len(LiveStack) = Len(manual)
  BY <1>1, <1>5, SeqDef, LenProperties
<1>7. swept \ {Poison} = Mirror
  BY DEF PoseInv, Mirror
<1> QED BY <1>1, <1>3, <1>6, <1>7 DEF Mapped

\* The ledger sees the commit of a round, and no other step.
LEMMA LedgerStep ==
  ASSUME TypeInv, RoundInv, ShapeInv, StackInv, LoopInv, OfferInv, BookInv, MapInv,
         TieInv, BackInv, FixInv, Mapped, Mapped', [Next]_vars
  PROVE  [Ledger!LedgerNext]_(Ledger!ledger)
<1>0. /\ swept \ {Poison} = Mirror /\ swept' \ {Poison} = Mirror'
      /\ LedgerStack = LiveStack
      /\ LedgerStack' = LiveStack'
  BY DEF Mapped
<1>1. ASSUME Mirror' = Mirror, Kept' = Kept, LiveStack' = LiveStack
      PROVE  UNCHANGED Ledger!ledger
  BY <1>0, <1>1 DEF Ledger!ledger, Kept, Running, LedgerStack
<1>2. CASE UNCHANGED vars
  BY <1>1, <1>2 DEF vars, graphVars, fixVars, roundVars, Mirror, Standing, Undoing,
                    Kept, Running, LiveStack, LiveAt
<1>3. CASE Next /\ ~Committed
  <2>1. Mirror' = Mirror /\ Kept' = Kept /\ manual' = manual
        /\ \A i \in DOMAIN manual : LiveAt(i)' = LiveAt(i)
    BY <1>3, SteadySteps DEF Steady, fixVars
  <2>2. LiveStack' = LiveStack
    BY <2>1 DEF LiveStack
  <2> QED BY <1>1, <2>1, <2>2
<1>4. CASE Committed
  <2>1. /\ Running /\ Shape /\ Kept' = nkeys /\ nkeys \in Nat /\ nkeys <= MaxKeys
        /\ pending \subseteq inserted /\ inserted \subseteq offered
        /\ inserted \subseteq Key
    BY <1>4, BackendAssumption
       DEF BackendAssumption, Committed, Running, ShapeInv, TypeInv, GraphType,
           LoopType, Tentative, LoopInv
  <2>2. /\ caller \in {"frame", "reloc"} => Kept = nkeys - 1
        /\ caller \notin {"frame", "reloc"} => Kept = nkeys
    BY <2>1 DEF Kept
  <2>3. \A i \in DOMAIN manual' : LiveAt(i)' = IF i \in DOMAIN manual THEN LiveAt(i)
                                               ELSE Manual(nkeys - 1, applied)
    BY <1>4, StackCommit
  <2>4. caller \notin {"manual", "undo"} => LiveStack' = LiveStack
    <3>1. caller \notin {"manual", "undo"} => manual' = manual
      BY <1>4 DEF Committed
    <3> QED BY <2>3, <3>1 DEF LiveStack
  <2>5. caller # "undo" => Mirror' = Mirror \cup FactorsOf(Adding)
    BY <1>4, CommitMirror
  <2>6. CASE caller \in {"frame", "reloc"}
    <3> DEFINE tie == FactorsOf(Adding)
    <3>1. /\ tie \in {{Prior(Kept)}, {Link(Kept), Unary(Kept)}, {Anchor(Kept), Unary(Kept)}}
          /\ Prior(Kept) \in tie <=> Kept = 0
      <4>0. /\ \A k : Prior(k) # Link(k) /\ Prior(k) # Unary(k) /\ Prior(k) # Anchor(k)
        BY DEF Prior, Link, Unary, Anchor, Make
      <4>1. CASE caller = "frame"
        <5>1. CASE nkeys = 1 /\ tie = {Prior(0)}
          BY <2>2, <4>1, <5>1
        <5>2. CASE nkeys > 1 /\ tie = {Link(nkeys - 1), Unary(nkeys - 1)}
          BY <2>1, <2>2, <4>0, <4>1, <5>2
        <5> QED BY <2>1, <4>1, <5>1, <5>2, AddedFactors
      <4>2. CASE caller = "reloc"
        <5>1. tie = {Anchor(Kept), Unary(Kept)} /\ Kept = loaded /\ loaded > 0
          BY <2>1, <2>2, <4>2, AddedFactors DEF Shape, MapInv
        <5>2. loaded \in Nat
          BY DEF TypeInv, FixType
        <5> QED BY <4>0, <5>1, <5>2
      <4> QED BY <2>6, <4>1, <4>2
    <3>2. Mirror' = Mirror \cup tie /\ Kept' = Kept + 1 /\ Kept < MaxKeys
          /\ LiveStack' = LiveStack
      BY <2>1, <2>2, <2>4, <2>5, <2>6, BackendAssumption DEF BackendAssumption
    <3> HIDE DEF tie
    <3>3. Ledger!AddKeyframe
      BY <1>0, <3>1, <3>2
         DEF Ledger!AddKeyframe, Ledger!Prior, Ledger!Link, Ledger!Unary, Ledger!Anchor,
             Ledger!Make, Prior, Link, Unary, Anchor, Make, Kept, Running, LedgerStack
    <3> QED BY <3>3 DEF Ledger!LedgerNext
  <2>7. CASE caller = "loops"
    <3> DEFINE new == {Loop(s, target[s]) : s \in pending}
    <3>1. /\ FactorsOf(Adding) = new /\ pending # {} /\ Mirror' = Mirror \cup new
          /\ Kept = nkeys /\ Kept' = Kept /\ LiveStack' = LiveStack
      BY <2>1, <2>2, <2>4, <2>5, <2>7, AddedFactors DEF Shape
    <3>2. \A s, t : Loop(s, t).kind = "loop" /\ Loop(s, t).key = s /\ Loop(s, t).ref = t
      BY DEF Loop, Make
    <3>3. ASSUME NEW s \in pending PROVE Loop(s, target[s]) \notin Mirror
      <4> SUFFICES ASSUME Loop(s, target[s]) \in Mirror PROVE FALSE
        OBVIOUS
      <4>1. Loop(s, target[s]) \in {Loop(r, target[r]) : r \in inserted \ pending}
        BY <3>2 DEF BookInv, Closed
      <4>2. PICK r \in inserted \ pending : Loop(s, target[s]) = Loop(r, target[r])
        BY <4>1
      <4>3. s = r
        BY <3>2, <4>2
      <4> QED BY <4>2, <4>3
    <3>4. Mirror' \ Mirror = new /\ Mirror \subseteq Mirror' /\ new # {}
      BY <3>1, <3>3
    <3>5. ASSUME NEW f \in new
          PROVE  f.kind = "loop" /\ f.key < Kept /\ f.ref < f.key
      <4>1. PICK s \in pending : f = Loop(s, target[s])
        OBVIOUS
      <4>2. s \in offered /\ s \in 0 .. Kept - 1 /\ Kept \in Int
        BY <2>1, <3>1 DEF OfferInv
      <4> QED BY <3>2, <4>1, <4>2 DEF BackInv
    <3>6. ASSUME NEW f \in new, NEW g \in Mirror', g.kind = "loop", g.key = f.key
          PROVE  g = f
      <4>1. PICK s \in pending : f = Loop(s, target[s])
        OBVIOUS
      <4>2. PICK r \in inserted : g = Loop(r, target[r])
        BY <2>1, <3>1, <3>6 DEF BookInv, Closed
      <4> QED BY <3>2, <3>6, <4>1, <4>2
    <3> HIDE DEF new
    <3>7. Ledger!CloseLoops
      BY <1>0, <3>1, <3>4, <3>5, <3>6
         DEF Ledger!CloseLoops, Ledger!Added, Kept, Running, LedgerStack
    <3> QED BY <3>7 DEF Ledger!LedgerNext
  <2>8. CASE caller = "fix"
    <3>1. PICK k \in 0 .. nkeys - 1 : FactorsOf(Adding) = {Fix(k, fixes)}
      BY <2>1, <2>8, AddedFactors
    <3>2. /\ Mirror' = Mirror \cup {Fix(k, fixes)} /\ Kept = nkeys /\ Kept' = Kept
          /\ LiveStack' = LiveStack /\ k < Kept
      BY <2>1, <2>2, <2>4, <2>5, <2>8, <3>1
    <3>3. Fix(k, fixes).kind = "fix" /\ Fix(k, fixes).key = k /\ Fix(k, fixes).ref = fixes
      BY DEF Fix, Make
    <3>4. Fix(k, fixes) \notin Mirror
      BY <3>3 DEF FixInv, TypeInv, FixType
    <3>5. Mirror' \ Mirror = {Fix(k, fixes)} /\ Mirror \subseteq Mirror'
      BY <3>2, <3>4
    <3>6. Ledger!FixPosition
      BY <1>0, <3>2, <3>3, <3>5
         DEF Ledger!FixPosition, Ledger!Added, Kept, Running, LedgerStack
    <3> QED BY <3>6 DEF Ledger!LedgerNext
  <2>9. CASE caller = "manual"
    <3> DEFINE new == Manual(nkeys - 1, applied)
    <3>1. /\ Mirror' = Mirror \cup {new} /\ Kept = nkeys /\ Kept' = Kept /\ nkeys > 0
          /\ manual' = Append(manual, slot) /\ slot \in Nat /\ manual \in Seq(Nat)
          /\ removed = Hole /\ nkeys - 1 \in Key
      <4>1. nkeys > 0 /\ FactorsOf(Adding) = {new}
        BY <2>1, <2>9, AddedFactors
      <4>2. manual' = Append(manual, slot) /\ slot \in Nat /\ manual \in Seq(Nat)
            /\ removed = Hole
        BY <1>4, <2>9 DEF Committed, TypeInv, RoundType, FixType, RoundInv
      <4>3. nkeys - 1 \in Key
        BY <2>1, <4>1, BackendAssumption DEF BackendAssumption, Key
      <4> QED BY <2>1, <2>2, <2>5, <2>9, <4>1, <4>2, <4>3
    <3>2. new \in Factor /\ new.kind = "manual" /\ new.key = nkeys - 1 /\ new.ref = applied
          /\ applied \in Nat
      BY <3>1, FactorTypes DEF TypeInv, FixType, Manual, Make
    <3>3. new \notin Mirror
      <4> SUFFICES ASSUME new \in Mirror PROVE FALSE
        OBVIOUS
      <4>1. PICK p \in 1 .. Len(Standing) : Standing[p] = new
        BY <3>1, StackTypes DEF Mirror, Undoing, FactorsOf
      <4>2. PICK i \in DOMAIN manual : manual[i] = p
        BY <3>2, <4>1 DEF StackInv
      <4>3. LiveAt(i) = new /\ LiveAt(i).ref < applied
        BY <3>1, <4>1, <4>2, StackFacts DEF StackInv
      <4> QED BY <3>2, <4>3
    <3>4. Mirror' \ Mirror = {new} /\ Mirror \subseteq Mirror'
      BY <3>1, <3>3
    <3>5. PICK last \in Nat : last = Len(manual) /\ DOMAIN manual = 1 .. last
                              /\ LiveStack \in Seq(Factor) /\ Len(LiveStack) = last
      BY DEF Mapped
    <3>6. Len(manual') = last + 1 /\ DOMAIN manual' = 1 .. last + 1
      BY <3>1, <3>5, AppendProperties
    <3>7. /\ Append(LiveStack, new) \in Seq(Factor)
          /\ Len(Append(LiveStack, new)) = last + 1
          /\ \A i \in 1 .. last : Append(LiveStack, new)[i] = LiveStack[i]
          /\ Append(LiveStack, new)[last + 1] = new
      <4> HIDE DEF new
      <4> QED BY <3>2, <3>5, AppendProperties
    <3>8. LiveStack' \in Seq(Factor) /\ Len(LiveStack') = last + 1
      BY <3>6 DEF Mapped
    <3>9. \A i \in 1 .. last + 1 : LiveStack'[i] = Append(LiveStack, new)[i]
      <4>1. \A i \in 1 .. last + 1 : LiveStack'[i] = LiveAt(i)'
        BY <3>6 DEF LiveStack
      <4>2. \A i \in 1 .. last : LiveStack[i] = LiveAt(i)
        BY <3>5 DEF LiveStack
      <4> QED BY <2>3, <3>5, <3>6, <3>7, <4>1, <4>2
    <3>10. LiveStack' = Append(LiveStack, new)
      <4> HIDE DEF new
      <4> QED BY <3>7, <3>8, <3>9, SeqEqual
    <3> HIDE DEF new
    <3>11. Ledger!Correct
      BY <1>0, <3>1, <3>2, <3>4, <3>10
         DEF Ledger!Correct, Ledger!Added, Kept, Running, LedgerStack
    <3> QED BY <3>11 DEF Ledger!LedgerNext
  <2>10. CASE caller = "undo"
    <3>1. /\ Mirror' = Mirror \ {removed} /\ Kept' = Kept /\ manual # <<>>
          /\ removed = LiveAt(Len(manual))
      BY <1>4, <2>10, CommitMirror
    <3>2. PICK last \in Nat : last = Len(manual) /\ DOMAIN manual = 1 .. last
                              /\ LiveStack \in Seq(Factor) /\ Len(LiveStack) = last
      BY DEF Mapped
    <3>3. last > 0 /\ last - 1 \in Nat /\ removed = LiveStack[last] /\ LiveStack # <<>>
      <4>1. last # 0
        BY <3>1, <3>2, StackTypes, EmptySeq
      <4>2. last \in 1 .. last
        BY <4>1
      <4> QED BY <3>1, <3>2, <4>1, <4>2 DEF LiveStack
    <3>4. Len(manual') = last - 1 /\ DOMAIN manual' = 1 .. last - 1
      <4>1. manual' = SubSeq(manual, 1, last - 1)
        BY <1>4, <2>10, <3>2 DEF Committed
      <4>2. \A i \in 1 .. last - 1 : manual[i] \in Nat
        BY <3>2, StackTypes
      <4>3. Len(SubSeq(manual, 1, last - 1)) = last - 1
            /\ SubSeq(manual, 1, last - 1) \in Seq(Nat)
        <5>1. last - 1 \in Int /\ 1 \in Int
              /\ (IF 1 <= last - 1 THEN (last - 1) - 1 + 1 ELSE 0) = last - 1
          BY <3>3
        <5> QED BY <4>2, <5>1, SubSeqProperties
      <4> QED BY <4>1, <4>3, LenProperties
    <3>5. /\ SubSeq(LiveStack, 1, last - 1) \in Seq(Factor)
          /\ Len(SubSeq(LiveStack, 1, last - 1)) = last - 1
          /\ \A i \in 1 .. last - 1 : SubSeq(LiveStack, 1, last - 1)[i] = LiveStack[i]
      <4>1. \A i \in 1 .. last - 1 : LiveStack[i] \in Factor
        BY <3>2, ElementOfSeq
      <4>2. last - 1 \in Int /\ 1 \in Int
            /\ (IF 1 <= last - 1 THEN (last - 1) - 1 + 1 ELSE 0) = last - 1
        BY <3>3
      <4> QED BY <4>1, <4>2, SubSeqProperties
    <3>6. LiveStack' \in Seq(Factor) /\ Len(LiveStack') = last - 1
      BY <3>4 DEF Mapped
    <3>7. \A i \in 1 .. last - 1 : LiveStack'[i] = LiveStack[i]
      <4>1. \A i \in 1 .. last - 1 : LiveStack'[i] = LiveAt(i)'
        BY <3>4 DEF LiveStack
      <4>2. \A i \in 1 .. last - 1 : i \in DOMAIN manual /\ LiveStack[i] = LiveAt(i)
        BY <3>2 DEF LiveStack
      <4> QED BY <2>3, <3>4, <4>1, <4>2
    <3>8. LiveStack' = SubSeq(LiveStack, 1, last - 1)
      BY <3>5, <3>6, <3>7, SeqEqual
    <3>9. Ledger!Undo
      BY <1>0, <3>1, <3>2, <3>3, <3>8 DEF Ledger!Undo, Kept, Running, LedgerStack
    <3> QED BY <3>9 DEF Ledger!LedgerNext
  <2> QED BY <2>1, <2>6, <2>7, <2>8, <2>9, <2>10, AddedFactors
<1> QED BY <1>2, <1>3, <1>4

\* A session starts where the ledger may start.
LEMMA LedgerStart == Init => Ledger!LedgerInit
<1> SUFFICES ASSUME Init PROVE Ledger!LedgerInit
  OBVIOUS
<1>1. /\ nkeys = loaded /\ loaded \in 0 .. MaxKeys /\ pc = "idle" /\ manual = <<>>
      /\ swept = FactorsOf(LoadedChain(loaded))
  BY BackendAssumption DEF BackendAssumption, Init
<1>3. swept \ {Poison} = FactorsOf(LoadedChain(loaded))
  <2>1. Poison \notin FactorsOf(LoadedChain(loaded))
    BY DEF FactorsOf, Poison
  <2> QED BY <1>1, <2>1
<1>2. LedgerStack = <<>>
  <2>1. DOMAIN manual = {}
    BY <1>1
  <2> QED BY <2>1 DEF LedgerStack
<1>4. Ledger!FactorsOf(Ledger!LoadedChain(loaded)) = FactorsOf(LoadedChain(loaded))
  BY DEF Ledger!FactorsOf, Ledger!LoadedChain, Ledger!Hole, Ledger!Prior,
         Ledger!Unary, Ledger!Link, Ledger!Make, FactorsOf, LoadedChain, Hole, Prior,
         Unary, Link, Make
<1> QED BY <1>1, <1>2, <1>3, <1>4 DEF Ledger!LedgerInit, LedgerStack

\* The back-end implements the ledger: whatever threw before the poses were
\* swept, was reverted or failed to rebuild, a callback's factors entered
\* together or left no trace.
THEOREM BackendImplementsLedger ==
  ASSUME ~LateThrows, MinStSep > 0 \/ MinRevisitSep > 0
  PROVE  Spec => ImplementsLedger
<1>1. TypeInv /\ StackInv /\ PoseInv => Mapped
  BY MappedHolds
<1>2. TypeInv /\ RoundInv /\ ShapeInv /\ StackInv /\ LoopInv /\ (OfferInv /\ BookInv)
      /\ MapInv /\ TieInv /\ BackInv /\ FixInv /\ Mapped /\ Mapped' /\ [Next]_vars
      => [Ledger!LedgerNext]_(Ledger!ledger)
  BY LedgerStep
<1> QED BY <1>1, <1>2, LedgerStart, TypeInvariant, RoundInvariant, ShapeInvariant,
           StackInvariant, LoopInvariant, BookInvariant, MapFrameInvariant, TieInvariant,
           BackInvariant, FixInvariant, PoseInvariant, PTL
        DEF Spec, ImplementsLedger, Ledger!LedgerSpec
=============================================================================
