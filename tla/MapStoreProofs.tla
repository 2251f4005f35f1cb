--------------------------- MODULE MapStoreProofs ---------------------------
(***************************************************************************)
(* For any number of keyframes, saves, power cuts and damaged copies: the  *)
(* map file is the old map or the new one, the operator is told which, and *)
(* what load_map accepts is what was saved.                                *)
(***************************************************************************)
EXTENDS MapStore, FiniteSetTheorems, SequenceTheorems, WellFoundedInduction, TLAPS

Keyframe == [id : Nat, dense : BOOLEAN]
Map      == Seq(Keyframe) \ {<<>>}
Block    == [kind : {"torn", "none"}] \cup [kind : {"head"}, n : Nat]
            \cup [kind : {"poses", "points"}, of : Keyframe]

----------------------------------------------------------------------------
(* The recursions.                                                         *)

\* Every nonempty set of natural numbers has a least element.
LEMMA LeastOf ==
  ASSUME NEW T \in SUBSET Nat, T # {}
  PROVE  \E m \in T : \A k \in T : m <= k
<1> DEFINE Intervals == {0 .. m : m \in T}
<1>1. \A m \in T : (0 .. m) \in FiniteSubsetsOf(Nat)
  BY FS_Interval DEF FiniteSubsetsOf
<1>2. Intervals \subseteq FiniteSubsetsOf(Nat) /\ Intervals # {}
  BY <1>1
<1>3. PICK x \in Intervals : \A y \in Intervals : ~(<<y, x>> \in StrictSubsetOrdering(Nat))
  BY <1>2, WFMin, FS_StrictSubsetOrderingWellFounded
<1>4. PICK m \in T : x = 0 .. m
  OBVIOUS
<1>5. ASSUME NEW k \in T, k < m PROVE FALSE
  <2>1. 0 .. k \subseteq 0 .. m /\ m \in 0 .. m /\ m \notin 0 .. k
    BY <1>5
  <2>2. <<0 .. k, 0 .. m>> \in StrictSubsetOrdering(Nat)
    BY <2>1 DEF StrictSubsetOrdering
  <2> QED BY <1>3, <1>4, <2>2
<1> QED BY <1>5

\* Induction up to n, for a set in place of a predicate.
LEMMA UpTo ==
  ASSUME NEW n \in Nat, NEW T, 0 \in T, \A k \in 0 .. n - 1 : k \in T => k + 1 \in T
  PROVE  0 .. n \subseteq T
<1> DEFINE Bad == {k \in 0 .. n : k \notin T}
<1>1. ASSUME Bad # {} PROVE FALSE
  <2>1. PICK m \in Bad : \A k \in Bad : m <= k
    <3>1. Bad \in SUBSET Nat
      OBVIOUS
    <3> HIDE DEF Bad
    <3> QED BY <1>1, <3>1, LeastOf
  <2>2. m # 0 /\ m - 1 \in 0 .. n - 1 /\ m - 1 \notin Bad
    BY <2>1
  <2> QED BY <2>2
<1> QED BY <1>1

\* The walk over the keyframes of a file is what its recursion says.
LEMMA StartsUnfold ==
  ASSUME NEW f, f[1].n \in Nat
  PROVE  Starts(f) = [k \in 0 .. f[1].n |->
                        IF k = 0 THEN 2 ELSE After(f, Starts(f)[k - 1])]
<1> DEFINE n == f[1].n
           Step(i, r) == IF i = 0 THEN 2 ELSE After(f, r)
           Walk(g, k) == g = [i \in 0 .. k |-> Step(i, g[i - 1])]
           Good == {k \in 0 .. n : \E g : Walk(g, k)}
<1>1. ASSUME NEW g, NEW k \in 0 .. n - 1, Walk(g, k)
      PROVE  Walk([i \in 0 .. k + 1 |-> Step(i, g[i - 1])], k + 1)
  <2> DEFINE h == [i \in 0 .. k + 1 |-> Step(i, g[i - 1])]
  <2> HIDE DEF Step
  <2>1. \A i \in 0 .. k : h[i] = g[i]
    BY <1>1
  <2> HIDE DEF h
  <2>2. \A i \in 0 .. k + 1 : i > 0 => h[i - 1] = g[i - 1]
    BY <2>1
  <2>3. \A i \in 0 .. k + 1 : Step(i, g[i - 1]) = Step(i, h[i - 1])
    <3>1. \A a, b : Step(0, a) = Step(0, b)
      BY DEF Step
    <3> QED BY <2>2, <3>1
  <2> QED BY <2>3 DEF h
<1>2. \E g : Walk(g, 0)
  <2>1. Walk([i \in 0 .. 0 |-> 2], 0)
    OBVIOUS
  <2> QED BY <2>1
<1>3. 0 .. n \subseteq Good
  <2> HIDE DEF Walk
  <2>1. 0 \in Good
    BY <1>2
  <2>2. ASSUME NEW k \in 0 .. n - 1, k \in Good PROVE k + 1 \in Good
    <3>1. \E g : Walk(g, k + 1)
      BY <1>1, <2>2
    <3> QED BY <3>1
  <2> HIDE DEF Good
  <2> QED BY <2>1, <2>2, UpTo
<1>4. Walk(CHOOSE g : Walk(g, n), n)
  <2> HIDE DEF Walk
  <2>1. n \in Good
    BY <1>3
  <2> QED BY <2>1
<1>5. Starts(f) = CHOOSE g : Walk(g, n)
  BY DEF Starts
<1> QED BY <1>4, <1>5

\* So is the concatenation of segments.
LEMMA FlattenUnfold ==
  ASSUME NEW seqs, Len(seqs) \in Nat \ {0}
  PROVE  \E F : /\ F[1] = seqs[1]
                /\ \A k \in 1 .. Len(seqs) - 1 : F[k + 1] = F[k] \o seqs[k + 1]
                /\ FlattenSeq(seqs) = F[Len(seqs)]
<1> DEFINE n == Len(seqs)
           Step(i, r) == IF i = 1 THEN seqs[i] ELSE r \o seqs[i]
           Flat(g, k) == g = [i \in 1 .. k |-> Step(i, g[i - 1])]
           Good == {k \in 0 .. n : \E g : Flat(g, k)}
<1>1. ASSUME NEW g, NEW k \in 0 .. n - 1, Flat(g, k)
      PROVE  Flat([i \in 1 .. k + 1 |-> Step(i, g[i - 1])], k + 1)
  <2> DEFINE h == [i \in 1 .. k + 1 |-> Step(i, g[i - 1])]
  <2> HIDE DEF Step
  <2>1. \A i \in 1 .. k : h[i] = g[i]
    BY <1>1
  <2> HIDE DEF h
  <2>2. \A i \in 1 .. k + 1 : i > 1 => h[i - 1] = g[i - 1]
    BY <2>1
  <2>3. \A i \in 1 .. k + 1 : Step(i, g[i - 1]) = Step(i, h[i - 1])
    <3>1. \A a, b : Step(1, a) = Step(1, b)
      BY DEF Step
    <3> QED BY <2>2, <3>1
  <2> QED BY <2>3 DEF h
<1>2. \E g : Flat(g, 0)
  OBVIOUS
<1>3. 0 .. n \subseteq Good
  <2> HIDE DEF Flat
  <2>1. 0 \in Good
    BY <1>2
  <2>2. ASSUME NEW k \in 0 .. n - 1, k \in Good PROVE k + 1 \in Good
    <3>1. \E g : Flat(g, k + 1)
      BY <1>1, <2>2
    <3> QED BY <3>1
  <2> HIDE DEF Good
  <2> QED BY <2>1, <2>2, UpTo
<1>4. Flat(CHOOSE g : Flat(g, n), n)
  <2> HIDE DEF Flat
  <2>1. n \in Good
    BY <1>3
  <2> QED BY <2>1
<1>5. FlattenSeq(seqs) = (CHOOSE g : Flat(g, n))[n]
  BY DEF FlattenSeq
<1>6. PICK F : Flat(F, n) /\ FlattenSeq(seqs) = F[n]
  BY <1>4, <1>5
<1>7. F[1] = seqs[1] /\ \A k \in 1 .. n - 1 : F[k + 1] = F[k] \o seqs[k + 1]
  <2>1. \A i \in 1 .. n : F[i] = Step(i, F[i - 1])
    <3> HIDE DEF Step
    <3> QED BY <1>6
  <2>2. F[1] = seqs[1]
    BY <2>1
  <2>3. ASSUME NEW k \in 1 .. n - 1 PROVE F[k + 1] = F[k] \o seqs[k + 1]
    <3>1. k + 1 \in 1 .. n /\ k + 1 # 1 /\ (k + 1) - 1 = k
      OBVIOUS
    <3>2. F[k + 1] = Step(k + 1, F[k])
      <4> HIDE DEF Step
      <4> QED BY <2>1, <3>1
    <3> QED BY <3>1, <3>2
  <2> QED BY <2>2, <2>3
<1> QED BY <1>6, <1>7
----------------------------------------------------------------------------
(* The format.                                                             *)

PosesOf(kf)  == [kind |-> "poses", of |-> kf]
PointsOf(kf) == [kind |-> "points", of |-> kf]
Segment(kf)  == <<PosesOf(kf)>> \o IF kf.dense THEN <<PointsOf(kf)>> ELSE <<>>
Width(kf)    == IF kf.dense THEN 2 ELSE 1

\* Keyframe k of map is found in blocks, after those of the ones before it.
Lies(map, blocks, ends, k) ==
  /\ ends[k] = ends[k - 1] + Width(map[k]) /\ ends[k] <= Len(blocks)
  /\ blocks[ends[k - 1] + 1] = PosesOf(map[k])
  /\ map[k].dense => blocks[ends[k - 1] + 2] = PointsOf(map[k])

\* What a concatenation is made of.
LEMMA Joined ==
  ASSUME NEW S, NEW s \in Seq(S), NEW t \in Seq(S)
  PROVE  /\ s \o t \in Seq(S) /\ Len(s \o t) = Len(s) + Len(t)
         /\ \A i \in 1 .. Len(s) : (s \o t)[i] = s[i]
         /\ \A i \in 1 .. Len(t) : (s \o t)[Len(s) + i] = t[i]
<1>1. \A i \in 1 .. Len(s) + Len(t) : (s \o t)[i] = IF i <= Len(s) THEN s[i] ELSE t[i - Len(s)]
  OBVIOUS
<1>2. \A i \in 1 .. Len(t) : Len(s) + i \in 1 .. Len(s) + Len(t) /\ Len(s) + i - Len(s) = i
  OBVIOUS
<1> QED BY <1>1, <1>2

LEMMA SegmentShape ==
  ASSUME NEW kf \in Keyframe
  PROVE  /\ Segment(kf) \in Seq(Block) /\ Len(Segment(kf)) = Width(kf)
         /\ Segment(kf)[1] = PosesOf(kf)
         /\ kf.dense => Segment(kf)[2] = PointsOf(kf)
<1>1. PosesOf(kf) \in Block /\ PointsOf(kf) \in Block
  BY DEF PosesOf, PointsOf, Block
<1>2. CASE kf.dense
  <2> DEFINE s == <<PosesOf(kf)>>
             t == <<PointsOf(kf)>>
  <2>1. Segment(kf) = s \o t
    BY <1>2 DEF Segment
  <2>2. s \in Seq(Block) /\ t \in Seq(Block) /\ Len(s) = 1 /\ Len(t) = 1
        /\ s[1] = PosesOf(kf) /\ t[1] = PointsOf(kf)
    BY <1>1
  <2> HIDE DEF s, t
  <2> QED BY <1>2, <2>1, <2>2, Joined DEF Width
<1>3. CASE ~kf.dense
  <2>1. Segment(kf) = <<PosesOf(kf)>>
    BY <1>3 DEF Segment
  <2> QED BY <1>1, <1>3, <2>1 DEF Width
<1> QED BY <1>2, <1>3

\* The keyframes of a map lie one after the other.
LEMMA BodyShape ==
  ASSUME NEW map \in Map
  PROVE  \E blocks \in Seq(Block), ends \in [0 .. Len(map) -> Nat] :
           /\ blocks = FlattenSeq([k \in DOMAIN map |-> Segment(map[k])])
           /\ ends[0] = 0 /\ ends[Len(map)] = Len(blocks)
           /\ \A k \in 1 .. Len(map) : Lies(map, blocks, ends, k)
<1> DEFINE n    == Len(map)
           seqs == [k \in DOMAIN map |-> Segment(map[k])]
<1>1. n \in Nat \ {0} /\ DOMAIN map = 1 .. n /\ \A k \in 1 .. n : map[k] \in Keyframe
  BY DEF Map
<1>2. Len(seqs) = n
  <2>1. \A k \in 1 .. n : Segment(map[k]) \in Seq(Block)
    BY <1>1, SegmentShape
  <2>2. seqs \in Seq(Seq(Block))
    BY <1>1, <2>1
  <2> QED BY <1>1, <2>2
<1>0. \A k \in 1 .. n : seqs[k] = Segment(map[k])
  BY <1>1
<1> HIDE DEF seqs
<1>3. PICK F : /\ F[1] = seqs[1]
               /\ \A k \in 1 .. n - 1 : F[k + 1] = F[k] \o seqs[k + 1]
               /\ FlattenSeq(seqs) = F[n]
  BY <1>1, <1>2, FlattenUnfold
<1> DEFINE ends == [k \in 0 .. n |-> IF k = 0 THEN 0 ELSE Len(F[k])]
           Good == {k \in 0 .. n : k # 0 =>
                      /\ F[k] \in Seq(Block)
                      /\ \A j \in 1 .. k : Lies(map, F[k], ends, j)}
<1>4. ASSUME NEW k \in 0 .. n - 1, k \in Good PROVE k + 1 \in Good
  <2> DEFINE kf == map[k + 1]
  <2>1. /\ kf \in Keyframe /\ Segment(kf) \in Seq(Block)
        /\ Len(Segment(kf)) = Width(kf) /\ Width(kf) \in 1 .. 2
        /\ Segment(kf)[1] = PosesOf(kf)
        /\ kf.dense => Width(kf) = 2 /\ Segment(kf)[2] = PointsOf(kf)
    <3>1. k + 1 \in 1 .. n
      BY <1>1
    <3>2. kf \in Keyframe
      BY <1>1, <3>1
    <3> HIDE DEF kf
    <3>3. Width(kf) \in 1 .. 2 /\ (kf.dense => Width(kf) = 2)
      BY DEF Width
    <3> QED BY <3>2, <3>3, SegmentShape
  <2>2. CASE k = 0
    <3>1. F[1] = Segment(kf)
      BY <1>0, <1>1, <1>3, <2>2
    <3>2. ends[0] = 0 /\ ends[1] = Len(F[1])
      BY <1>1
    <3>3. Lies(map, F[1], ends, 1)
      BY <2>1, <2>2, <3>1, <3>2 DEF Lies
    <3> QED BY <1>1, <2>1, <2>2, <3>1, <3>3
  <2>3. CASE k # 0
    <3>1. F[k + 1] = F[k] \o Segment(kf)
      <4>1. k \in 1 .. n - 1 /\ k + 1 \in 1 .. n
        BY <1>1, <2>3
      <4> QED BY <1>0, <1>3, <4>1
    <3>2. F[k] \in Seq(Block) /\ \A j \in 1 .. k : Lies(map, F[k], ends, j)
      BY <1>4, <2>3
    <3>3. /\ F[k + 1] \in Seq(Block) /\ Len(F[k + 1]) = Len(F[k]) + Width(kf)
          /\ \A i \in 1 .. Len(F[k]) : F[k + 1][i] = F[k][i]
          /\ F[k + 1][Len(F[k]) + 1] = PosesOf(kf)
          /\ kf.dense => F[k + 1][Len(F[k]) + 2] = PointsOf(kf)
      <4> HIDE DEF kf
      <4>1. /\ F[k + 1] \in Seq(Block) /\ Len(F[k + 1]) = Len(F[k]) + Width(kf)
            /\ \A i \in 1 .. Len(F[k]) : F[k + 1][i] = F[k][i]
            /\ \A i \in 1 .. Width(kf) : F[k + 1][Len(F[k]) + i] = Segment(kf)[i]
        BY <2>1, <3>1, <3>2, Joined
      <4>2. 1 \in 1 .. Width(kf) /\ (kf.dense => 2 \in 1 .. Width(kf))
        BY <2>1
      <4> QED BY <2>1, <4>1, <4>2
    <3>4. \A j \in 0 .. n : ends[j] = IF j = 0 THEN 0 ELSE Len(F[j])
      OBVIOUS
    <3>5. ends[k] = Len(F[k]) /\ ends[k + 1] = Len(F[k + 1])
      BY <1>1, <2>3
    <3> HIDE DEF ends
    <3>6. ASSUME NEW j \in 1 .. k, ends[j - 1] \in Nat PROVE Lies(map, F[k + 1], ends, j)
      <4> HIDE DEF kf
      <4>1. Len(F[k]) \in Nat /\ Lies(map, F[k], ends, j)
        BY <3>2
      <4>2. /\ ends[j] = ends[j - 1] + Width(map[j]) /\ ends[j] <= Len(F[k])
            /\ Width(map[j]) = IF map[j].dense THEN 2 ELSE 1
        BY <4>1 DEF Lies, Width
      <4>3. /\ ends[j - 1] + 1 \in 1 .. Len(F[k]) /\ ends[j] <= Len(F[k + 1])
            /\ map[j].dense => ends[j - 1] + 2 \in 1 .. Len(F[k])
        <5>1. Len(F[k + 1]) \in Nat /\ Len(F[k]) <= Len(F[k + 1])
          BY <2>1, <3>3, <4>1
        <5>2. CASE map[j].dense
          <6>1. ends[j] = ends[j - 1] + 2 /\ ends[j] <= Len(F[k])
            BY <4>2, <5>2
          <6> DEFINE e == ends[j - 1]
          <6>2. e \in Nat /\ ends[j] = e + 2
            BY <3>6, <6>1
          <6> HIDE DEF e
          <6>3. e + 1 \in 1 .. Len(F[k]) /\ e + 2 \in 1 .. Len(F[k]) /\ ends[j] <= Len(F[k + 1])
            BY <4>1, <5>1, <6>1, <6>2
          <6> QED BY <6>3 DEF e
        <5>3. CASE ~map[j].dense
          <6>1. ends[j] = ends[j - 1] + 1 /\ ends[j] <= Len(F[k])
            BY <4>2, <5>3
          <6> QED BY <3>6, <4>1, <5>1, <5>3, <6>1
        <5> QED BY <5>2, <5>3
      <4> QED BY <3>3, <4>1, <4>3 DEF Lies
    <3>7. \A j \in 0 .. k : ends[j] \in Nat
      <4> DEFINE T == {j \in 0 .. k : ends[j] \in Nat}
      <4>1. 0 \in T
        BY <3>4, <1>1
      <4>2. ASSUME NEW j \in 0 .. k - 1, j \in T PROVE j + 1 \in T
        <5>1. j + 1 \in 1 .. k /\ (j + 1) - 1 = j
          OBVIOUS
        <5> QED BY <3>2, <4>2, <5>1 DEF Lies, Width
      <4> HIDE DEF T
      <4>3. 0 .. k \subseteq T
        BY <4>1, <4>2, UpTo
      <4> QED BY <4>3 DEF T
    <3>8. Lies(map, F[k + 1], ends, k + 1)
      <4>1. (k + 1) - 1 = k /\ Len(F[k + 1]) \in Nat
        BY <3>3
      <4> QED BY <2>1, <3>3, <3>5, <4>1 DEF Lies
    <3>9. \A j \in 1 .. k + 1 : Lies(map, F[k + 1], ends, j)
      BY <3>6, <3>7, <3>8
    <3> QED BY <1>1, <3>3, <3>9
  <2> QED BY <2>2, <2>3
<1>5. 0 .. n \subseteq Good
  <2>1. 0 \in Good
    BY <1>1
  <2> HIDE DEF Good
  <2> QED BY <1>1, <1>4, <2>1, UpTo
<1>6. F[n] \in Seq(Block) /\ \A j \in 1 .. n : Lies(map, F[n], ends, j)
  BY <1>1, <1>5
<1>7. ends \in [0 .. n -> Nat]
  <2>1. \A k \in 1 .. n : F[k] \in Seq(Block)
    BY <1>5
  <2>2. \A k \in 1 .. n : Len(F[k]) \in Nat
    BY <2>1
  <2> QED BY <2>2
<1>8. ends[0] = 0 /\ ends[n] = Len(F[n])
  BY <1>1
<1> HIDE DEF ends
<1> QED BY <1>3, <1>6, <1>7, <1>8 DEF seqs

\* A map file is its header and the keyframes, one after the other.
LEMMA BlocksShape ==
  ASSUME NEW map \in Map
  PROVE  \E ends \in [0 .. Len(map) -> Nat] :
           /\ Blocks(map) \in Seq(Block) /\ ends[0] = 1
           /\ Blocks(map)[1] = [kind |-> "head", n |-> Len(map)]
           /\ ends[Len(map)] = Len(Blocks(map))
           /\ \A k \in 1 .. Len(map) : Lies(map, Blocks(map), ends, k)
<1> DEFINE n    == Len(map)
           head == <<[kind |-> "head", n |-> n]>>
<1>1. n \in Nat \ {0} /\ \A k \in 1 .. n : map[k] \in Keyframe
  BY DEF Map
<1>2. PICK body \in Seq(Block), below \in [0 .. n -> Nat] :
        /\ body = FlattenSeq([k \in DOMAIN map |-> Segment(map[k])])
        /\ below[0] = 0 /\ below[n] = Len(body)
        /\ \A k \in 1 .. n : Lies(map, body, below, k)
  BY BodyShape
<1>3. Blocks(map) = head \o body
  BY <1>2 DEF Blocks, Segment, PosesOf, PointsOf
<1>4. head \in Seq(Block) /\ Len(head) = 1 /\ head[1] = [kind |-> "head", n |-> n]
  BY <1>1 DEF Block
<1> HIDE DEF head
<1>5. /\ Blocks(map) \in Seq(Block) /\ Len(Blocks(map)) = 1 + Len(body)
      /\ Blocks(map)[1] = [kind |-> "head", n |-> n]
      /\ \A i \in 1 .. Len(body) : Blocks(map)[1 + i] = body[i]
  BY <1>3, <1>4, Joined
<1> DEFINE ends == [k \in 0 .. n |-> below[k] + 1]
<1>6. ASSUME NEW k \in 1 .. n PROVE Lies(map, Blocks(map), ends, k)
  <2> DEFINE e == below[k - 1]
  <2>1. /\ k - 1 \in 0 .. n /\ e \in Nat /\ below[k] \in Nat /\ Len(body) \in Nat
        /\ ends[k] = below[k] + 1 /\ ends[k - 1] = e + 1
    <3>1. k \in 0 .. n /\ k - 1 \in 0 .. n /\ Len(body) \in Nat
      BY <1>1, <1>2
    <3> QED BY <1>2, <3>1
  <2>2. /\ below[k] = e + Width(map[k]) /\ below[k] <= Len(body)
        /\ body[e + 1] = PosesOf(map[k])
        /\ map[k].dense => body[e + 2] = PointsOf(map[k])
    BY <1>2 DEF Lies
  <2> HIDE DEF e, ends
  <2>3. CASE map[k].dense
    <3>1. Width(map[k]) = 2
      BY <2>3 DEF Width
    <3>2. e + 1 \in 1 .. Len(body) /\ e + 2 \in 1 .. Len(body)
      BY <2>1, <2>2, <3>1
    <3>3. /\ ends[k] = ends[k - 1] + Width(map[k]) /\ ends[k] <= Len(Blocks(map))
          /\ ends[k - 1] + 1 = 1 + (e + 1) /\ ends[k - 1] + 2 = 1 + (e + 2)
      BY <1>5, <2>1, <2>2, <3>1
    <3> QED BY <1>5, <2>2, <2>3, <3>2, <3>3 DEF Lies
  <2>4. CASE ~map[k].dense
    <3>1. Width(map[k]) = 1
      BY <2>4 DEF Width
    <3>2. e + 1 \in 1 .. Len(body)
      BY <2>1, <2>2, <3>1
    <3>3. /\ ends[k] = ends[k - 1] + Width(map[k]) /\ ends[k] <= Len(Blocks(map))
          /\ ends[k - 1] + 1 = 1 + (e + 1)
      BY <1>5, <2>1, <2>2, <3>1
    <3> QED BY <1>5, <2>2, <2>4, <3>2, <3>3 DEF Lies
  <2> QED BY <2>3, <2>4
<1>7. ends \in [0 .. n -> Nat] /\ ends[0] = 1 /\ ends[n] = Len(Blocks(map))
  BY <1>1, <1>2, <1>5
<1> HIDE DEF ends
<1> QED BY <1>5, <1>6, <1>7

\* f begins like the file of map, for m blocks, and goes on otherwise or not
\* at all.
BeginsLike(f, map, m) ==
  /\ m \in 1 .. Len(f) /\ m <= Len(Blocks(map))
  /\ \A i \in 1 .. m : f[i] = Blocks(map)[i]
  /\ m < Len(f) => f[m + 1].kind \in {"torn", "head"}

\* A keyframe ends behind its poses, or behind its points if it has them.
LEMMA AfterCases ==
  ASSUME NEW f, NEW i
  PROVE  /\ ~Has(f, i, "poses") => After(f, i) = 0
         /\ Has(f, i, "poses") /\ ~f[i].of.dense => After(f, i) = i + 1
         /\ Has(f, i, "poses") /\ f[i].of.dense /\ Has(f, i + 1, "points") =>
              After(f, i) = i + 2
         /\ Has(f, i, "poses") /\ f[i].of.dense /\ ~Has(f, i + 1, "points") =>
              After(f, i) = 0
BY DEF After

\* The walk over such a file goes where the keyframes of map are, or breaks
\* off; if the file is whole it does not break off.
LEMMA WalkAlong ==
  ASSUME NEW f \in Seq(Block), NEW map \in Map, NEW m, BeginsLike(f, map, m)
  PROVE  /\ Has(f, 1, "head") /\ f[1].n = Len(map)
         /\ Starts(f)[Len(map)] \in {0, Len(Blocks(map)) + 1}
         /\ Starts(f)[Len(map)] # 0 => m = Len(Blocks(map))
         /\ f = Blocks(map) => /\ Starts(f)[Len(map)] = Len(f) + 1
                               /\ \A k \in 1 .. Len(map) : f[Starts(f)[k - 1]].of = map[k]
<1> DEFINE n  == Len(map)
           at == Starts(f)
<1>1. n \in Nat \ {0} /\ \A k \in 1 .. n : map[k] \in Keyframe
  BY DEF Map
<1>2. PICK ends \in [0 .. n -> Nat] :
           /\ Blocks(map) \in Seq(Block) /\ ends[0] = 1
           /\ Blocks(map)[1] = [kind |-> "head", n |-> n]
           /\ ends[n] = Len(Blocks(map))
           /\ \A k \in 1 .. n : Lies(map, Blocks(map), ends, k)
  BY BlocksShape
<1>3. f[1] = [kind |-> "head", n |-> n] /\ Has(f, 1, "head") /\ f[1].n = n
  BY <1>2 DEF BeginsLike, Has
<1>4. at = [k \in 0 .. n |-> IF k = 0 THEN 2 ELSE After(f, at[k - 1])]
  BY <1>1, <1>3, StartsUnfold
<1> HIDE DEF at
<1>5. at[0] = 2 /\ \A k \in 0 .. n - 1 : at[k + 1] = After(f, at[k])
  <2>1. at[0] = 2
    BY <1>1, <1>4
  <2>2. ASSUME NEW k \in 0 .. n - 1 PROVE at[k + 1] = After(f, at[k])
    <3>1. k + 1 \in 0 .. n /\ k + 1 # 0 /\ (k + 1) - 1 = k
      OBVIOUS
    <3> QED BY <1>4, <3>1
  <2> QED BY <2>1, <2>2
<1>6. m \in Nat /\ Len(f) \in Nat /\ m <= Len(f) /\ Len(Blocks(map)) \in Nat
      /\ DOMAIN f = 1 .. Len(f)
  BY <1>2 DEF BeginsLike
<1> DEFINE Good == {k \in 0 .. n :
                      /\ at[k] = 0 \/ (at[k] = ends[k] + 1 /\ ends[k] <= m)
                      /\ f = Blocks(map) => at[k] = ends[k] + 1}
<1>7. 0 \in Good
  BY <1>1, <1>2, <1>5 DEF BeginsLike
<1>8. ASSUME NEW k \in 0 .. n - 1, k \in Good PROVE k + 1 \in Good
  <2> DEFINE e  == ends[k]
             kf == map[k + 1]
  <2>1. k + 1 \in 1 .. n /\ k \in 0 .. n /\ (k + 1) - 1 = k /\ k + 1 \in 0 .. n
    BY <1>1
  <2>2. e \in Nat /\ ends[k + 1] \in Nat /\ kf \in Keyframe
    BY <1>1, <1>2, <2>1
  <2>3. /\ ends[k + 1] = e + Width(kf) /\ ends[k + 1] <= Len(Blocks(map))
        /\ Blocks(map)[e + 1] = PosesOf(kf)
        /\ kf.dense => Blocks(map)[e + 2] = PointsOf(kf)
    BY <1>2, <2>1 DEF Lies
  <2>4. at[k + 1] = After(f, at[k])
    BY <1>5
  <2> HIDE DEF e, kf
  <2>5. CASE at[k] = 0
    <3>1. After(f, 0) = 0
      <4>1. ~Has(f, 0, "poses")
        BY <1>6 DEF Has
      <4> QED BY <4>1, AfterCases
    <3>2. f # Blocks(map)
      BY <1>8, <2>2, <2>5 DEF e
    <3> QED BY <2>1, <2>4, <2>5, <3>1, <3>2
  <2>6. CASE at[k] = e + 1 /\ e <= m
    <3>1. ASSUME NEW i \in Nat, i \in DOMAIN f, f[i].kind \in {"poses", "points"}, i <= m + 1
          PROVE  i \in 1 .. m /\ f[i] = Blocks(map)[i]
      BY <1>6, <3>1 DEF BeginsLike
    <3>2. PosesOf(kf).of = kf
      BY DEF PosesOf
    <3>3. CASE ~Has(f, e + 1, "poses")
      <4>1. After(f, e + 1) = 0
        BY <3>3, AfterCases
      <4>2. f # Blocks(map)
        <5>1. e + 1 \in 1 .. Len(Blocks(map))
          BY <1>6, <2>2, <2>3 DEF Width
        <5> QED BY <1>6, <2>3, <3>3, <5>1 DEF Has, PosesOf
      <4> QED BY <2>1, <2>4, <2>6, <4>1, <4>2
    <3>4. CASE Has(f, e + 1, "poses")
      <4>1. e + 1 \in 1 .. m /\ f[e + 1] = PosesOf(kf) /\ f[e + 1].of = kf
        <5>1. e + 1 \in Nat /\ e + 1 <= m + 1 /\ e + 1 \in DOMAIN f /\ f[e + 1].kind = "poses"
          BY <1>6, <2>2, <2>6, <3>4 DEF Has
        <5>2. e + 1 \in 1 .. m /\ f[e + 1] = Blocks(map)[e + 1]
          BY <3>1, <5>1
        <5> QED BY <2>3, <3>2, <5>2
      <4>2. CASE ~kf.dense
        <5>1. After(f, e + 1) = e + 2
          BY <2>2, <3>4, <4>1, <4>2, AfterCases
        <5>2. ends[k + 1] = e + 1
          BY <2>3, <4>2 DEF Width
        <5> QED BY <2>1, <2>2, <2>4, <2>6, <4>1, <5>1, <5>2
      <4>3. CASE kf.dense
        <5>0. (e + 1) + 1 = e + 2 /\ (e + 1) + 2 = e + 3
          BY <2>2
        <5>1. ends[k + 1] = e + 2
          BY <2>3, <4>3 DEF Width
        <5>2. CASE ~Has(f, e + 2, "points")
          <6>1. After(f, e + 1) = 0
            BY <2>2, <3>4, <4>1, <4>3, <5>2, <5>0, AfterCases
          <6>2. f # Blocks(map)
            <7>1. e + 2 \in 1 .. Len(Blocks(map))
              BY <1>6, <2>2, <2>3, <5>1
            <7> QED BY <1>6, <2>3, <4>3, <5>2, <7>1 DEF Has, PointsOf
          <6> QED BY <2>1, <2>4, <2>6, <6>1, <6>2
        <5>3. CASE Has(f, e + 2, "points")
          <6>1. After(f, e + 1) = e + 3
            BY <2>2, <3>4, <4>1, <4>3, <5>3, <5>0, AfterCases
          <6>2. e + 2 \in 1 .. m
            BY <1>6, <2>2, <3>1, <4>1, <5>3 DEF Has
          <6> QED BY <2>1, <2>2, <2>4, <2>6, <5>1, <6>1, <6>2
        <5> QED BY <5>2, <5>3
      <4> QED BY <4>2, <4>3
    <3> QED BY <3>3, <3>4
  <2> QED BY <1>8, <2>5, <2>6 DEF e
<1>9. 0 .. n \subseteq Good
  <2> HIDE DEF Good
  <2> QED BY <1>1, <1>7, <1>8, UpTo
<1>10. \A k \in 0 .. n : /\ at[k] = 0 \/ (at[k] = ends[k] + 1 /\ ends[k] <= m)
                         /\ f = Blocks(map) => at[k] = ends[k] + 1
  BY <1>9
<1>11. at[n] \in {0, Len(Blocks(map)) + 1} /\ (at[n] # 0 => m = Len(Blocks(map)))
  <2>1. n \in 0 .. n /\ n \in Nat
    BY <1>1
  <2>2. at[n] = 0 \/ (at[n] = ends[n] + 1 /\ ends[n] <= m)
    BY <1>10, <2>1
  <2>3. ends[n] = Len(Blocks(map)) /\ m <= Len(Blocks(map))
    BY <1>2 DEF BeginsLike
  <2> QED BY <1>6, <2>2, <2>3
<1>12. ASSUME f = Blocks(map)
       PROVE  at[n] = Len(f) + 1 /\ \A k \in 1 .. n : f[at[k - 1]].of = map[k]
  <2>1. ASSUME NEW k \in 1 .. n PROVE f[at[k - 1]].of = map[k]
    <3>1. k - 1 \in 0 .. n /\ at[k - 1] = ends[k - 1] + 1
      <4>1. k - 1 \in 0 .. n
        BY <1>1
      <4> QED BY <1>10, <1>12, <4>1
    <3>2. f[ends[k - 1] + 1] = PosesOf(map[k])
      BY <1>2, <1>12 DEF Lies
    <3> QED BY <3>1, <3>2 DEF PosesOf
  <2>2. n \in 0 .. n
    BY <1>1
  <2>3. at[n] = Len(f) + 1
    BY <1>2, <1>10, <1>12, <2>2
  <2> QED BY <2>1, <2>3
<1> QED BY <1>3, <1>11, <1>12 DEF at

----------------------------------------------------------------------------
(* What a file may be, whatever has become of it: the beginning of a map   *)
(* that was saved, and then nothing, a torn block or another map; or       *)
(* nothing from the start.                                                 *)

Shaped(f, maps) ==
  \/ f = <<>> \/ f[1].kind \in {"torn", "none"}
  \/ \E map \in maps : \E m \in 1 .. Len(f) : BeginsLike(f, map, m)

LEMMA BlocksBegin ==
  ASSUME NEW map \in Map
  PROVE  /\ Blocks(map) \in Seq(Block) /\ Blocks(map)[1].kind = "head"
         /\ BeginsLike(Blocks(map), map, Len(Blocks(map)))
<1>1. /\ Blocks(map) \in Seq(Block) /\ Len(Blocks(map)) \in Nat \ {0}
      /\ Blocks(map)[1].kind = "head"
  <2>1. PICK ends \in [0 .. Len(map) -> Nat] :
           /\ Blocks(map) \in Seq(Block) /\ ends[0] = 1
           /\ Blocks(map)[1] = [kind |-> "head", n |-> Len(map)]
           /\ ends[Len(map)] = Len(Blocks(map))
           /\ \A k \in 1 .. Len(map) : Lies(map, Blocks(map), ends, k)
    BY BlocksShape
  <2>2. Len(map) \in 1 .. Len(map) /\ Len(map) - 1 \in 0 .. Len(map)
    BY DEF Map
  <2>3. ends[Len(map) - 1] \in Nat
    BY <2>1, <2>2
  <2>4. Len(Blocks(map)) = ends[Len(map) - 1] + Width(map[Len(map)])
    BY <2>1, <2>2 DEF Lies
  <2>5. Width(map[Len(map)]) \in 1 .. 2
    BY DEF Width
  <2> QED BY <2>1, <2>3, <2>4, <2>5
<1> QED BY <1>1 DEF BeginsLike

LEMMA CutKeepsShape ==
  ASSUME NEW f \in Seq(Block), NEW maps \in SUBSET Map, Shaped(f, maps),
         NEW g \in Cut(f)
  PROVE  g \in Seq(Block) /\ Shaped(g, maps)
<1>1. Torn \in Block /\ Torn.kind = "torn"
  BY DEF Torn, Block
<1>2. PICK n \in 0 .. Len(f) - 1 : g = SubSeq(f, 1, n) \/ g = Append(SubSeq(f, 1, n), Torn)
  BY DEF Cut
<1> DEFINE s == SubSeq(f, 1, n)
<1>3. s \in Seq(Block) /\ Len(s) = n /\ \A i \in 1 .. n : s[i] = f[i]
  OBVIOUS
<1> HIDE DEF s
<1>4. /\ g \in Seq(Block) /\ Len(g) \in {n, n + 1} /\ \A i \in 1 .. n : g[i] = f[i]
      /\ Len(g) = n + 1 => g[n + 1].kind = "torn"
  <2>1. CASE g = s
    BY <1>3, <2>1
  <2>2. CASE g = Append(s, Torn)
    <3>1. g \in Seq(Block) /\ Len(g) = n + 1 /\ g[n + 1] = Torn /\ \A i \in 1 .. n : g[i] = s[i]
      BY <1>1, <1>3, <2>2
    <3> QED BY <1>1, <1>3, <3>1
  <2> QED BY <1>2, <2>1, <2>2 DEF s
<1>5. CASE n = 0
  <2>1. g = <<>> \/ g[1].kind = "torn"
    BY <1>4, <1>5
  <2> QED BY <1>4, <2>1 DEF Shaped
<1>6. CASE n # 0 /\ f[1].kind \in {"torn", "none"}
  <2>1. g[1] = f[1]
    BY <1>4, <1>6
  <2> QED BY <1>4, <1>6, <2>1 DEF Shaped
<1>7. CASE n # 0 /\ \E map \in maps : \E m \in 1 .. Len(f) : BeginsLike(f, map, m)
  <2>1. PICK map \in maps, m \in 1 .. Len(f) : BeginsLike(f, map, m)
    BY <1>7
  <2>2. Len(f) \in Nat /\ Len(g) \in Nat /\ n \in 1 .. Len(f) - 1
    BY <1>4, <1>7
  <2>3. CASE m <= n
    <3>1. m < Len(g) => g[m + 1].kind \in {"torn", "head"}
      <4>1. CASE m < n
        <5>1. m + 1 \in 1 .. n /\ m < Len(f)
          BY <2>2, <4>1
        <5> QED BY <1>4, <2>1, <5>1 DEF BeginsLike
      <4>2. CASE m = n
        BY <1>4, <2>2, <4>2
      <4> QED BY <2>2, <2>3, <4>1, <4>2
    <3>2. m \in 1 .. Len(g) /\ \A i \in 1 .. m : g[i] = f[i]
      BY <1>4, <2>2, <2>3
    <3>3. BeginsLike(g, map, m)
      BY <2>1, <3>1, <3>2 DEF BeginsLike
    <3> QED BY <1>4, <3>2, <3>3 DEF Shaped
  <2>4. CASE n < m
    <3>1. /\ n \in 1 .. Len(g) /\ n <= Len(Blocks(map))
          /\ \A i \in 1 .. n : g[i] = Blocks(map)[i]
      <4>1. Len(Blocks(map)) \in Nat
        BY BlocksBegin DEF BeginsLike
      <4>2. 1 .. n \subseteq 1 .. m /\ n <= Len(Blocks(map))
        BY <2>1, <2>2, <2>4, <4>1 DEF BeginsLike
      <4> QED BY <1>4, <2>1, <2>2, <4>2 DEF BeginsLike
    <3>2. BeginsLike(g, map, n)
      BY <1>4, <2>2, <3>1 DEF BeginsLike
    <3> QED BY <1>4, <3>1, <3>2 DEF Shaped
  <2> QED BY <2>2, <2>3, <2>4
<1>8. n # 0 => f # <<>>
  BY <1>2
<1> QED BY <1>5, <1>6, <1>7, <1>8 DEF Shaped

LEMMA BehindKeepsShape ==
  ASSUME NEW f \in Seq(Block), NEW maps \in SUBSET Map, Shaped(f, maps),
         NEW other \in maps
  PROVE  f \o Blocks(other) \in Seq(Block) /\ Shaped(f \o Blocks(other), maps)
<1> DEFINE g == f \o Blocks(other)
<1>1. /\ Blocks(other) \in Seq(Block) /\ Len(Blocks(other)) \in Nat \ {0}
      /\ Blocks(other)[1].kind = "head"
  <2>1. other \in Map
    OBVIOUS
  <2>2. Len(Blocks(other)) \in 1 .. Len(Blocks(other))
    BY <2>1, BlocksBegin DEF BeginsLike
  <2> QED BY <2>1, <2>2, BlocksBegin
<1>2. /\ g \in Seq(Block) /\ Len(g) = Len(f) + Len(Blocks(other))
      /\ \A i \in 1 .. Len(f) : g[i] = f[i]
      /\ g[Len(f) + 1].kind = "head"
  <2>1. /\ g \in Seq(Block) /\ Len(g) = Len(f) + Len(Blocks(other))
        /\ \A i \in 1 .. Len(f) : g[i] = f[i]
        /\ \A i \in 1 .. Len(Blocks(other)) : g[Len(f) + i] = Blocks(other)[i]
    BY <1>1, Joined
  <2>2. 1 \in 1 .. Len(Blocks(other))
    BY <1>1
  <2> QED BY <1>1, <2>1, <2>2
<1>3. CASE f = <<>>
  <2>1. g = Blocks(other)
    BY <1>1, <1>3
  <2>2. Len(g) \in 1 .. Len(g)
    BY <1>1, <2>1
  <2> QED BY <1>2, <2>1, <2>2, BlocksBegin DEF Shaped
<1>4. CASE f # <<>> /\ f[1].kind \in {"torn", "none"}
  <2>1. g[1] = f[1]
    BY <1>2, <1>4
  <2> QED BY <1>2, <1>4, <2>1 DEF Shaped
<1> HIDE DEF g
<1>5. CASE \E map \in maps : \E m \in 1 .. Len(f) : BeginsLike(f, map, m)
  <2>1. PICK map \in maps, m \in 1 .. Len(f) : BeginsLike(f, map, m)
    BY <1>5
  <2>2. Len(f) \in Nat /\ m \in 1 .. Len(g) /\ \A i \in 1 .. m : g[i] = f[i]
    BY <1>1, <1>2
  <2>3. m < Len(g) => g[m + 1].kind \in {"torn", "head"}
    <3>1. CASE m < Len(f)
      BY <1>2, <2>1, <2>2, <3>1 DEF BeginsLike
    <3>2. CASE m = Len(f)
      BY <1>2, <3>2
    <3> QED BY <2>2, <3>1, <3>2
  <2>4. BeginsLike(g, map, m)
    BY <2>1, <2>2, <2>3 DEF BeginsLike
  <2> QED BY <1>2, <2>2, <2>4 DEF Shaped, g
<1> QED BY <1>3, <1>4, <1>5 DEF Shaped, g

\* A file of that shape is accepted if and only if it is the whole of a map.
LEMMA ReadsBack ==
  ASSUME NEW f \in Seq(Block), NEW maps \in SUBSET Map, Shaped(f, maps)
  PROVE  Readable(f) <=> \E map \in maps : f = Blocks(map) /\ Contents(f) = map
<1>1. ASSUME Readable(f)
      PROVE  \E map \in maps : f = Blocks(map) /\ Contents(f) = map
  <2>1. f # <<>> /\ f[1].kind = "head" /\ Starts(f)[f[1].n] = Len(f) + 1
    BY <1>1 DEF Readable, Has
  <2>2. PICK map \in maps, m \in 1 .. Len(f) : BeginsLike(f, map, m)
    BY <2>1 DEF Shaped
  <2>3. /\ f[1].n = Len(map) /\ Starts(f)[Len(map)] \in {0, Len(Blocks(map)) + 1}
        /\ Starts(f)[Len(map)] # 0 => m = Len(Blocks(map))
        /\ f = Blocks(map) => \A k \in 1 .. Len(map) : f[Starts(f)[k - 1]].of = map[k]
    BY <2>2, WalkAlong
  <2>4. Blocks(map) \in Seq(Block)
    BY BlocksShape
  <2>5. Len(f) = Len(Blocks(map)) /\ m = Len(f)
    BY <2>1, <2>3, <2>4
  <2>6. f = Blocks(map)
    <3>1. \A i \in 1 .. Len(f) : f[i] = Blocks(map)[i]
      BY <2>2, <2>5 DEF BeginsLike
    <3> QED BY <2>4, <2>5, <3>1
  <2>7. Contents(f) = map
    <3>1. map \in Seq(Keyframe)
      BY DEF Map
    <3>2. map = [k \in 1 .. Len(map) |-> map[k]]
      BY <3>1
    <3> QED BY <2>3, <2>6, <3>2 DEF Contents
  <2> QED BY <2>6, <2>7
<1>2. ASSUME NEW map \in maps, f = Blocks(map)
      PROVE  Readable(f)
  BY <1>2, BlocksBegin, WalkAlong DEF Readable
<1> QED BY <1>1, <1>2

----------------------------------------------------------------------------
(* The invariant.                                                          *)

StoreTypes ==
  /\ keyframes \in Seq(Keyframe) /\ saved \in SUBSET Map
  /\ file \in Seq(Block) /\ temp \in Seq(Block) /\ todo \in Seq(Block)
  /\ phase \in {"idle", "write", "remove"}
  /\ born \in Nat /\ cuts \in Nat /\ damages \in Nat

\* A save writes the session it began with; the map file waits for the end of
\* it, and so does the report.
SaveInv ==
  /\ phase # "idle" => up /\ report = "none"
  /\ phase # "idle" => before.file = file
  /\ phase = "write" => /\ keyframes # <<>> /\ before.map = keyframes
                        /\ temp \o todo = Blocks(keyframes)
  /\ ~up => report = "none"

StoreInv ==
  /\ StoreTypes /\ SaveInv /\ Shaped(file, saved)
  /\ ReportIsTrue /\ OldOrNew

LEMMA StoreInvInit == Init => StoreInv
<1> SUFFICES ASSUME Init PROVE StoreInv
  OBVIOUS
<1>1. None \in Seq(Block) /\ None[1].kind = "none" /\ None # <<>>
  BY DEF None, Block
<1>2. StoreTypes
  BY <1>1 DEF Init, StoreTypes
<1> QED BY <1>1, <1>2 DEF Init, StoreInv, SaveInv, Shaped, ReportIsTrue, OldOrNew

LEMMA StoreInvNext == StoreInv /\ [Next]_vars => StoreInv'
<1> SUFFICES ASSUME StoreInv, [Next]_vars PROVE StoreInv'
  OBVIOUS
<1>1. None \in Seq(Block) /\ <<>> \in Seq(Block) /\ Torn \in Block
  BY DEF None, Torn, Block
<1>2. CASE Start
  <2>1. keyframes' \in Seq(Keyframe)
    <3>1. CASE keyframes' = <<>>
      BY <3>1
    <3>2. CASE Readable(file) /\ keyframes' = Contents(file)
      <4>1. \E map \in saved : file = Blocks(map) /\ Contents(file) = map
        BY <3>2, ReadsBack DEF StoreInv, StoreTypes
      <4> QED BY <3>2, <4>1 DEF StoreInv, StoreTypes, Map
    <3> QED BY <1>2, <3>1, <3>2 DEF Start
  <2> QED BY <1>2, <2>1 DEF Start, StoreInv, StoreTypes, SaveInv, Shaped, ReportIsTrue,
             OldOrNew, disk, counters
<1>3. CASE AddKeyframe
  <2>1. keyframes' \in Seq(Keyframe) /\ born' \in Nat
    BY <1>3 DEF AddKeyframe, StoreInv, StoreTypes, Keyframe
  <2> QED BY <1>3, <2>1 DEF AddKeyframe, StoreInv, StoreTypes, SaveInv, Shaped,
             ReportIsTrue, OldOrNew, disk
<1>4. CASE Open
  <2>1. /\ up /\ phase = "idle" /\ keyframes # <<>> /\ keyframes \in Map
        /\ before' = [file |-> file, map |-> keyframes]
        /\ UNCHANGED <<up, keyframes, file, synced, saved, born, cuts, damages>>
    BY <1>4 DEF Open, StoreInv, StoreTypes, Map
  <2>2. CASE /\ temp' = <<>> /\ phase' = "write"
             /\ todo' = Blocks(keyframes) /\ report' = "none"
    <3>1. Blocks(keyframes) \in Seq(Block)
      BY <2>1, BlocksBegin
    <3>2. temp' \o todo' = Blocks(keyframes)
      BY <2>2, <3>1
    <3> QED BY <1>1, <2>1, <2>2, <3>1, <3>2 DEF StoreInv, StoreTypes, SaveInv, Shaped,
               ReportIsTrue, OldOrNew
  <2>3. CASE report' = "failed" /\ UNCHANGED <<temp, phase, todo>>
    BY <2>1, <2>3 DEF StoreInv, StoreTypes, SaveInv, Shaped, ReportIsTrue, OldOrNew
  <2> QED BY <1>4, <2>2, <2>3 DEF Open
<1>5. CASE Write
  <2>1. /\ temp' \in Seq(Block) /\ todo' \in Seq(Block)
        /\ temp' \o todo' = temp \o todo
    BY <1>5 DEF Write, StoreInv, StoreTypes
  <2> QED BY <1>5, <2>1 DEF Write, StoreInv, StoreTypes, SaveInv, Shaped, ReportIsTrue,
             OldOrNew, counters
<1>6. CASE DiskFull
  <2>1. temp' \in Seq(Block) /\ todo' = <<>>
    <3>1. PICK tail \in {<<>>, <<Torn>>} : temp' = temp \o tail
      BY <1>6 DEF DiskFull
    <3>2. temp \in Seq(Block) /\ tail \in Seq(Block)
      <4>1. <<Torn>> \in Seq(Block)
        BY <1>1
      <4> QED BY <1>1, <4>1 DEF StoreInv, StoreTypes
    <3> QED BY <1>6, <3>1, <3>2, Joined DEF DiskFull
  <2> QED BY <1>6, <2>1 DEF DiskFull, StoreInv, StoreTypes, SaveInv, Shaped, ReportIsTrue,
             OldOrNew, counters
<1>7. CASE Rename
  <2>1. keyframes \in Map /\ file' = Blocks(keyframes) /\ before.map = keyframes
    BY <1>7 DEF Rename, StoreInv, StoreTypes, SaveInv, Map
  <2>2. saved' = saved \cup {keyframes} /\ saved' \in SUBSET Map
    BY <1>7, <2>1 DEF Rename, StoreInv, StoreTypes
  <2>3. Shaped(file', saved') /\ file' \in Seq(Block)
    <3>1. /\ file' \in Seq(Block) /\ Len(file') \in 1 .. Len(file')
          /\ BeginsLike(file', keyframes, Len(file'))
      BY <2>1, BlocksBegin DEF BeginsLike
    <3> QED BY <2>2, <3>1 DEF Shaped
  <2>4. SaveInv' /\ ReportIsTrue' /\ OldOrNew'
    BY <1>7, <2>1, <2>2 DEF Rename, StoreInv, SaveInv, ReportIsTrue, OldOrNew
  <2> QED BY <1>1, <1>7, <2>2, <2>3, <2>4 DEF Rename, StoreInv, StoreTypes, counters
<1>8. CASE RenameFails
  BY <1>8 DEF RenameFails, StoreInv, StoreTypes, SaveInv, Shaped, ReportIsTrue, OldOrNew,
     disk, counters
<1>9. CASE CleanUp
  <2>1. temp' \in Seq(Block)
    BY <1>1, <1>9 DEF CleanUp, StoreInv, StoreTypes
  <2> QED BY <1>9, <2>1 DEF CleanUp, StoreInv, StoreTypes, SaveInv, Shaped, ReportIsTrue,
             OldOrNew, counters
<1>10. ASSUME Down
       PROVE  /\ SaveInv' /\ ReportIsTrue' /\ keyframes' \in Seq(Keyframe)
              /\ todo' \in Seq(Block) /\ phase' = "idle" /\ saved' = saved /\ born' = born
  BY <1>10 DEF Down, SaveInv, ReportIsTrue
<1>11. CASE Kill
  BY <1>10, <1>11 DEF Kill, Down, disk, StoreInv, StoreTypes, Shaped, OldOrNew
<1>12. CASE PowerCut
  <2>1. Down /\ cuts' = cuts + 1 /\ damages' = damages
    BY <1>12 DEF PowerCut
  <2>2. file' \in Seq(Block) /\ Shaped(file', saved)
    <3>1. file' = file \/ file' \in Cut(file)
      BY <1>12 DEF PowerCut
    <3> QED BY <3>1, CutKeepsShape DEF StoreInv, StoreTypes
  <2>3. temp' \in Seq(Block)
    <3>1. temp' = temp \/ temp' \in Cut(temp)
      BY <1>12 DEF PowerCut
    <3>2. ASSUME NEW n \in 0 .. Len(temp) - 1
          PROVE  SubSeq(temp, 1, n) \in Seq(Block) /\ Append(SubSeq(temp, 1, n), Torn) \in Seq(Block)
      BY <1>1 DEF StoreInv, StoreTypes
    <3> QED BY <3>1, <3>2 DEF Cut, StoreInv, StoreTypes
  <2>4. OldOrNew'
    BY <2>1 DEF OldOrNew, StoreInv, StoreTypes
  <2> QED BY <1>10, <2>1, <2>2, <2>3, <2>4 DEF StoreInv, StoreTypes
<1>13. CASE WriteBack
  BY <1>13 DEF WriteBack, StoreInv, StoreTypes, SaveInv, Shaped, ReportIsTrue, OldOrNew,
     counters
<1>14. CASE Damage
  <2>1. file' \in Seq(Block) /\ Shaped(file', saved)
    <3>1. file' \in Cut(file) \/ \E map \in saved : file' = file \o Blocks(map)
      BY <1>14 DEF Damage
    <3> QED BY <3>1, CutKeepsShape, BehindKeepsShape DEF StoreInv, StoreTypes
  <2>2. ~up /\ damages' = damages + 1 /\ UNCHANGED <<up, keyframes, phase, todo, temp,
             report, before, saved, born, cuts>>
    BY <1>14 DEF Damage
  <2>3. SaveInv' /\ ReportIsTrue' /\ OldOrNew'
    BY <2>2 DEF StoreInv, StoreTypes, SaveInv, ReportIsTrue, OldOrNew
  <2> QED BY <2>1, <2>2, <2>3 DEF StoreInv, StoreTypes
<1>15. CASE UNCHANGED vars
  BY <1>15 DEF vars, StoreInv, StoreTypes, SaveInv, Shaped, ReportIsTrue, OldOrNew
<1> QED BY <1>2, <1>3, <1>4, <1>5, <1>6, <1>7, <1>8, <1>9, <1>11, <1>12, <1>13, <1>14,
           <1>15 DEF Next

LEMMA StoreInvAlways == Spec => []StoreInv
BY StoreInvInit, StoreInvNext, PTL DEF Spec

\* At no point of a save, whatever kills it, is the map file missing, torn or
\* a mixture, unless power or the file itself was lost.
THEOREM SavesAreAtomic == Spec => []OldOrNew
<1>1. StoreInv => OldOrNew
  BY DEF StoreInv
<1> QED BY <1>1, StoreInvAlways, PTL

\* After a success the map file holds the session as it was, after a failure
\* the one that was there before.
THEOREM ReportsAreTrue == Spec => []ReportIsTrue
<1>1. StoreInv => ReportIsTrue
  BY DEF StoreInv
<1> QED BY <1>1, StoreInvAlways, PTL

\* For maps of any size, and whatever became of the file: what load_map
\* accepts is the whole of a map that was saved, read as it was.
THEOREM RoundTrip == Spec => []LoadsExactly
<1>1. StoreInv => LoadsExactly
  BY ReadsBack DEF StoreInv, StoreTypes, LoadsExactly
<1> QED BY <1>1, StoreInvAlways, PTL
=============================================================================
