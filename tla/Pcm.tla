-------------------------------- MODULE Pcm --------------------------------
(***************************************************************************)
(* Pairwise consistency maximisation, Slam::verify_pcm: of the closures in *)
(* the queue the largest set that agree pairwise is inserted, if it has    *)
(* min_pcm members.  A closure that a revert rejected neither enters it    *)
(* nor counts towards it.  The set is found by Bron and Kerbosch's         *)
(* recursion with pivoting (find_cliques).                                 *)
(*                                                                         *)
(* Closures are named by their places in the queue.  Which pairs pass the  *)
(* chi-squared test is a free choice; a recursive function rather than an  *)
(* operator does the recursion.                                            *)
(***************************************************************************)
EXTENDS Integers, Sequences, FiniteSetsExt, SequencesExt

CONSTANTS
  MinPcm,       \* min_pcm
  PcmQueueSize  \* pcm_queue_size, in keyframes

ASSUME PcmAssumption == MinPcm \in Nat /\ PcmQueueSize \in Nat

\* A queue of n closures; no keyframe is the source of two, so it holds those
\* of at most PcmQueueSize earlier keyframes and the newest.
Queue(n)  == 1 .. n
MaxQueue  == PcmQueueSize + 1
Pairs(n)  == {p \in Queue(n) \X Queue(n) : p[1] < p[2]}

----------------------------------------------------------------------------
(* find_cliques: current is a clique, subg what is consistent with all of  *)
(* it, cand what of that has not been tried.                               *)

\* The last of those that leave the fewest candidates to try.
Pivot(adj, subg, cand) ==
  LET Covers(u) == Cardinality(cand \cap adj[u])
  IN  Max({u \in subg : \A v \in subg : Covers(v) <= Covers(u)})

\* A branch for each candidate that the pivot is not consistent with, in
\* ascending order: those tried before are no candidates of the next.
FindCliques(adj) ==
  LET V == DOMAIN adj
      cliques[p \in Seq(V) \X (SUBSET V) \X (SUBSET V)] ==
        LET current == p[1]  subg == p[2]  cand == p[3] IN
        IF subg = {} THEN {current}
        ELSE LET ext == cand \ adj[Pivot(adj, subg, cand)]
             IN  UNION {cliques[<<Append(current, q), subg \cap adj[q],
                                  (cand \ {r \in ext : r <= q}) \cap adj[q]>>] : q \in ext}
  IN  cliques[<<(<<>>), V, V>>]

----------------------------------------------------------------------------
(* verify_pcm.                                                             *)

\* Mutant: the rejection of a pair's second closure is not looked at.
VotingOneSided(edges, rejected) == {e \in edges : e[1] \notin rejected}

\* The pairs that count.
Voting(edges, rejected) ==
  {e \in edges : e[1] \notin rejected /\ e[2] \notin rejected}

\* The consistency graph; a closure that agrees with none is not in it.
Adjacency(edges) ==
  [v \in UNION {{e[1], e[2]} : e \in edges} |->
     {u \in UNION {{e[1], e[2]} : e \in edges} : <<u, v>> \in edges \/ <<v, u>> \in edges}]

\* max_element; which of several longest is left open.
Longest(cliques) ==
  CHOOSE c \in cliques : \A other \in cliques : Len(other) <= Len(c)

VerifyPcm(n, edges, rejected) ==
  LET votes == Voting(edges, rejected) IN
  IF n < MinPcm \/ votes = {} THEN <<>>
  ELSE LET cliques == FindCliques(Adjacency(votes))
           maximum == Longest(cliques)
       IN  IF cliques = {} \/ Len(maximum) < MinPcm THEN <<>> ELSE maximum

----------------------------------------------------------------------------
(* What it promises.                                                       *)

\* Closures that were not rejected and agree pairwise.
Agreement(set, edges, rejected) ==
  /\ set \cap rejected = {}
  /\ \A a, b \in set : a < b => <<a, b>> \in edges

\* The agreements that may be inserted: a closure on its own is not one.
Insertable(n, edges, rejected) ==
  {set \in SUBSET Queue(n) : /\ Cardinality(set) >= 2 /\ Cardinality(set) >= MinPcm
                             /\ Agreement(set, edges, rejected)}

\* The answer is a largest agreement, each member once, or empty if there is
\* none.
IsLargest(answer, n, edges, rejected) ==
  LET all == Insertable(n, edges, rejected) IN
  IF all = {} THEN answer = <<>>
  ELSE /\ ToSet(answer) \in all /\ Cardinality(ToSet(answer)) = Len(answer)
       /\ \A set \in all : Cardinality(set) <= Len(answer)

\* The queues for which every graph and every choice of rejected closures is
\* answered right.
AnsweredRight ==
  {n \in 0 .. MaxQueue :
     \A edges \in SUBSET Pairs(n), rejected \in SUBSET Queue(n) :
       IsLargest(VerifyPcm(n, edges, rejected), n, edges, rejected)}
=============================================================================
