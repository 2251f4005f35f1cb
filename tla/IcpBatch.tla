------------------------------ MODULE IcpBatch -----------------------------
(***************************************************************************)
(* The covariance of a closure is sampled by running ICP from several      *)
(* guesses, best first, in a pool of threads (ICP::compute_batch).  It is  *)
(* to be worth what the sequential loop's was (compute_icp_with_cov): that *)
(* loop stops at a time cap after a whole guess, so what it kept was the   *)
(* best guesses, and any exception but a failure to converge went through. *)
(*                                                                         *)
(* A worker takes the next guess, looks at the clock, and registers it,    *)
(* each with other workers in between.  What becomes of a guess is a free  *)
(* choice made when it is done: the chain is deterministic, so it is the   *)
(* same in whichever thread.                                               *)
(***************************************************************************)
EXTENDS Integers, FiniteSetsExt

CONSTANTS
  Guesses,    \* how many guesses there are
  Workers,    \* omp_get_max_threads()
  MinSamples  \* samples a covariance needs (5)

ASSUME BatchAssumption == Guesses \in Nat \ {0} /\ Workers \in Nat \ {0}
                          /\ MinSamples \in Nat

VARIABLES
  guess,   \* what has become of each guess
  expired  \* has the time cap passed?

batchVars == <<guess, expired>>

Guess == 1 .. Guesses

Fresh == guess = [i \in Guess |-> "todo"] /\ expired = FALSE

In(fates) == {i \in Guess : guess[i] \in fates}

Become(i, fate) == guess' = [guess EXCEPT ![i] = fate] /\ UNCHANGED expired

\* schedule(dynamic): a free worker takes the next guess.
Take ==
  /\ Cardinality(In({"taken", "running"})) < Workers
  /\ In({"todo"}) # {}
  /\ Become(Min(In({"todo"})), "taken")

\* Mutant: the clock is looked at before the first guess as well.
CappedAlways(i) == expired

\* A slot that opens after the cap is skipped, the first guess's excepted.
Capped(i) == i > 1 /\ expired

Skip(i) == guess[i] = "taken" /\ Capped(i) /\ Become(i, "skipped")

Start(i) == guess[i] = "taken" /\ ~Capped(i) /\ Become(i, "running")

\* It converges, it does not, or something else is thrown.
Finish(i) ==
  /\ guess[i] = "running"
  /\ \E fate \in {"ok", "failed", "fatal"} : Become(i, fate)

Expire == ~expired /\ expired' = TRUE /\ UNCHANGED guess

BatchStep == Take \/ Expire \/ \E i \in Guess : Skip(i) \/ Start(i) \/ Finish(i)

Joined == In({"todo", "taken", "running"}) = {}

----------------------------------------------------------------------------
(* What the caller gets: an exception, or the samples kept.                *)

Thrown == {0}

\* Mutant: a sample is kept wherever it stands.
KeptAnywhere == In({"ok"})

\* Everything from the first skipped guess on is dropped.
Kept == {i \in In({"ok"}) : \A j \in In({"skipped"}) : i < j}

Outcome == IF In({"fatal"}) # {} THEN Thrown ELSE Kept

\* The sequential loop, had the cap stopped it after m guesses.
Sequential(m) ==
  IF In({"fatal"}) \cap 1 .. m # {} THEN Thrown ELSE In({"ok"}) \cap 1 .. m

\* The guesses whose fate the sequential loop would have found out.
Reachable == {m \in Guess : Sequential(m) = Thrown \/ In({"skipped"}) \cap 1 .. m = {}}

\* The covariance is computed from enough samples.
Enough == Outcome # Thrown /\ Cardinality(Outcome) >= MinSamples

\* However the guesses interleave and whenever the cap passes, the caller gets
\* what the sequential loop would have given it at some cap: the samples of a
\* prefix of at least one guess, or an exception that is met there.
BatchIsSequential ==
  Joined => Outcome \in {Sequential(m) : m \in Reachable}
=============================================================================
