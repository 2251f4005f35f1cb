---------------------------- MODULE FeatureNode ----------------------------
(***************************************************************************)
(* The feature node: the gate that the pings pass, the detector that they  *)
(* are given to, and the parameters that an operator may set in between.   *)
(* One executor thread runs the three subscriptions and the callback, so   *)
(* each is a step of its own.                                              *)
(***************************************************************************)
EXTENDS FeatureGate, Tuning, Detector

\* A number is given where one is asked for, and a node launched with an
\* algorithm that is unknown does not come up.
ASSUME NodeAssumption ==
  /\ Startup["alg"] \in Algs
  /\ \A request \in Requests :
       "alg" \in DOMAIN request => request["alg"] \in Algs \cup {"unknown"}
  /\ \A name \in {"Ntc", "Ngc", "rank"} :
       /\ Startup[name] \in Int
       /\ \A request \in Requests : name \in DOMAIN request => request[name] \in Int

vars == <<gateVars, tuningVars>>

Init == GateInit /\ TuningInit

\* The pings whose id is no multiple of skip_ are skipped.
Skipping == IF members["skip"] > 1 THEN BOOLEAN ELSE {FALSE}

Next ==
  \/ /\ \/ \E t \in Stamp : Tilt(t) \/ Ping(t, Skipping)
        \/ Tick \/ Rewind
     /\ UNCHANGED tuningVars
  \/ /\ \E request \in Requests : SetParameters(request)
     /\ UNCHANGED gateVars

Spec == Init /\ [][Next]_vars

----------------------------------------------------------------------------
(* Properties.                                                             *)

\* Every variable keeps its type.
TypeOK ==
  /\ GateTypeOK
  /\ DOMAIN members = Names /\ DOMAIN declared = Names
  /\ sets \in 0 .. MaxSets

\* The detectors that the parameters may describe.
Given(name) ==
  {AsMembers(Startup)[name]}
    \cup {AsMembers(r)[name] : r \in {q \in Requests : name \in DOMAIN q}}

Describable ==
  {Built(p) : p \in {q \in [Ntc : Given("Ntc"), Ngc : Given("Ngc"),
                            Pfa : Given("Pfa"), rank : Given("rank")] :
                       Buildable(q)}}

Agreeing ==
  {<<u.d, u.alg>> : u \in {v \in [d : Describable, alg : Algs] : Agrees(v.d, v.alg)}}

\* Whatever the operator has tuned the detector to, Ngc not being negative,
\* the mask of the next ping does not depend on what computes it: detect_cpu,
\* the prefix sums or the CUDA kernel, a refused window and a failing device
\* included.
TwinsAgree == <<detector, members["alg"]>> \in Agreeing
=============================================================================
