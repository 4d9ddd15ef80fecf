---------------------------- MODULE MCEgressPool ----------------------------
(* Instances of EgressPool for TLC: the configurations give the constants  *)
(* small sets of model values and a handful of time units; requests that   *)
(* do not differ in anything may be permuted in the safety runs.           *)
EXTENDS EgressPool, TLC

RequestSymmetry == Permutations(Requests)
=============================================================================
