----------------------------- MODULE MCRetryWalk -----------------------------
(* Instances of RetryWalk for TLC; neither requests nor buckets of the     *)
(* same tier differ in anything, so both may be permuted in safety runs.   *)
EXTENDS RetryWalk, TLC

Alike == Permutations(Requests) \cup Permutations(Buckets)

(* Why a walk ended matters to the step that ends it and to no later one.  *)
Live ==
    <<vars, lost, [r \in Requests |->
        IF walk[r].pc = "resting" THEN Rested("none") ELSE walk[r]]>>
=============================================================================
