--------------------------- MODULE MCEgressRotation ---------------------------
(* Instances of EgressRotation for TLC; requests may be permuted in the    *)
(* safety runs.                                                            *)
EXTENDS EgressRotation, TLC

RequestSymmetry == Permutations(Requests)
=============================================================================
