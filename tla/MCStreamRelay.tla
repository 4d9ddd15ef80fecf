---------------------------- MODULE MCStreamRelay ---------------------------
(* The instances of StreamRelay that TLC checks: every setup, the ones in  *)
(* which the failover adapter pulls the first chunk, and the others.       *)
EXTENDS StreamRelay

AllSetups == Setup
Prefetched == {s \in Setup : s.prefetch}
Plain == {s \in Setup : ~s.prefetch}
=============================================================================
