-------------------------- MODULE MCRotationHistory --------------------------
(* An instance of EgressRotationHistory for TLC with two buckets that may  *)
(* be permuted.  Where both rotate they meet in a shutdown only, so the    *)
(* instance is bounded to what a shutdown can tell of two.                 *)
EXTENDS EgressRotationHistory, TLC

BucketSymmetry == Permutations(Buckets)

(* Nothing but the clock and the window has touched b.                     *)
Untouched(b) ==
    /\ task[b] = NoTask /\ timer[b] = NoTimer
    /\ rec[b] = [NoCounts EXCEPT !.age = rec[b].age, !.old = rec[b].old]
    /\ st[b] = FreshEgress
    /\ dev[b].up /\ dev[b].ok /\ dev[b].seen = NoIp

(* The surroundings of b are quiet: its uplink stays up, no request fails, *)
(* its agent reports an address only while a task polls it or when the     *)
(* pool knows it.                                                          *)
Quiet(b) ==
    /\ dev[b].up /\ dev[b].ok
    /\ st[b].failures = 0
    /\ st[b].healthy => rec[b].last = "ok"
    /\ dev[b].seen # NoIp => task[b].pc = "polling" \/ st[b].ip # NoIp

(* No attempt for b has ended yet, and its agent has nothing to report.    *)
InFirstAttempt(b) == rec[b].last = "none" /\ ~st[b].healthy /\ dev[b].seen = NoIp

(* A bound: one bucket does whatever it may, through every restart, or     *)
(* does it in quiet surroundings while another one is in its first         *)
(* attempt, within one window and up to a shutdown.  No transport and no   *)
(* probe fails, and a verdict of the gate is forgotten with its bench.     *)
Bounded ==
    /\ \A b \in Buckets : st[b].failures > 0 => Cordoned(b) /\ st[b].cooldown = 0
    /\ \A b \in Buckets : st[b].streak = 0
    /\ \/ \E b \in Buckets : Untouched(b)
       \/ /\ \A b \in Buckets : Quiet(b)
          /\ events.shutdowns = 0 => \E b \in Buckets : InFirstAttempt(b)
          /\ events.shutdowns > 0 => \A b \in Buckets : st[b] = FreshEgress /\ ~Running(b)
          /\ events.crashes = 0 /\ events.rollovers = 0
=============================================================================
