-------------------------- MODULE EgressPoolHistory --------------------------
(***************************************************************************)
(* EgressPool with two history variables that record what the pool itself  *)
(* forgets: the address a bucket's last bench was a verdict about, and     *)
(* what the latest probe of a bucket answered.  They add no behaviour; the *)
(* documented rules about addresses and probe answers are stated on them.  *)
(***************************************************************************)
EXTENDS EgressPool

VARIABLES
    judgedIp,   \* bucket -> the recorded address when its bench was set
    lastProbe   \* bucket -> "none", "ready", "not_ready", "status" or "unreachable"

histories == <<judgedIp, lastProbe>>

HInit ==
    /\ Init
    /\ judgedIp = [b \in Buckets |-> NoIp]
    /\ lastProbe = [b \in Buckets |-> "none"]

Probed(b, answer) ==
    /\ lastProbe' = [lastProbe EXCEPT ![b] = answer]
    /\ UNCHANGED judgedIp

(* A verdict that sets or extends a bench is about the address recorded    *)
(* for the bucket at that moment.                                          *)
Judge ==
    /\ judgedIp' = [b \in Buckets |->
                      IF st'[b].cordon > st[b].cordon THEN st[b].ip ELSE judgedIp[b]]
    /\ UNCHANGED lastProbe

HNext ==
    \/ \E r \in Requests : RequestStep(r) /\ Judge
    \/ \E b \in Buckets :
        \/ ProbeUnreachable(b) /\ Probed(b, "unreachable")
        \/ ProbeNotReady(b, NoIp) /\ Probed(b, "status")
        \/ \E ip \in IPs \cup {NoIp} :
            \/ ProbeNotReady(b, ip) /\ Probed(b, "not_ready")
            \/ ProbeReady(b, ip) /\ Probed(b, "ready")
        \/ RotatorStep(b) /\ Probed(b, "none")
    \/ Tick /\ UNCHANGED histories

HSpec == HInit /\ [][HNext]_<<vars, histories>>

(* "lifted as soon as the probe observes an IP change and is ready": once  *)
(* a probe found the agent ready on an address other than the one judged,  *)
(* no verdict about an address keeps the bucket on the bench.              *)
FreshAddressFreed ==
    \A b \in Buckets :
        lastProbe[b] = "ready" /\ judgedIp[b] \notin {NoIp, st[b].ip} =>
            ~(Cordoned(b) /\ st[b].reason \in IpScopedReasons)

(* "Transport failures / non-200 stay HARD": such an answer pulls the      *)
(* bucket at its first occurrence.                                         *)
HardAnswerPulls ==
    \A b \in Buckets : lastProbe[b] \in {"unreachable", "status"} => ~st[b].healthy

(* "Never shorten or relabel a live cordon": while a bench runs it keeps   *)
(* the reason it was set with.                                             *)
LabelKept ==
    [][\A b \in Buckets : Cordoned(b) /\ Cordoned(b)' => st'[b].reason = st[b].reason]_vars

(* "Rotating egresses stay excluded while any alternative exists": a       *)
(* bucket whose ONT reboots is leased only if every selectable one does.   *)
RotatingOnlyWhenAlone ==
    [][\A b \in Buckets :
         LeaseGranted(b) /\ st[b].rotating => \A c \in Selectable : st[c].rotating]_vars

(* A tolerated soft failure never pulls: a ready probe in between two of   *)
(* them always starts the count again, so a bucket is pulled by a hard     *)
(* answer or by a not-ready one that ends a run of Tolerance of them.      *)
PulledOnlyByProbes ==
    [][\A b \in Buckets :
         st[b].healthy /\ ~st'[b].healthy =>
            \/ lastProbe'[b] = "unreachable"
            \/ /\ lastProbe'[b] \in {"not_ready", "status"}
               /\ Tolerance > 1 => lastProbe[b] # "ready"]_<<vars, histories>>
=============================================================================
