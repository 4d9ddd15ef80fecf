------------------------ MODULE EgressRotationHistory ------------------------
(***************************************************************************)
(* EgressRotation with what nothing in the gateway remembers: how many     *)
(* attempts its own triggers started since the window began, over all the  *)
(* processes that ran in it, and the address of the device at the moment   *)
(* of the verdict that asked for the rotation.                             *)
(***************************************************************************)
EXTENDS EgressRotation

VARIABLES
    attempts,   \* bucket -> attempts of this window, admin requests excluded
    blamed      \* bucket -> the address a verdict asked to leave, NoIp if none

rotHistories == <<attempts, blamed>>

RotationHInit ==
    /\ RotationInit
    /\ attempts = [b \in Rotatable |-> 0]
    /\ blamed = [b \in Rotatable |-> NoIp]

(* A release or a retry starts an attempt for b.                           *)
Counted(b) == attempts' = [attempts EXCEPT ![b] = Smaller(@ + 1, MaxRotations + 1)]

ObservedRelease(r) ==
    LET b == req[r].bucket
    IN \E v \in Verdicts, charge \in Charges :
        /\ ReleaseObserved(r, v, charge)
        /\ IF b \in Rotatable /\ ~Running(b) /\ task'[b].pc # "none"
           THEN /\ Counted(b)
                /\ blamed' = [blamed EXCEPT ![b] = IF v.kind = "ok" THEN NoIp ELSE dev[b].addr]
           ELSE UNCHANGED rotHistories

ObservedRetry(b) ==
    /\ RetryFires(b)
    /\ IF ~Running(b) /\ task'[b].pc # "none" THEN Counted(b) ELSE UNCHANGED attempts
    /\ UNCHANGED blamed

ObservedEnd(b) ==
    \/ (PostRefused(b) \/ PollExpires(b)) /\ UNCHANGED rotHistories
    \/ /\ PollSucceeds(b)
       /\ blamed' = [blamed EXCEPT ![b] = NoIp]
       /\ UNCHANGED attempts

RotationHNext ==
    \/ \E r \in Requests : ObservedRelease(r) \/ (ServeStep(r) /\ UNCHANGED rotHistories)
    \/ \E b \in Rotatable :
        \/ ObservedRetry(b) \/ ObservedEnd(b)
        \/ /\ AdminRotate(b) \/ TaskBegins(b) \/ PostAnswered(b)
           /\ UNCHANGED rotHistories
    \/ \E b \in Buckets :
        /\ ResetLands(b) \/ Redial(b) \/ AgentProbe(b) \/ PoolProbe(b)
        /\ UNCHANGED rotHistories
    \/ Rollover /\ attempts' = [b \in Rotatable |-> 0] /\ UNCHANGED blamed
    \/ RotationTick /\ UNCHANGED rotHistories
    \/ /\ Shutdown \/ Crash
       /\ blamed' = [b \in Rotatable |-> NoIp]
       /\ UNCHANGED attempts

RotationHSpec == RotationHInit /\ [][RotationHNext]_<<allVars, rotHistories>>

(* A broken ONT is rebooted by the gateway's own triggers at most          *)
(* MaxRotations times in a window, however often the process is restarted: *)
(* the attempt is on disk before the reboot is asked for.                  *)
RebootBudget == \A b \in Rotatable : attempts[b] <= MaxRotations

(* "the IP is verifiably different": a rotation that a verdict asked for   *)
(* is reported successful only on an address other than the one judged.    *)
BlamedAddressLeft ==
    [][\A b \in Rotatable :
         Running(b) /\ ~Running(b)' /\ rec'[b].last = "ok" /\ rec'[b].age = 0 =>
            st'[b].ip # blamed[b]]_<<allVars, rotHistories>>
=============================================================================
