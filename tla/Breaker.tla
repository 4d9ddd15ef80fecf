------------------------------ MODULE Breaker -------------------------------
(***************************************************************************)
(* The abstract specification of the failover adapter: what a circuit      *)
(* breaker in front of a primary chain promises to the requests that pass  *)
(* it.  It knows no clock, no budget and no configuration.  Failover.tla   *)
(* implements it.                                                          *)
(***************************************************************************)
EXTENDS Naturals

CONSTANTS
    Requests,   \* the requests in flight
    Probes      \* successes that close a half-open breaker

VARIABLES
    mode,    \* "closed", "open" (the primary is spared) or "halfopen"
    good,    \* successes of the primary since the last trip
    place    \* request -> who is working on it

breakerVars == <<mode, good, place>>

BreakerInit ==
    /\ mode = "closed"
    /\ good = 0
    /\ place = [r \in Requests |-> "away"]

Move(r, from, to) == place[r] = from /\ place' = [place EXCEPT ![r] = to]

(* Only an open breaker keeps a request from the primary, and nothing but  *)
(* an open breaker or a failure of the primary sends one to the backup.    *)
Call(r) == mode # "open" /\ Move(r, "away", "primary") /\ UNCHANGED <<mode, good>>
Divert(r) == mode = "open" /\ Move(r, "away", "backup") /\ UNCHANGED <<mode, good>>

(* A request ends and says nothing about the primary.                      *)
Leave(r) ==
    /\ place[r] # "away"
    /\ place' = [place EXCEPT ![r] = "away"]
    /\ UNCHANGED <<mode, good>>

(* A success closes the breaker once enough of them followed a trip.       *)
Succeed(r) ==
    /\ Move(r, "primary", "away")
    /\ \/ good' \in {good, good + 1} /\ mode' = mode
       \/ good + 1 >= Probes /\ good' = 0 /\ mode' = "closed"

(* A failure is served by the backup and may open the breaker.             *)
Trip(r) ==
    /\ Move(r, "primary", "backup")
    /\ good' = 0
    /\ mode' \in {mode, "open"}

(* A backup that cannot serve gives the traffic back to the primary.       *)
Yield(r) == Move(r, "backup", "away") /\ mode' = "closed" /\ UNCHANGED good

Expire == mode = "open" /\ mode' = "halfopen" /\ UNCHANGED <<good, place>>

BreakerNext ==
    \/ Expire
    \/ \E r \in Requests :
          Call(r) \/ Divert(r) \/ Leave(r) \/ Succeed(r) \/ Trip(r) \/ Yield(r)

BreakerSpec == BreakerInit /\ [][BreakerNext]_breakerVars
=============================================================================
