---------------------------- MODULE DeviceAgent -----------------------------
(***************************************************************************)
(* The agent on a device (egress-agent): the CONNECT tunnels and POST      *)
(* /rotate of its one port (proxy.py), the probe loop behind /healthz      *)
(* (health.py), the reboot of the ONT (rotate.py) and the shutdown         *)
(* (cli.py), all on one event loop.  Time passes for the probe loop only,  *)
(* which is never late; every other delay is a step that may come at any   *)
(* time.                                                                   *)
(***************************************************************************)
EXTENDS Naturals, FiniteSets

CONSTANTS
    Conns,     \* CONNECT requests
    Rotates,   \* POST /rotate requests
    IPs,       \* public addresses
    NoIp,      \* None
    Interval,  \* PROBE_INTERVAL_S
    Timeout,   \* PROBE_TIMEOUT_S
    Grace,     \* PROBE_READY_GRACE_S
    Attempts   \* CT_ARM_ATTEMPTS, 1 for the other firmwares

ASSUME AgentAssumption ==
    /\ IsFiniteSet(Conns)
    /\ NoIp \notin IPs
    /\ Interval \in Nat \ {0} /\ Timeout \in Nat \ {0}
    /\ Grace \in Nat /\ Interval + Timeout < Grace
    /\ Attempts \in Nat \ {0}

VARIABLES
    ont,      \* the ONT and with it the uplink
    addr,     \* the public address of the uplink
    dead,     \* how long the uplink has been down, up to Grace
    probe,    \* the probe loop
    age,      \* time since probe_at, up to Grace
    health,   \* egress_probe_ok and egress_ip
    conn,     \* CONNECT -> where its handler stands
    upstream, \* CONNECT -> its connection to the target is open
    tunnelsActive,  \* tunnels_active
    rotate,   \* POST /rotate -> where it stands
    server    \* serving, or which part of close()

network == <<ont, addr, dead>>
loop == <<probe, age, health>>
tunnels == <<conn, upstream, tunnelsActive>>
agentVars == <<network, loop, tunnels, rotate, server>>

-----------------------------------------------------------------------------

Up == ont \in {"up", "resetting"}

(* Its web pages are up before the uplink is.                              *)
Web == ont # "down"

AgentTypeOK ==
    /\ ont \in {"up", "resetting", "down", "dialing"}
    /\ addr \in IPs
    /\ dead \in 0..Grace
    /\ probe \in [pc: {"asking", "answered", "sleeping", "off"}, timer: 0..(Interval + Timeout),
                  seen: IPs \cup {NoIp}, late: BOOLEAN]
    /\ age \in 0..Grace
    /\ health \in [ok: {"none", "ok", "failed"}, ip: IPs \cup {NoIp}, late: BOOLEAN]
    /\ conn \in [Conns -> {"idle", "dial", "hello", "pump", "done"}]
    /\ upstream \in [Conns -> BOOLEAN]
    /\ tunnelsActive \in 0..Cardinality(Conns)
    /\ rotate \in [Rotates -> [pc: {"idle", "login", "reset", "poll", "redial", "done"},
                               wait: BOOLEAN, tries: 0..Attempts, resets: Nat]]
    /\ server \in {"serving", "closing", "aborting", "stopped"}

AgentInit ==
    /\ ont = "up"
    /\ addr \in IPs
    /\ dead = 0
    /\ probe = [pc |-> "sleeping", timer |-> 0, seen |-> NoIp, late |-> FALSE]
    /\ age = Grace
    /\ health = [ok |-> "none", ip |-> NoIp, late |-> FALSE]
    /\ conn = [k \in Conns |-> "idle"]
    /\ upstream = [k \in Conns |-> FALSE]
    /\ tunnelsActive = 0
    /\ rotate = [q \in Rotates |-> [pc |-> "idle", wait |-> FALSE, tries |-> 0, resets |-> 0]]
    /\ server = "serving"

-----------------------------------------------------------------------------
(* egress_probe_loop and the fields of /healthz.                           *)

Ready == health.ok # "failed" /\ age < Grace

Capped(n) == IF n < Grace THEN n + 1 ELSE Grace

(* The loop runs when its time has come.                                   *)
AgentTick ==
    /\ probe.pc = "off" \/ (probe.pc \in {"asking", "sleeping"} /\ probe.timer > 0)
    /\ probe' = [probe EXCEPT !.timer = IF probe.pc = "off" THEN 0 ELSE @ - 1]
    /\ age' = Capped(age)
    /\ dead' = IF Up THEN 0 ELSE Capped(dead)
    /\ UNCHANGED <<ont, addr, health, tunnels, rotate, server>>

(* probe_at is the start of the attempt.  `late` is for the properties: a  *)
(* rotation was noted since.                                               *)
ProbeBegins ==
    /\ probe.pc = "sleeping" /\ probe.timer = 0
    /\ probe' = [pc |-> "asking", timer |-> Timeout, seen |-> NoIp, late |-> FALSE]
    /\ age' = 0
    /\ UNCHANGED <<network, health, tunnels, rotate, server>>

(* The echo service sees the address of the uplink, or nothing comes back  *)
(* before the timeout.                                                     *)
ProbeEchoes ==
    /\ probe.pc = "asking"
    /\ \/ Up /\ probe' = [probe EXCEPT !.pc = "answered", !.seen = addr]
       \/ probe' = [probe EXCEPT !.pc = "answered", !.seen = NoIp]
    /\ UNCHANGED <<network, age, health, tunnels, rotate, server>>

(* Fault: the pause is the whole grace period.                             *)
ProbeFoldsLong ==
    /\ probe.pc = "answered"
    /\ health' = IF probe.seen = NoIp THEN [health EXCEPT !.ok = "failed"]
                 ELSE [ok |-> "ok", ip |-> probe.seen, late |-> probe.late]
    /\ probe' = [probe EXCEPT !.pc = "sleeping", !.timer = Interval + Timeout, !.seen = NoIp]
    /\ UNCHANGED <<network, age, tunnels, rotate, server>>

(* The answer is folded; a failure keeps the address.                      *)
ProbeFolds ==
    /\ probe.pc = "answered"
    /\ health' = IF probe.seen = NoIp THEN [health EXCEPT !.ok = "failed"]
                 ELSE [ok |-> "ok", ip |-> probe.seen, late |-> probe.late]
    /\ probe' = [probe EXCEPT !.pc = "sleeping", !.timer = Interval, !.seen = NoIp]
    /\ UNCHANGED <<network, age, tunnels, rotate, server>>

-----------------------------------------------------------------------------
(* CONNECT.                                                                *)

ConnGoes(k, pc) == conn' = [conn EXCEPT ![k] = pc]

(* A request, refused for its credentials or its target, or dialled.       *)
Arrives(k) ==
    /\ conn[k] = "idle" /\ server = "serving"
    /\ ConnGoes(k, "dial") \/ ConnGoes(k, "done")
    /\ UNCHANGED <<network, loop, upstream, tunnelsActive, rotate, server>>

(* open_connection, from the configured source address; 502 if it fails.   *)
Dialled(k) ==
    /\ conn[k] = "dial"
    /\ \/ Up /\ ConnGoes(k, "hello") /\ upstream' = [upstream EXCEPT ![k] = TRUE]
       \/ ConnGoes(k, "done") /\ UNCHANGED upstream
    /\ UNCHANGED <<network, loop, tunnelsActive, rotate, server>>

(* The 200 is written and the tunnel counted; when the client is gone the  *)
(* write raises, and the handler closes the client's side only.            *)
Established(k) ==
    /\ conn[k] = "hello"
    /\ \/ ConnGoes(k, "pump") /\ tunnelsActive' = tunnelsActive + 1
       \/ ConnGoes(k, "done") /\ UNCHANGED tunnelsActive
    /\ UNCHANGED <<network, loop, upstream, rotate, server>>

(* Fault: a tunnel that is aborted is not counted down.                    *)
PumpEndsUncounted(k) ==
    /\ conn[k] = "pump"
    /\ ConnGoes(k, "done")
    /\ upstream' = [upstream EXCEPT ![k] = FALSE]
    /\ tunnelsActive' = IF server = "aborting" THEN tunnelsActive ELSE tunnelsActive - 1
    /\ UNCHANGED <<network, loop, rotate, server>>

(* _pump: one side ends, both are closed.                                  *)
PumpEnds(k) ==
    /\ conn[k] = "pump"
    /\ ConnGoes(k, "done")
    /\ upstream' = [upstream EXCEPT ![k] = FALSE]
    /\ tunnelsActive' = tunnelsActive - 1
    /\ UNCHANGED <<network, loop, rotate, server>>

-----------------------------------------------------------------------------
(* POST /rotate: _handle_rotate, restart_ont.                              *)

RotateAt(q, pc) == rotate[q].pc = pc
RotateGoes(q, pc) == rotate' = [rotate EXCEPT ![q].pc = pc]

(* note_rotation: a success forgets the address.                           *)
Noted(q, ok) ==
    /\ rotate' = [rotate EXCEPT ![q].pc = "done"]
    /\ health' = IF ok THEN [health EXCEPT !.ip = NoIp, !.late = FALSE] ELSE health
    /\ probe' = [probe EXCEPT !.late = @ \/ (ok /\ probe.pc \in {"asking", "answered"})]

(* Refused (credentials, no such ONT), or begun: nothing keeps two         *)
(* requests apart.                                                         *)
RotateArrives(q) ==
    /\ RotateAt(q, "idle") /\ server = "serving"
    /\ \/ RotateGoes(q, "done")
       \/ \E wait \in BOOLEAN :
             rotate' = [rotate EXCEPT ![q].pc = "login", ![q].wait = wait]
    /\ UNCHANGED <<network, loop, tunnels, server>>

(* Token, login and reset page; a refusal is tried again by the telecom    *)
(* firmware only, an ONT that does not answer is not.                      *)
Login(q) ==
    /\ RotateAt(q, "login")
    /\ \/ Web /\ RotateGoes(q, "reset") /\ UNCHANGED <<health, probe>>
       \/ /\ Web /\ rotate[q].tries + 1 < Attempts
          /\ rotate' = [rotate EXCEPT ![q].tries = @ + 1]
          /\ UNCHANGED <<health, probe>>
       \/ Noted(q, FALSE)
    /\ UNCHANGED <<network, age, tunnels, server>>

(* What a reset that reaches the ONT makes of it: the uplink is there for  *)
(* a moment more, if it was there.                                         *)
Hit == IF Up THEN {"resetting"} ELSE {"down"}

(* The reset.  An answer of any status, a dropped connection and a timeout *)
(* all count as accepted; only the Unicom firmware can say no.             *)
Reset(q) ==
    /\ RotateAt(q, "reset")
    /\ ont' \in {ont} \cup Hit
    /\ LET fired == [rotate EXCEPT ![q].resets = @ + 1]
       IN \/ /\ rotate[q].wait
             /\ rotate' = [fired EXCEPT ![q].pc = "poll"]
             /\ UNCHANGED <<health, probe>>
          \/ /\ ~rotate[q].wait
             /\ rotate' = [fired EXCEPT ![q].pc = "done"]
             /\ health' = [health EXCEPT !.ip = NoIp, !.late = FALSE]
             /\ probe' = [probe EXCEPT !.late = @ \/ probe.pc \in {"asking", "answered"}]
          \/ rotate' = [fired EXCEPT ![q].pc = "done"] /\ UNCHANGED <<health, probe>>
    /\ UNCHANGED <<addr, dead, age, tunnels, server>>

(* _wait_recovered: the web root answers, or RECOVER_TIMEOUT_S has passed. *)
Recovered(q) ==
    /\ RotateAt(q, "poll")
    /\ \/ Web /\ RotateGoes(q, "redial") /\ UNCHANGED <<health, probe>>
       \/ Noted(q, FALSE)
    /\ UNCHANGED <<network, age, tunnels, server>>

(* REDIAL_WAIT_S later.                                                    *)
Redialled(q) ==
    /\ RotateAt(q, "redial")
    /\ Noted(q, TRUE)
    /\ UNCHANGED <<network, age, tunnels, server>>

(* The ONT goes down, comes back, and dials in with some address.          *)
GoesDown == ont = "resetting" /\ ont' = "down" /\ UNCHANGED <<addr, dead>>
ComesBack == ont = "down" /\ ont' = "dialing" /\ UNCHANGED <<addr, dead>>
DialsIn == ont = "dialing" /\ ont' = "up" /\ addr' \in IPs /\ dead' = 0

OntStep ==
    /\ GoesDown \/ ComesBack \/ DialsIn
    /\ UNCHANGED <<loop, tunnels, rotate, server>>

-----------------------------------------------------------------------------
(* _serve's end, close().                                                  *)

Handlers == \A k \in Conns : conn[k] \in {"idle", "done"}

CloseBegins ==
    /\ server = "serving"
    /\ server' = "closing"
    /\ probe' = [probe EXCEPT !.pc = "off", !.timer = 0, !.seen = NoIp]
    /\ UNCHANGED <<network, age, health, tunnels, rotate>>

(* Fault: the handlers are waited for without a limit.                     *)
CloseGoesPatiently ==
    /\ server = "closing"
    /\ Handlers
    /\ server' = "stopped"
    /\ UNCHANGED <<network, loop, tunnels, rotate>>

(* All handlers are done, or CLOSE_GRACE_S has passed: the client side of  *)
(* each is aborted, which ends the pumps, and CLOSE_ABORT_S later the      *)
(* server stops whether they are done or not.                              *)
CloseGoes ==
    /\ \/ server = "closing" /\ Handlers /\ server' = "stopped"
       \/ server = "closing" /\ ~Handlers /\ server' = "aborting"
       \/ server = "aborting" /\ server' = "stopped"
    /\ UNCHANGED <<network, loop, tunnels, rotate>>

-----------------------------------------------------------------------------

ConnStep(k) == Dialled(k) \/ Established(k) \/ PumpEnds(k)
RotateStep(q) == Login(q) \/ Reset(q) \/ Recovered(q) \/ Redialled(q)
Probing == ProbeBegins \/ ProbeEchoes \/ ProbeFolds

AgentNext ==
    \/ server # "stopped" /\ (AgentTick \/ Probing \/ OntStep)
    \/ server # "stopped" /\ \E k \in Conns : Arrives(k) \/ ConnStep(k)
    \/ server # "stopped" /\ \E q \in Rotates : RotateArrives(q) \/ RotateStep(q)
    \/ CloseBegins \/ CloseGoes

AgentSpec == AgentInit /\ [][AgentNext]_agentVars

(* The event loop runs the probe and the shutdown, whose waits all have a  *)
(* timeout, and the requests to the ONT have one, too.  Nothing obliges a  *)
(* tunnel to end or an ONT to come back.                                   *)
AgentFairSpec ==
    /\ AgentSpec
    /\ WF_agentVars(AgentTick) /\ WF_agentVars(Probing) /\ WF_agentVars(CloseGoes)
    /\ \A q \in Rotates : WF_agentVars(RotateStep(q))

-----------------------------------------------------------------------------

(* tunnels_active is the number of tunnels that are relaying, whatever     *)
(* ends them: either side, the shutdown, an error (_handle_connect).       *)
TunnelsCounted == tunnelsActive = Cardinality({k \in Conns : conn[k] = "pump"})

(* An agent whose probes succeed never reports ready = false in between:   *)
(* the pause and the longest probe fit in PROBE_READY_GRACE_S.             *)
HealthyStaysReady == server = "serving" /\ health.ok = "ok" => Ready

(* "the gateway kept handing work to a leg that returned 502": an uplink   *)
(* that is down is reported ready for one pause and one probe at most.     *)
DeadLegNoticed == server = "serving" /\ Ready => dead <= Interval + Timeout

(* Ready tells the truth in both directions: a leg that works is never     *)
(* reported unready between its probes, a dead one soon is.                *)
ReadyIsTrue == HealthyStaysReady /\ DeadLegNoticed

(* A request resets an ONT once at most, whichever step it fails at: the   *)
(* telecom retries come before the reset, and a dropped connection is the  *)
(* success signal (_trigger_reboot_ct, _ct_reboot_once).                   *)
ResetsOnce == \A q \in Rotates : rotate[q].resets <= 1

(* The state is well typed, /healthz counts the tunnels there are, and no  *)
(* request resets an ONT twice.                                            *)
AgentSound == AgentTypeOK /\ TunnelsCounted /\ ResetsOnce

(* "Bounded shutdown: never let a stuck handler block the loop", and no    *)
(* request to rotate lasts for ever while the agent runs.                  *)
AgentMovesOn ==
    /\ server = "closing" ~> server = "stopped"
    /\ \A q \in Rotates :
          RotateAt(q, "login") ~> (RotateAt(q, "done") \/ server = "stopped")

(* Documented: after a rotation the address is stale "until the next probe *)
(* refreshes it".                                                          *)
RefreshedByNextProbe == ~health.late

(* Documented: "poll the ONT web root until it answers again".             *)
BackAfterReboot == \A q \in Rotates : RotateAt(q, "redial") => ont # "resetting"

(* _pump's docstring: "tear everything down".                              *)
UpstreamTornDown == \A k \in Conns : conn[k] = "done" => ~upstream[k]
=============================================================================
