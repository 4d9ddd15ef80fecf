---------------------------- MODULE DeviceProofs ----------------------------
(***************************************************************************)
(* Theorems about the devices: what /healthz of the agent says of the      *)
(* uplink and of its tunnels, for every probe interval, timeout and grace  *)
(* with Interval + Timeout < Grace (DeviceAgent), and what the ESP32       *)
(* bucket and its adapter keep together, for every number of clients,      *)
(* rotations, sessions and slots (DeviceTunnel).  The two share nothing.   *)
(***************************************************************************)
EXTENDS DeviceAgent, DeviceTunnel, FiniteSetTheorems, TLAPS

LoopTyped ==
    /\ ont \in {"up", "resetting", "down", "dialing"}
    /\ addr \in IPs
    /\ dead \in 0..Grace
    /\ probe \in [pc: {"asking", "answered", "sleeping", "off"}, timer: Nat,
                  seen: IPs \cup {NoIp}, late: BOOLEAN]
    /\ age \in 0..Grace
    /\ health \in [ok: {"none", "ok", "failed"}, ip: IPs \cup {NoIp}, late: BOOLEAN]

(* What the probe loop has left to run bounds how old its last answer and  *)
(* how long the outage it has not seen can be.                             *)
LoopInTime ==
    /\ Up => dead = 0
    /\ server = "serving" => probe.pc # "off"
    /\ probe.pc = "sleeping" =>
          /\ health.ok = "none" => probe.timer = 0 /\ age = Grace /\ dead = 0
          /\ health.ok = "ok" => /\ age + probe.timer <= Timeout + Interval
                                 /\ dead + probe.timer <= Interval
    /\ probe.pc = "asking" =>
          /\ age + probe.timer <= Timeout
          /\ health.ok # "failed" => dead + probe.timer <= Interval + Timeout
    /\ probe.pc = "answered" =>
          /\ age <= Timeout
          /\ health.ok # "failed" => dead <= Interval + Timeout
          /\ probe.seen # NoIp => dead = 0

LoopInv == LoopTyped /\ LoopInTime

-----------------------------------------------------------------------------

LEMMA AgentInitHolds == AgentInit => LoopInv
BY AgentAssumption DEF AgentInit, LoopInv, LoopTyped, LoopInTime, Up

(* The tunnels do not touch the loop.                                      *)
LEMMA ConnKeepsLoop ==
    ASSUME LoopInv, NEW k \in Conns, Arrives(k) \/ ConnStep(k)
    PROVE  LoopInv'
BY DEF LoopInv, LoopTyped, LoopInTime, Up, Arrives, ConnStep, Dialled, Established, PumpEnds,
       network, loop

(* A step of /rotate may start a reset and forget the address.             *)
LEMMA RotateKeepsLoop ==
    ASSUME LoopInv, NEW q \in Rotates, RotateArrives(q) \/ RotateStep(q)
    PROVE  LoopInv'
<1> USE DEF LoopInv
<1>1. ASSUME NEW ok \in BOOLEAN, Noted(q, ok)
      PROVE  /\ health' \in [ok: {"none", "ok", "failed"}, ip: IPs \cup {NoIp}, late: BOOLEAN]
             /\ probe' \in [pc: {"asking", "answered", "sleeping", "off"}, timer: Nat,
                            seen: IPs \cup {NoIp}, late: BOOLEAN]
             /\ health'.ok = health.ok
             /\ probe'.pc = probe.pc /\ probe'.timer = probe.timer /\ probe'.seen = probe.seen
  BY <1>1 DEF Noted, LoopTyped
<1>2. CASE RotateArrives(q)
  BY <1>2 DEF RotateArrives, LoopTyped, LoopInTime, Up, network, loop
<1>3. CASE Login(q)
  BY <1>3, <1>1 DEF Login, LoopTyped, LoopInTime, Up, network
<1>4. CASE Reset(q)
  <2>1. /\ health' \in [ok: {"none", "ok", "failed"}, ip: IPs \cup {NoIp}, late: BOOLEAN]
        /\ probe' \in [pc: {"asking", "answered", "sleeping", "off"}, timer: Nat,
                       seen: IPs \cup {NoIp}, late: BOOLEAN]
        /\ health'.ok = health.ok
        /\ probe'.pc = probe.pc /\ probe'.timer = probe.timer /\ probe'.seen = probe.seen
    BY <1>4 DEF Reset, LoopTyped
  <2>2. /\ ont' \in {"up", "resetting", "down", "dialing"}
        /\ ont' \in {"up", "resetting"} => Up
        /\ UNCHANGED <<addr, dead, age, server>>
    BY <1>4 DEF Reset, LoopTyped, Hit, Up
  <2> QED
    BY <2>1, <2>2 DEF LoopTyped, LoopInTime, Up
<1>5. CASE Recovered(q)
  BY <1>5, <1>1 DEF Recovered, LoopTyped, LoopInTime, Up, network
<1>6. CASE Redialled(q)
  BY <1>6, <1>1 DEF Redialled, LoopTyped, LoopInTime, Up, network
<1> QED
  BY <1>2, <1>3, <1>4, <1>5, <1>6 DEF RotateStep

(* The loop itself, the clock, the ONT and the shutdown.                   *)
LEMMA LoopKeepsTime ==
    ASSUME LoopInv, AgentTick \/ Probing \/ OntStep \/ CloseBegins \/ CloseGoes
    PROVE  LoopInv'
<1> USE AgentAssumption DEF LoopInv
<1>1. CASE AgentTick
  <2>1. /\ \A n \in 0..Grace : Capped(n) \in 0..Grace /\ Capped(n) <= n + 1
        /\ age' = Capped(age) /\ dead' \in {0, Capped(dead)} /\ (Up => dead' = 0)
        /\ UNCHANGED <<ont, addr, health, server>>
    BY <1>1 DEF AgentTick, Capped
  <2>2. CASE probe.pc = "off"
    <3>1. probe' = [probe EXCEPT !.timer = 0]
      BY <1>1, <2>2 DEF AgentTick
    <3> QED
      BY <2>1, <2>2, <3>1 DEF LoopTyped, LoopInTime, Up
  <2>3. CASE probe.pc \in {"asking", "sleeping"} /\ probe.timer > 0
    <3>1. /\ probe'.pc = probe.pc /\ probe'.timer = probe.timer - 1 /\ probe'.timer \in Nat
          /\ probe' = [probe EXCEPT !.timer = @ - 1]
      BY <1>1, <2>3 DEF AgentTick, LoopTyped
    <3>2. LoopTyped'
      BY <2>1, <3>1 DEF LoopTyped
    <3>3. LoopInTime'
      BY <2>1, <2>3, <3>1 DEF LoopTyped, LoopInTime, Up
    <3> QED
      BY <3>2, <3>3
  <2> QED
    BY <1>1, <2>2, <2>3 DEF AgentTick
<1>2. CASE ProbeBegins
  BY <1>2 DEF ProbeBegins, LoopTyped, LoopInTime, Up, network
<1>3. CASE ProbeEchoes
  <2>1. PICK seen \in IPs \cup {NoIp} :
           /\ probe' = [probe EXCEPT !.pc = "answered", !.seen = seen]
           /\ seen = NoIp \/ Up
    BY <1>3 DEF ProbeEchoes, LoopTyped
  <2>2. /\ probe'.pc = "answered" /\ probe'.seen = seen /\ probe.pc = "asking"
        /\ UNCHANGED <<ont, addr, dead, age, health, server>>
    BY <1>3, <2>1 DEF ProbeEchoes, LoopTyped, network
  <2>3. LoopTyped'
    BY <2>1, <2>2 DEF LoopTyped
  <2>4. LoopInTime'
    BY <2>1, <2>2 DEF LoopTyped, LoopInTime, Up
  <2> QED
    BY <2>3, <2>4
<1>4. CASE ProbeFolds
  <2>1. LoopTyped'
    BY <1>4 DEF ProbeFolds, LoopTyped, network
  <2>2. LoopInTime'
    BY <1>4 DEF ProbeFolds, LoopTyped, LoopInTime, Up, network
  <2> QED
    BY <2>1, <2>2
<1>5. CASE OntStep
  BY <1>5 DEF OntStep, GoesDown, ComesBack, DialsIn, LoopTyped, LoopInTime, Up, loop
<1>6. CASE CloseBegins
  BY <1>6 DEF CloseBegins, LoopTyped, LoopInTime, Up, network
<1>7. CASE CloseGoes
  BY <1>7 DEF CloseGoes, LoopTyped, LoopInTime, Up, network, loop
<1> QED
  BY <1>1, <1>2, <1>3, <1>4, <1>5, <1>6, <1>7 DEF Probing

LEMMA AgentStutters ==
    ASSUME LoopInv, UNCHANGED agentVars
    PROVE  LoopInv'
BY DEF LoopInv, LoopTyped, LoopInTime, Up, agentVars, network, loop

(* The invariant behind the two theorems: the age of the last answer and   *)
(* the length of an outage are bounded by what the loop has left to run    *)
(* (health.py, egress_probe_loop).                                         *)
THEOREM LoopStaysInTime == AgentSpec => []LoopInv
<1>1. AgentInit => LoopInv
  BY AgentInitHolds
<1>2. LoopInv /\ [AgentNext]_agentVars => LoopInv'
  BY ConnKeepsLoop, RotateKeepsLoop, LoopKeepsTime, AgentStutters DEF AgentNext
<1> QED
  BY <1>1, <1>2, PTL DEF AgentSpec

(* An agent whose last probe succeeded is ready at every moment.           *)
THEOREM SucceedingAgentIsReady == AgentSpec => []HealthyStaysReady
<1>1. LoopInv => HealthyStaysReady
  BY AgentAssumption DEF LoopInv, LoopTyped, LoopInTime, HealthyStaysReady, Ready
<1> QED
  BY <1>1, LoopStaysInTime, PTL

(* An agent that is ready has not been cut off for longer than one pause   *)
(* and one probe.                                                          *)
THEOREM DeadLegsAreNoticed == AgentSpec => []DeadLegNoticed
<1>1. LoopInv => DeadLegNoticed
  BY AgentAssumption DEF LoopInv, LoopTyped, LoopInTime, DeadLegNoticed, Ready
<1> QED
  BY <1>1, LoopStaysInTime, PTL

(* Together: what /healthz says of a leg is true in both directions.       *)
THEOREM ReadinessIsTrue == AgentSpec => []ReadyIsTrue
BY SucceedingAgentIsReady, DeadLegsAreNoticed, PTL DEF ReadyIsTrue

-----------------------------------------------------------------------------
(* What /healthz counts, and what a request does to the ONT.               *)

Pumping == {k \in Conns : conn[k] = "pump"}

(* A request has not reset the ONT before its reset, and leaves it after.  *)
AtMostOneReset ==
    \A q \in Rotates :
       /\ rotate[q].resets <= 1
       /\ rotate[q].pc \in {"idle", "login", "reset"} => rotate[q].resets = 0

RequestsTyped ==
    /\ probe.timer <= Interval + Timeout
    /\ conn \in [Conns -> {"idle", "dial", "hello", "pump", "done"}]
    /\ upstream \in [Conns -> BOOLEAN]
    /\ rotate \in [Rotates -> [pc: {"idle", "login", "reset", "poll", "redial", "done"},
                               wait: BOOLEAN, tries: 0..Attempts, resets: Nat]]
    /\ server \in {"serving", "closing", "aborting", "stopped"}

AgentInv == LoopInv /\ RequestsTyped /\ TunnelsCounted /\ AtMostOneReset

LEMMA CountsInitHold == AgentInit => AgentInv
<1> SUFFICES ASSUME AgentInit
             PROVE  AgentInv
  OBVIOUS
<1>1. RequestsTyped /\ AtMostOneReset
  BY AgentAssumption DEF AgentInit, RequestsTyped, AtMostOneReset
<1>2. {k \in Conns : conn[k] = "pump"} = {}
  BY DEF AgentInit
<1>3. TunnelsCounted
  BY <1>2, FS_EmptySet DEF AgentInit, TunnelsCounted
<1> QED
  BY <1>1, <1>3, AgentInitHolds DEF AgentInv

(* Starting a relay adds a tunnel, ending one takes it away, and any other *)
(* move of a handler leaves the number as it is.                           *)
LEMMA ConnKeepsCount ==
    ASSUME AgentInv, NEW k \in Conns, Arrives(k) \/ ConnStep(k)
    PROVE  TunnelsCounted'
<1> USE DEF AgentInv, RequestsTyped
<1>1. IsFiniteSet(Pumping) /\ tunnelsActive = Cardinality(Pumping)
  BY AgentAssumption, FS_Subset DEF TunnelsCounted, Pumping
<1>2. CASE conn[k] # "pump" /\ UNCHANGED tunnelsActive
           /\ \E pc \in {"dial", "hello", "done"} : ConnGoes(k, pc)
  <2>1. {j \in Conns : conn'[j] = "pump"} = Pumping
    BY <1>2 DEF ConnGoes, Pumping
  <2> QED
    BY <1>1, <1>2, <2>1 DEF TunnelsCounted
<1>3. CASE conn[k] # "pump" /\ ConnGoes(k, "pump") /\ tunnelsActive' = tunnelsActive + 1
  <2>1. {j \in Conns : conn'[j] = "pump"} = Pumping \cup {k} /\ k \notin Pumping
    BY <1>3 DEF ConnGoes, Pumping
  <2>2. Cardinality(Pumping \cup {k}) = Cardinality(Pumping) + 1
    BY <1>1, <2>1, FS_AddElement
  <2> QED
    BY <1>1, <1>3, <2>1, <2>2 DEF TunnelsCounted
<1>4. CASE PumpEnds(k)
  <2>1. {j \in Conns : conn'[j] = "pump"} = Pumping \ {k} /\ k \in Pumping
    BY <1>4 DEF PumpEnds, ConnGoes, Pumping
  <2>2. Cardinality(Pumping \ {k}) = Cardinality(Pumping) - 1
    BY <1>1, <2>1, FS_RemoveElement
  <2> QED
    BY <1>1, <1>4, <2>1, <2>2 DEF TunnelsCounted, PumpEnds
<1> QED
  BY <1>2, <1>3, <1>4 DEF Arrives, ConnStep, Dialled, Established

LEMMA ConnKeepsCounts ==
    ASSUME AgentInv, NEW k \in Conns, Arrives(k) \/ ConnStep(k)
    PROVE  AgentInv'
<1>1. RequestsTyped'
  BY DEF AgentInv, RequestsTyped, Arrives, ConnStep, Dialled, Established, PumpEnds, ConnGoes,
         loop
<1>2. AtMostOneReset'
  BY DEF AgentInv, AtMostOneReset, Arrives, ConnStep, Dialled, Established, PumpEnds
<1> QED
  BY <1>1, <1>2, ConnKeepsLoop, ConnKeepsCount DEF AgentInv

(* What a step of a request may make of it: it resets the ONT on the way   *)
(* out of "reset" and never comes back there.                              *)
LEMMA RotateMovesOn ==
    ASSUME AgentInv, NEW q \in Rotates, RotateArrives(q) \/ RotateStep(q)
    PROVE  /\ RequestsTyped' /\ AtMostOneReset' /\ UNCHANGED tunnels
<1> USE DEF AgentInv, RequestsTyped
<1>1. CASE RotateArrives(q)
  BY <1>1 DEF RotateArrives, RotateAt, RotateGoes, AtMostOneReset, tunnels, loop
<1>2. ASSUME NEW ok, Noted(q, ok), UNCHANGED <<tunnels, server>>,
             rotate[q].pc \in {"login", "poll", "redial"}
      PROVE  RequestsTyped' /\ AtMostOneReset'
  <2>1. probe'.timer = probe.timer
    BY <1>2 DEF Noted, LoopInv, LoopTyped
  <2> QED
    BY <1>2, <2>1 DEF Noted, AtMostOneReset, tunnels
<1>3. CASE Login(q)
  <2>1. CASE RotateGoes(q, "reset") /\ UNCHANGED <<health, probe>>
    BY <1>3, <2>1 DEF Login, RotateAt, RotateGoes, AtMostOneReset, tunnels
  <2>2. CASE /\ rotate[q].tries + 1 < Attempts
             /\ rotate' = [rotate EXCEPT ![q].tries = @ + 1]
             /\ UNCHANGED <<health, probe>>
    BY <1>3, <2>2, AgentAssumption DEF Login, RotateAt, AtMostOneReset, tunnels
  <2>3. CASE Noted(q, FALSE)
    BY <1>2, <1>3, <2>3 DEF Login, RotateAt
  <2> QED
    BY <1>3, <2>1, <2>2, <2>3 DEF Login
<1>4. CASE Reset(q)
  <2>1. probe'.timer = probe.timer
    BY <1>4 DEF Reset, LoopInv, LoopTyped
  <2>2. PICK pc \in {"poll", "done"} :
           rotate' = [rotate EXCEPT ![q].pc = pc, ![q].resets = @ + 1]
    BY <1>4, Zenon DEF Reset
  <2>3. rotate[q].pc = "reset" /\ UNCHANGED <<tunnels, server>>
    BY <1>4 DEF Reset, RotateAt
  <2> QED
    BY <2>1, <2>2, <2>3 DEF AtMostOneReset, tunnels
<1>5. CASE Recovered(q)
  <2>1. CASE RotateGoes(q, "redial") /\ UNCHANGED <<health, probe>>
    BY <1>5, <2>1 DEF Recovered, RotateAt, RotateGoes, AtMostOneReset, tunnels
  <2>2. CASE Noted(q, FALSE)
    BY <1>2, <1>5, <2>2 DEF Recovered, RotateAt
  <2> QED
    BY <1>5, <2>1, <2>2 DEF Recovered
<1>6. CASE Redialled(q)
  BY <1>2, <1>6 DEF Redialled, RotateAt
<1> QED
  BY <1>1, <1>2, <1>3, <1>4, <1>5, <1>6 DEF RotateStep, Login, Recovered, Redialled, Reset

LEMMA RotateKeepsCounts ==
    ASSUME AgentInv, NEW q \in Rotates, RotateArrives(q) \/ RotateStep(q)
    PROVE  AgentInv'
<1>1. TunnelsCounted'
  BY RotateMovesOn DEF AgentInv, TunnelsCounted, tunnels
<1> QED
  BY <1>1, RotateMovesOn, RotateKeepsLoop DEF AgentInv

LEMMA LoopKeepsCounts ==
    ASSUME AgentInv, AgentTick \/ Probing \/ OntStep \/ CloseBegins \/ CloseGoes
    PROVE  AgentInv'
<1>1. /\ UNCHANGED <<tunnels, rotate>>
      /\ server' \in {"serving", "closing", "aborting", "stopped"}
  BY DEF AgentInv, RequestsTyped, AgentTick, Probing, ProbeBegins, ProbeEchoes, ProbeFolds,
         OntStep, CloseBegins, CloseGoes
<1>2. probe'.timer <= Interval + Timeout
  <2>1. probe.timer \in Nat /\ probe.timer <= Interval + Timeout
    BY DEF AgentInv, LoopInv, LoopTyped, RequestsTyped
  <2>2. probe'.timer \in {0, probe.timer, probe.timer - 1, Interval, Timeout}
    <3> USE DEF AgentInv, LoopInv, LoopTyped
    <3>1. AgentTick => probe'.timer \in {0, probe.timer - 1}
      BY DEF AgentTick
    <3>2. ProbeBegins => probe'.timer = Timeout
      BY DEF ProbeBegins
    <3>3. ProbeFolds => probe'.timer = Interval
      BY DEF ProbeFolds
    <3>4. ProbeEchoes => probe'.timer = probe.timer
      BY DEF ProbeEchoes
    <3>5. CloseBegins => probe'.timer = 0
      BY DEF CloseBegins
    <3>6. OntStep \/ CloseGoes => probe'.timer = probe.timer
      BY DEF OntStep, CloseGoes, loop
    <3> QED
      BY <3>1, <3>2, <3>3, <3>4, <3>5, <3>6 DEF Probing
  <2> QED
    BY <2>1, <2>2, AgentAssumption
<1>3. RequestsTyped' /\ TunnelsCounted' /\ AtMostOneReset'
  BY <1>1, <1>2 DEF AgentInv, RequestsTyped, TunnelsCounted, AtMostOneReset, tunnels
<1> QED
  BY <1>3, LoopKeepsTime DEF AgentInv

LEMMA CountsStutter ==
    ASSUME AgentInv, UNCHANGED agentVars
    PROVE  AgentInv'
<1>1. RequestsTyped' /\ TunnelsCounted' /\ AtMostOneReset'
  BY DEF AgentInv, RequestsTyped, TunnelsCounted, AtMostOneReset, agentVars, tunnels, loop
<1> QED
  BY <1>1, AgentStutters DEF AgentInv

(* The whole invariant of the agent: the loop in time, the tunnels         *)
(* counted, and no reset before its step (proxy.py, rotate.py).            *)
THEOREM AgentInvariant == AgentSpec => []AgentInv
<1>1. AgentInit => AgentInv
  BY CountsInitHold
<1>2. AgentInv /\ [AgentNext]_agentVars => AgentInv'
  BY ConnKeepsCounts, RotateKeepsCounts, LoopKeepsCounts, CountsStutter DEF AgentNext
<1> QED
  BY <1>1, <1>2, PTL DEF AgentSpec

(* The state is well typed, tunnels_active is the number of tunnels that   *)
(* are relaying whatever ends them, and no request resets an ONT twice     *)
(* (_handle_connect, _trigger_reboot_ct, _ct_reboot_once).                 *)
THEOREM AgentStaysSound == AgentSpec => []AgentSound
<1>1. ASSUME AgentInv
      PROVE  AgentSound
  <2>1. tunnelsActive \in 0..Cardinality(Conns)
    <3>1. /\ IsFiniteSet(Pumping) /\ IsFiniteSet(Conns)
          /\ Cardinality(Pumping) <= Cardinality(Conns)
      BY AgentAssumption, FS_Subset DEF Pumping
    <3>2. tunnelsActive = Cardinality(Pumping)
      BY <1>1 DEF AgentInv, TunnelsCounted, Pumping
    <3> QED
      BY <3>1, <3>2, FS_CardinalityType
  <2>2. probe \in [pc: {"asking", "answered", "sleeping", "off"}, timer: 0..(Interval + Timeout),
                   seen: IPs \cup {NoIp}, late: BOOLEAN]
    BY <1>1, AgentAssumption DEF AgentInv, LoopInv, LoopTyped, RequestsTyped
  <2>3. AgentTypeOK
    BY <1>1, <2>1, <2>2 DEF AgentInv, LoopInv, LoopTyped, RequestsTyped, AgentTypeOK
  <2> QED
    BY <1>1, <2>3 DEF AgentInv, AgentSound, AtMostOneReset, ResetsOnce
<1> QED
  BY <1>1, AgentInvariant, PTL

-----------------------------------------------------------------------------
(* The ESP32 bucket.                                                       *)

Threads == [pc: Live \cup {"idle", "done"}, ch: 0..MaxSessions, ok: BOOLEAN]
Tasks == [pc: {"none", "ordered", "dialing", "dialed", "ready", "pump", "cut", "over"},
          on: Networks \cup {"none"}]

Started == {t \in Tunnels : tunnel[t].pc # "idle"}
Occupied == {t \in Tunnels : job[t].pc \in Holding}

ChannelTyped ==
    /\ wifi \in Networks \cup {"none"}
    /\ linked \in 0..MaxSessions
    /\ session \in [Sessions -> {"unborn", "hello", "peered", "named", "live", "closed", "over"}]
    /\ net \in [Sessions -> Networks]
    /\ esp \in 0..MaxSessions
    /\ peer \in Networks \cup {"none"}
    /\ ssid \in Networks \cup {"none"}

ThreadsTyped ==
    /\ tunnel \in [Tunnels -> Threads]
    /\ job \in [Tunnels -> Tasks]
    /\ pending \subseteq Tunnels

(* A thread and the task of its tunnel.  No task has its order before the  *)
(* thread gave it, and one that reached its target did so on a network.    *)
Paired(q, j) ==
    /\ j.pc = "pump" => q.pc \in {"waiting", "opened", "relay"} /\ q.ok
    /\ q.pc \in {"idle", "asked"} => j.pc = "none"
    /\ j.pc \in {"dialed", "ready", "pump"} => j.on # "none"

Matched ==
    /\ \A t \in Tunnels : Paired(tunnel[t], job[t])
    /\ \A t \in pending : tunnel[t].pc \in {"asked", "waiting"}

(* The counter lies between the threads that live and those that started:  *)
(* an exit may forget to count down, none counts for another.              *)
Counted ==
    /\ active \in Nat
    /\ Cardinality(LiveTunnels) <= active /\ active <= Cardinality(Started)
    /\ slots \in Nat /\ SlotsKept

RotationsTyped ==
    /\ rotation \in [Rotations -> {"idle", "done"} \cup Steps]
    /\ lock \in Rotations \cup {"none"}
    /\ rebooted \subseteq Networks

ThreadsInv == ThreadsTyped /\ Matched /\ Counted

TunnelInv == ChannelTyped /\ ThreadsInv /\ RotationsTyped /\ RotationsApart

LEMMA TunnelsFinite ==
    /\ IsFiniteSet(Tunnels)
    /\ \A s \in SUBSET Tunnels : IsFiniteSet(s) /\ Cardinality(s) \in Nat
<1>1. IsFiniteSet(Steps)
  <2>1. Steps = (({} \cup {"identify"}) \cup {"login"}) \cup {"reboot"}
    BY DEF Steps
  <2> QED
    BY <2>1, FS_EmptySet, FS_AddElement
<1>2. IsFiniteSet(Rotations \X Steps)
  BY <1>1, TunnelAssumption, FS_Product
<1>3. IsFiniteSet(Tunnels)
  BY <1>2, TunnelAssumption, FS_Union DEF Tunnels
<1> QED
  BY <1>3, FS_Subset, FS_CardinalityType

(* One tunnel moves: its thread to q, its task to j, and it may enter or   *)
(* leave the table.                                                        *)
Moved(t, q, j) ==
    /\ tunnel' = [tunnel EXCEPT ![t] = q]
    /\ job' = [job EXCEPT ![t] = j]
    /\ pending' \in {pending, pending \cup {t}, pending \ {t}}
    /\ Paired(q, j) /\ (t \in pending' => q.pc \in {"asked", "waiting"})

(* What a move may do to the counter, and to the free slots.               *)
CountedMove(t, q) ==
    \/ tunnel[t].pc = "idle" /\ q.pc = "asked" /\ active' = active + 1
    \/ tunnel[t].pc = "idle" /\ q.pc = "done" /\ active' = active
    \/ tunnel[t].pc \in Live /\ q.pc \in Live /\ active' = active
    \/ tunnel[t].pc \in Live /\ q.pc = "done" /\ active' \in {active, active - 1}
    \/ tunnel[t].pc = q.pc /\ active' = active

SlotMove(t, j) ==
    \/ (job[t].pc \in Holding <=> j.pc \in Holding) /\ slots' = slots
    \/ job[t].pc \notin Holding /\ j.pc \in Holding /\ slots > 0 /\ slots' = slots - 1
    \/ job[t].pc \in Holding /\ j.pc \notin Holding /\ slots' = slots + 1

TunnelMoves(t) ==
    \E q \in Threads, j \in Tasks : Moved(t, q, j) /\ CountedMove(t, q) /\ SlotMove(t, j)

LEMMA CounterKept ==
    ASSUME ThreadsInv, NEW t \in Tunnels, NEW q \in Threads,
           tunnel' = [tunnel EXCEPT ![t] = q], CountedMove(t, q)
    PROVE  /\ active' \in Nat
           /\ Cardinality(LiveTunnels') <= active' /\ active' <= Cardinality(Started')
<1> DEFINE l == LiveTunnels
           s == Started
<1>1. /\ IsFiniteSet(l) /\ IsFiniteSet(s) /\ Cardinality(l) \in Nat /\ Cardinality(s) \in Nat
      /\ active \in Nat /\ Cardinality(l) <= active /\ active <= Cardinality(s)
  BY TunnelsFinite DEF ThreadsInv, Counted, LiveTunnels, Started
<1>2. tunnel'[t] = q /\ \A u \in Tunnels : u # t => tunnel'[u] = tunnel[u]
  BY DEF ThreadsInv, ThreadsTyped
<1>3. CASE tunnel[t].pc = "idle" /\ q.pc = "asked" /\ active' = active + 1
  <2>1. LiveTunnels' = l \cup {t} /\ t \notin l /\ Started' = s \cup {t} /\ t \notin s
    BY <1>2, <1>3 DEF LiveTunnels, Started, Live
  <2>2. /\ Cardinality(l \cup {t}) = Cardinality(l) + 1
        /\ Cardinality(s \cup {t}) = Cardinality(s) + 1
    BY <1>1, <2>1, FS_AddElement
  <2> HIDE DEF l, s
  <2> QED
    BY <1>1, <1>3, <2>1, <2>2
<1>4. CASE tunnel[t].pc = "idle" /\ q.pc = "done" /\ active' = active
  <2>1. LiveTunnels' = l /\ Started' = s \cup {t} /\ t \notin s
    BY <1>2, <1>4 DEF LiveTunnels, Started, Live
  <2>2. Cardinality(s \cup {t}) = Cardinality(s) + 1
    BY <1>1, <2>1, FS_AddElement
  <2> HIDE DEF l, s
  <2> QED
    BY <1>1, <1>4, <2>1, <2>2
<1>5. CASE tunnel[t].pc \in Live /\ q.pc \in Live /\ active' = active
  <2>1. LiveTunnels' = l /\ Started' = s
    BY <1>2, <1>5 DEF LiveTunnels, Started, Live
  <2> HIDE DEF l, s
  <2> QED
    BY <1>1, <1>5, <2>1
<1>6. CASE tunnel[t].pc \in Live /\ q.pc = "done" /\ active' \in {active, active - 1}
  <2>1. LiveTunnels' = l \ {t} /\ t \in l /\ Started' = s
    BY <1>2, <1>6 DEF LiveTunnels, Started, Live
  <2>2. Cardinality(l \ {t}) = Cardinality(l) - 1 /\ Cardinality(l \ {t}) \in Nat
    BY <1>1, <2>1, FS_RemoveElement, FS_CardinalityType
  <2> HIDE DEF l, s
  <2> QED
    BY <1>1, <1>6, <2>1, <2>2
<1>7. CASE tunnel[t].pc = q.pc /\ active' = active
  <2>1. LiveTunnels' = l /\ Started' = s
    BY <1>2, <1>7 DEF LiveTunnels, Started
  <2> HIDE DEF l, s
  <2> QED
    BY <1>1, <1>7, <2>1
<1> QED
  BY <1>3, <1>4, <1>5, <1>6, <1>7 DEF CountedMove

LEMMA SlotsBalance ==
    ASSUME ThreadsInv, NEW t \in Tunnels, NEW j \in Tasks,
           job' = [job EXCEPT ![t] = j], SlotMove(t, j)
    PROVE  slots' \in Nat /\ SlotsKept'
<1> DEFINE o == Occupied
<1>1. /\ IsFiniteSet(o) /\ Cardinality(o) \in Nat
      /\ slots \in Nat /\ slots + Cardinality(o) = MaxTunnels
  BY TunnelsFinite DEF ThreadsInv, Counted, SlotsKept, Occupied
<1>2. job'[t] = j /\ \A u \in Tunnels : u # t => job'[u] = job[u]
  BY DEF ThreadsInv, ThreadsTyped
<1>3. SlotsKept' <=> slots' + Cardinality(Occupied') = MaxTunnels
  BY DEF SlotsKept, Occupied
<1>4. CASE (job[t].pc \in Holding <=> j.pc \in Holding) /\ slots' = slots
  <2>1. Occupied' = o
    BY <1>2, <1>4 DEF Occupied
  <2> QED
    BY <1>1, <1>3, <1>4, <2>1
<1>5. CASE job[t].pc \notin Holding /\ j.pc \in Holding /\ slots > 0 /\ slots' = slots - 1
  <2>1. Occupied' = o \cup {t} /\ t \notin o
    BY <1>2, <1>5 DEF Occupied
  <2>2. Cardinality(o \cup {t}) = Cardinality(o) + 1
    BY <1>1, <2>1, FS_AddElement
  <2> HIDE DEF o
  <2> QED
    BY <1>1, <1>3, <1>5, <2>1, <2>2
<1>6. CASE job[t].pc \in Holding /\ j.pc \notin Holding /\ slots' = slots + 1
  <2>1. Occupied' = o \ {t} /\ t \in o
    BY <1>2, <1>6 DEF Occupied
  <2>2. Cardinality(o \ {t}) = Cardinality(o) - 1
    BY <1>1, <2>1, FS_RemoveElement
  <2> HIDE DEF o
  <2> QED
    BY <1>1, <1>3, <1>6, <2>1, <2>2
<1> QED
  BY <1>4, <1>5, <1>6 DEF SlotMove

LEMMA TunnelMoveHolds ==
    ASSUME ThreadsInv, NEW t \in Tunnels, TunnelMoves(t)
    PROVE  ThreadsInv'
<1>1. PICK q \in Threads, j \in Tasks : Moved(t, q, j) /\ CountedMove(t, q) /\ SlotMove(t, j)
  BY DEF TunnelMoves
<1>2. /\ tunnel' = [tunnel EXCEPT ![t] = q] /\ job' = [job EXCEPT ![t] = j]
      /\ pending' \in {pending, pending \cup {t}, pending \ {t}}
  BY <1>1 DEF Moved
<1>3. ThreadsTyped'
  BY <1>2 DEF ThreadsInv, ThreadsTyped
<1>4. /\ tunnel'[t] = q /\ \A u \in Tunnels : u # t => tunnel'[u] = tunnel[u]
      /\ job'[t] = j /\ \A u \in Tunnels : u # t => job'[u] = job[u]
  BY <1>2 DEF ThreadsInv, ThreadsTyped
<1>5. Matched'
  <2>1. \A u \in Tunnels : Paired(tunnel'[u], job'[u])
    BY <1>1, <1>4 DEF ThreadsInv, Matched, Moved
  <2>2. \A u \in pending' : tunnel'[u].pc \in {"asked", "waiting"}
    BY <1>1, <1>2, <1>3, <1>4 DEF ThreadsInv, ThreadsTyped, Matched, Moved
  <2> QED
    BY <2>1, <2>2 DEF Matched, Paired
<1>6. Counted'
  BY <1>1, <1>2, CounterKept, SlotsBalance DEF Counted
<1> QED
  BY <1>3, <1>5, <1>6 DEF ThreadsInv

(* What the operators of the module do to the one thread and the one task. *)
LEMMA TunnelStays ==
    ASSUME ThreadsTyped, NEW t \in Tunnels
    PROVE  /\ tunnel[t] \in Threads /\ tunnel = [tunnel EXCEPT ![t] = tunnel[t]]
           /\ job[t] \in Tasks /\ job = [job EXCEPT ![t] = job[t]]
BY DEF ThreadsTyped

LEMMA ThreadGoes ==
    ASSUME ThreadsTyped, NEW t \in Tunnels, NEW pc \in Live \cup {"idle", "done"}, Goes(t, pc)
    PROVE  \E q \in Threads :
              /\ tunnel' = [tunnel EXCEPT ![t] = q]
              /\ q.pc = pc /\ (q.ok <=> tunnel[t].ok /\ pc # "done")
<1> DEFINE q == [pc |-> pc, ok |-> tunnel[t].ok /\ pc # "done",
                 ch |-> IF pc = "asked" THEN tunnel[t].ch ELSE 0]
<1>1. tunnel[t] \in Threads /\ MaxSessions \in Nat
  BY TunnelAssumption DEF ThreadsTyped
<1>2. q \in Threads
  BY <1>1 DEF Threads
<1>3. tunnel' = [tunnel EXCEPT ![t] = q]
  BY DEF Goes, ThreadsTyped
<1> QED
  BY <1>2, <1>3

LEMMA TaskCut ==
    ASSUME ThreadsTyped, NEW t \in Tunnels, Cut(t)
    PROVE  \E j \in Tasks :
              /\ job' = [job EXCEPT ![t] = j]
              /\ j.pc # "pump" /\ j.pc \in {job[t].pc, "cut"} /\ j.on = job[t].on
              /\ (job[t].pc \in Holding <=> j.pc \in Holding)
<1> DEFINE j == [job[t] EXCEPT !.pc = IF job[t].pc = "pump" THEN "cut" ELSE job[t].pc]
<1>1. job[t] \in Tasks
  BY DEF ThreadsTyped
<1>2. /\ j \in Tasks
      /\ j.pc # "pump" /\ j.pc \in {job[t].pc, "cut"} /\ j.on = job[t].on
      /\ (job[t].pc \in Holding <=> j.pc \in Holding)
  BY <1>1 DEF Tasks, Holding
<1>3. job' = [job EXCEPT ![t] = j]
  BY DEF Cut, ThreadsTyped
<1> QED
  BY <1>2, <1>3

LEMMA TaskGoes ==
    ASSUME ThreadsTyped, NEW t \in Tunnels,
           NEW pc \in {"dialing", "ready", "pump", "cut", "over"}, JobGoes(t, pc)
    PROVE  \E j \in Tasks :
              job' = [job EXCEPT ![t] = j] /\ j.pc = pc /\ (pc # "over" => j.on = job[t].on)
<1> DEFINE j == [pc |-> pc, on |-> IF pc = "over" THEN "none" ELSE job[t].on]
<1>1. job[t] \in Tasks
  BY DEF ThreadsTyped
<1>2. j \in Tasks
  BY <1>1 DEF Tasks
<1>3. job' = [job EXCEPT ![t] = j]
  BY DEF JobGoes, ThreadsTyped
<1> QED
  BY <1>2, <1>3

(* The steps of a thread of the adapter.                                   *)
LEMMA AskMoves ==
    ASSUME ThreadsInv, ChannelTyped, NEW t \in Tunnels, Ask(t)
    PROVE  TunnelMoves(t)
<1>0. ThreadsTyped
  BY DEF ThreadsInv
<1>1. /\ tunnel[t].pc = "idle" /\ Paired(tunnel[t], job[t]) /\ t \notin pending
      /\ slots' = slots /\ job' = [job EXCEPT ![t] = job[t]] /\ job[t] \in Tasks
  BY <1>0, TunnelStays DEF Ask, At, ThreadsInv, Matched, device
<1>2. CASE esp = 0
  <2>1. PICK q \in Threads : tunnel' = [tunnel EXCEPT ![t] = q] /\ q.pc = "done"
    BY <1>0, <1>2, ThreadGoes DEF Ask
  <2>2. Moved(t, q, job[t]) /\ CountedMove(t, q) /\ SlotMove(t, job[t])
    BY <1>1, <1>2, <2>1 DEF Ask, Moved, CountedMove, SlotMove, Paired
  <2> QED
    BY <1>1, <2>2 DEF TunnelMoves
<1>3. CASE esp # 0
  <2> DEFINE q == [tunnel[t] EXCEPT !.pc = "asked", !.ch = IF t \in Clients THEN 0 ELSE esp]
  <2>1. tunnel' = [tunnel EXCEPT ![t] = q]
    BY <1>0, <1>3 DEF Ask, ThreadsTyped
  <2>0. tunnel[t] \in Threads /\ (IF t \in Clients THEN 0 ELSE esp) \in 0..MaxSessions
    BY <1>0, TunnelAssumption DEF ThreadsTyped, ChannelTyped
  <2>2. q \in Threads /\ q.pc = "asked"
    BY <2>0 DEF Threads, Live
  <2>3. Moved(t, q, job[t]) /\ CountedMove(t, q) /\ SlotMove(t, job[t])
    BY <1>1, <1>3, <2>1, <2>2 DEF Ask, Moved, CountedMove, SlotMove, Paired
  <2> QED
    BY <1>1, <2>2, <2>3 DEF TunnelMoves
<1> QED
  BY <1>2, <1>3

LEMMA OrderMoves ==
    ASSUME ThreadsInv, NEW t \in Tunnels, Order(t)
    PROVE  TunnelMoves(t)
<1> DEFINE to == IF t \in Clients THEN esp ELSE tunnel[t].ch
<1>0. ThreadsTyped
  BY DEF ThreadsInv
<1>1. /\ tunnel[t].pc = "asked" /\ job[t].pc = "none" /\ job[t] \in Tasks
      /\ tunnel[t].pc \in Live /\ slots' = slots
  BY <1>0 DEF Order, At, ThreadsInv, ThreadsTyped, Matched, Paired, Live
<1>2. CASE /\ Goes(t, "waiting")
           /\ job' = [job EXCEPT ![t].pc = IF to = linked THEN "ordered" ELSE "over"]
           /\ pending' = pending /\ active' = active
  <2> DEFINE j == [job[t] EXCEPT !.pc = IF to = linked THEN "ordered" ELSE "over"]
  <2>1. PICK q \in Threads : tunnel' = [tunnel EXCEPT ![t] = q] /\ q.pc = "waiting"
    BY <1>0, <1>2, ThreadGoes DEF Live
  <2>2. job' = [job EXCEPT ![t] = j] /\ j \in Tasks /\ j.pc \in {"ordered", "over"}
    BY <1>0, <1>1, <1>2 DEF ThreadsTyped, Tasks
  <2>3. Moved(t, q, j)
    BY <1>2, <2>1, <2>2 DEF Moved, Paired
  <2>4. CountedMove(t, q) /\ SlotMove(t, j)
    BY <1>1, <1>2, <2>1, <2>2 DEF CountedMove, SlotMove, Live, Holding
  <2> QED
    BY <2>2, <2>3, <2>4 DEF TunnelMoves
<1>3. CASE Goes(t, "done") /\ pending' = pending \ {t} /\ active' = active - 1 /\ job' = job
  <2>1. PICK q \in Threads : tunnel' = [tunnel EXCEPT ![t] = q] /\ q.pc = "done"
    BY <1>0, <1>3, ThreadGoes
  <2>2. job' = [job EXCEPT ![t] = job[t]]
    BY <1>0, <1>3, TunnelStays
  <2>3. Moved(t, q, job[t]) /\ CountedMove(t, q) /\ SlotMove(t, job[t])
    BY <1>1, <1>3, <2>1, <2>2 DEF Moved, CountedMove, SlotMove, Paired
  <2> QED
    BY <1>1, <2>3 DEF TunnelMoves
<1> QED
  BY <1>2, <1>3 DEF Order

LEMMA WakeMoves ==
    ASSUME ThreadsInv, NEW t \in Tunnels, Wake(t)
    PROVE  TunnelMoves(t)
<1> DEFINE pc == IF tunnel[t].ok THEN "opened" ELSE "failed"
<1>0. ThreadsTyped
  BY DEF ThreadsInv
<1>1. /\ tunnel[t].pc = "waiting" /\ Paired(tunnel[t], job[t])
      /\ Goes(t, pc) /\ pending' = pending \ {t} /\ active' = active /\ slots' = slots
      /\ job' = [job EXCEPT ![t] = job[t]] /\ job[t] \in Tasks
  BY <1>0, TunnelStays DEF Wake, At, ThreadsInv, Matched, device
<1>2. PICK q \in Threads :
         /\ tunnel' = [tunnel EXCEPT ![t] = q]
         /\ q.pc = pc /\ (q.ok <=> tunnel[t].ok /\ pc # "done")
  BY <1>0, <1>1, ThreadGoes DEF Live
<1>3. Paired(q, job[t])
  BY <1>1, <1>2 DEF Paired
<1>4. Moved(t, q, job[t]) /\ CountedMove(t, q) /\ SlotMove(t, job[t])
  BY <1>1, <1>2, <1>3 DEF Moved, CountedMove, SlotMove, Live
<1> QED
  BY <1>1, <1>4 DEF TunnelMoves

(* A thread or a task that moves alone.                                    *)
LEMMA ThreadMovesAlone ==
    ASSUME ThreadsInv, NEW t \in Tunnels, NEW q \in Threads,
           tunnel' = [tunnel EXCEPT ![t] = q], job' = job, pending' = pending, slots' = slots,
           Paired(q, job[t]), t \notin pending, CountedMove(t, q)
    PROVE  TunnelMoves(t)
<1>1. job' = [job EXCEPT ![t] = job[t]] /\ job[t] \in Tasks
  BY TunnelStays DEF ThreadsInv
<1>2. Moved(t, q, job[t]) /\ SlotMove(t, job[t])
  BY <1>1 DEF Moved, SlotMove
<1> QED
  BY <1>1, <1>2 DEF TunnelMoves

LEMMA TaskMovesAlone ==
    ASSUME ThreadsInv, NEW t \in Tunnels, NEW j \in Tasks,
           tunnel' = tunnel, job' = [job EXCEPT ![t] = j], pending' = pending,
           active' = active, Paired(tunnel[t], j), SlotMove(t, j)
    PROVE  TunnelMoves(t)
<1>1. tunnel' = [tunnel EXCEPT ![t] = tunnel[t]] /\ tunnel[t] \in Threads
  BY TunnelStays DEF ThreadsInv
<1>2. Moved(t, tunnel[t], j) /\ CountedMove(t, tunnel[t])
  BY <1>1 DEF Moved, CountedMove, ThreadsInv, Matched
<1> QED
  BY <1>1, <1>2 DEF TunnelMoves

(* A thread ends and cuts its data connection.                             *)
LEMMA CutMoves ==
    ASSUME ThreadsInv, NEW t \in Tunnels, tunnel[t].pc \in {"opened", "relay"},
           Goes(t, "done"), Cut(t), pending' = pending, slots' = slots,
           active' \in {active, active - 1}
    PROVE  TunnelMoves(t)
<1>0. ThreadsTyped /\ Paired(tunnel[t], job[t]) /\ t \notin pending
  BY DEF ThreadsInv, Matched
<1>1. PICK q \in Threads : tunnel' = [tunnel EXCEPT ![t] = q] /\ q.pc = "done"
  BY <1>0, ThreadGoes
<1>2. PICK j \in Tasks :
         /\ job' = [job EXCEPT ![t] = j]
         /\ j.pc # "pump" /\ j.pc \in {job[t].pc, "cut"} /\ j.on = job[t].on
         /\ (job[t].pc \in Holding <=> j.pc \in Holding)
  BY <1>0, TaskCut
<1>3. Paired(q, j)
  BY <1>0, <1>1, <1>2 DEF Paired
<1>4. Moved(t, q, j) /\ CountedMove(t, q) /\ SlotMove(t, j)
  BY <1>0, <1>1, <1>2, <1>3 DEF Moved, CountedMove, SlotMove, Live
<1> QED
  BY <1>4 DEF TunnelMoves

LEMMA AnswerMoves ==
    ASSUME ThreadsInv, NEW t \in Tunnels, Answer(t)
    PROVE  TunnelMoves(t)
<1>0. /\ ThreadsTyped /\ Paired(tunnel[t], job[t])
      /\ pending' = pending /\ slots' = slots
      /\ (tunnel[t].pc \in {"opened", "failed"} => t \notin pending)
  BY DEF Answer, ThreadsInv, Matched
<1>1. CASE At(t, "opened") /\ Goes(t, "relay") /\ active' = active /\ job' = job
  <2>1. PICK q \in Threads :
           /\ tunnel' = [tunnel EXCEPT ![t] = q]
           /\ q.pc = "relay" /\ (q.ok <=> tunnel[t].ok /\ "relay" # "done")
    BY <1>0, <1>1, ThreadGoes DEF Live
  <2>2. Paired(q, job[t]) /\ CountedMove(t, q) /\ t \notin pending
    BY <1>0, <1>1, <2>1 DEF At, Paired, CountedMove, Live
  <2> QED
    BY <1>0, <1>1, <2>1, <2>2, ThreadMovesAlone
<1>2. CASE At(t, "opened") /\ Goes(t, "done") /\ Cut(t) /\ active' = active
  BY <1>0, <1>2, CutMoves DEF At
<1>3. CASE /\ At(t, "failed") /\ Goes(t, "done")
           /\ active' \in {active, active - 1} /\ job' = job
  <2>1. PICK q \in Threads : tunnel' = [tunnel EXCEPT ![t] = q] /\ q.pc = "done"
    BY <1>0, <1>3, ThreadGoes
  <2>2. Paired(q, job[t]) /\ CountedMove(t, q) /\ t \notin pending
    BY <1>0, <1>3, <2>1 DEF At, Paired, CountedMove, Live
  <2> QED
    BY <1>0, <1>3, <2>1, <2>2, ThreadMovesAlone
<1> QED
  BY <1>1, <1>2, <1>3 DEF Answer

LEMMA RelayEndsMoves ==
    ASSUME ThreadsInv, NEW t \in Tunnels, RelayEnds(t)
    PROVE  TunnelMoves(t)
<1>1. active' \in {active, active - 1}
  BY DEF RelayEnds
<1> QED
  BY <1>1, CutMoves DEF RelayEnds, At

(* The steps of a task of the device.                                      *)
LEMMA FreesMoves ==
    ASSUME ThreadsInv, NEW t \in Tunnels, job[t].pc \in Holding, Frees(t),
           UNCHANGED requests
    PROVE  TunnelMoves(t)
<1>1. PICK j \in Tasks : job' = [job EXCEPT ![t] = j] /\ j.pc = "over"
  BY TaskGoes DEF Frees, ThreadsInv
<1>2. Paired(tunnel[t], j) /\ SlotMove(t, j)
  BY <1>1 DEF ThreadsInv, Matched, Paired, SlotMove, Holding, Frees
<1> QED
  BY <1>1, <1>2, TaskMovesAlone DEF requests

LEMMA JobMoves ==
    ASSUME ThreadsInv, ChannelTyped, NEW t \in Tunnels, JobStep(t)
    PROVE  TunnelMoves(t)
<1>0. /\ ThreadsTyped /\ Paired(tunnel[t], job[t]) /\ job[t] \in Tasks
      /\ tunnel[t] \in Threads /\ slots \in Nat
  BY TunnelStays DEF ThreadsInv, Matched, Counted
<1>1. CASE TakeJob(t)
  <2>0. job[t].pc = "ordered" /\ UNCHANGED requests
    BY <1>1 DEF TakeJob, JobAt
  <2>1. PICK pc \in {"dialing", "over"} :
           /\ JobGoes(t, pc)
           /\ \/ pc = "dialing" /\ slots > 0 /\ slots' = slots - 1
              \/ pc = "over" /\ slots' = slots
    BY <1>1 DEF TakeJob
  <2>2. PICK j \in Tasks : job' = [job EXCEPT ![t] = j] /\ j.pc = pc
    BY <1>0, <2>1, TaskGoes
  <2>3. Paired(tunnel[t], j) /\ SlotMove(t, j)
    BY <1>0, <2>0, <2>1, <2>2 DEF Paired, SlotMove, Holding
  <2> QED
    BY <2>0, <2>2, <2>3, TaskMovesAlone DEF requests
<1>2. CASE Dial(t)
  <2>0. job[t].pc = "dialing" /\ UNCHANGED requests
    BY <1>2 DEF Dial, JobAt
  <2>1. CASE /\ wifi # "none" /\ slots' = slots
             /\ job' = [job EXCEPT ![t].pc = "dialed", ![t].on = wifi]
    <3> DEFINE j == [job[t] EXCEPT !.pc = "dialed", !.on = wifi]
    <3>1. job' = [job EXCEPT ![t] = j] /\ j \in Tasks /\ j.pc = "dialed" /\ j.on = wifi
      BY <1>0, <2>1 DEF ThreadsTyped, Tasks, ChannelTyped
    <3>2. Paired(tunnel[t], j) /\ SlotMove(t, j)
      BY <1>0, <2>0, <2>1, <3>1 DEF Paired, SlotMove, Holding
    <3> QED
      BY <2>0, <3>1, <3>2, TaskMovesAlone DEF requests
  <2>2. CASE Frees(t)
    BY <2>0, <2>2, FreesMoves DEF Holding
  <2> QED
    BY <1>2, <2>1, <2>2 DEF Dial
<1>3. CASE DataConnect(t)
  <2>0. job[t].pc = "dialed" /\ UNCHANGED requests
    BY <1>3 DEF DataConnect, JobAt
  <2>1. CASE JobGoes(t, "ready") /\ slots' = slots
    <3>1. PICK j \in Tasks :
             job' = [job EXCEPT ![t] = j] /\ j.pc = "ready" /\ j.on = job[t].on
      BY <1>0, <2>1, TaskGoes
    <3>2. Paired(tunnel[t], j) /\ SlotMove(t, j)
      BY <1>0, <2>0, <2>1, <3>1 DEF Paired, SlotMove, Holding
    <3> QED
      BY <2>0, <3>1, <3>2, TaskMovesAlone DEF requests
  <2>2. CASE Frees(t)
    BY <2>0, <2>2, FreesMoves DEF Holding
  <2> QED
    BY <1>3, <2>1, <2>2 DEF DataConnect
<1>4. CASE Tready(t)
  <2>0. job[t].pc = "ready" /\ UNCHANGED <<pending, active, slots>>
    BY <1>4 DEF Tready, JobAt
  <2>1. CASE t \in pending
    <3> DEFINE q == [tunnel[t] EXCEPT !.ok = TRUE]
    <3>1. tunnel' = [tunnel EXCEPT ![t] = q] /\ q \in Threads
      BY <1>0, <1>4, <2>1 DEF Tready, ThreadsTyped, Threads
    <3>2. tunnel[t].pc = "waiting" /\ q.pc = "waiting" /\ q.ok
      BY <1>0, <2>0, <2>1 DEF ThreadsInv, Matched, Paired, Threads
    <3>3. PICK j \in Tasks :
             job' = [job EXCEPT ![t] = j] /\ j.pc = "pump" /\ j.on = job[t].on
      BY <1>0, <1>4, <2>1, TaskGoes DEF Tready
    <3>4. Moved(t, q, j)
      BY <1>0, <2>0, <3>1, <3>2, <3>3 DEF Moved, Paired
    <3>5. CountedMove(t, q) /\ SlotMove(t, j)
      BY <2>0, <3>2, <3>3 DEF CountedMove, SlotMove, Holding
    <3> QED
      BY <3>1, <3>4, <3>5 DEF TunnelMoves
  <2>2. CASE t \notin pending
    <3>1. PICK j \in Tasks : job' = [job EXCEPT ![t] = j] /\ j.pc = "cut"
      BY <1>0, <1>4, <2>2, TaskGoes DEF Tready
    <3>2. tunnel' = tunnel /\ Paired(tunnel[t], j) /\ SlotMove(t, j)
      BY <1>0, <1>4, <2>0, <2>2, <3>1 DEF Tready, Paired, SlotMove, Holding
    <3> QED
      BY <2>0, <3>1, <3>2, TaskMovesAlone
  <2> QED
    BY <2>1, <2>2
<1>5. CASE TaskEnds(t)
  BY <1>5, FreesMoves DEF TaskEnds, Holding
<1> QED
  BY <1>1, <1>2, <1>3, <1>4, <1>5 DEF JobStep

(* A step of a rotation moves the tunnel of the step, unless that one is   *)
(* over already.                                                           *)
LEMMA MifiMoves ==
    ASSUME ThreadsInv, RotationsTyped, NEW r \in Rotations, MifiStep(r)
    PROVE  \/ UNCHANGED <<tunnel, job, pending, active, slots>>
           \/ \E t \in Tunnels : TunnelMoves(t)
<1> DEFINE t == <<r, rotation[r]>>
<1>1. rotation[r] \in Steps
  BY DEF MifiStep, RotateFails, RotateAsks
<1>2. t \in Tunnels
  BY <1>1 DEF Tunnels
<1>3. CASE RotateFails(r)
  <2>0. pending' = pending /\ slots' = slots /\ job' = job
    BY <1>3 DEF RotateFails, device
  <2>1. CASE At(t, "failed") /\ Goes(t, "done") /\ active' = active - 1
    <3>0. /\ ThreadsTyped /\ Paired(tunnel[t], job[t]) /\ t \notin pending
          /\ tunnel[t].pc = "failed"
      BY <1>2, <2>1 DEF ThreadsInv, Matched, At
    <3>1. PICK q \in Threads : tunnel' = [tunnel EXCEPT ![t] = q] /\ q.pc = "done"
      BY <1>2, <2>1, <3>0, ThreadGoes
    <3>2. Paired(q, job[t]) /\ CountedMove(t, q)
      BY <2>1, <3>0, <3>1 DEF Paired, CountedMove, Live
    <3>3. TunnelMoves(t)
      BY <1>2, <2>0, <3>0, <3>1, <3>2, ThreadMovesAlone
    <3> QED
      BY <1>2, <3>3
  <2>2. CASE UNCHANGED <<tunnel, active>>
    BY <2>0, <2>2
  <2> QED
    BY <1>3, <2>1, <2>2 DEF RotateFails
<1>4. CASE RotateAsks(r)
  <2>1. /\ tunnel[t].pc = "opened" /\ Goes(t, "done") /\ Cut(t)
        /\ pending' = pending /\ slots' = slots /\ active' = active
    BY <1>4 DEF RotateAsks, At
  <2>2. TunnelMoves(t)
    BY <1>2, <2>1, CutMoves
  <2> QED
    BY <1>2, <2>2
<1> QED
  BY <1>3, <1>4 DEF MifiStep

(* An order that is lost occupied no slot.                                 *)
LEMMA UnlinkKeeps ==
    ASSUME ThreadsInv, NEW w, Unlink(w)
    PROVE  ThreadsInv'
<1>1. /\ UNCHANGED <<tunnel, pending, active, slots>>
      /\ job' = [t \in Tunnels |->
                   IF job[t].pc = "ordered" THEN [job[t] EXCEPT !.pc = "over"] ELSE job[t]]
  BY DEF Unlink, requests
<1>2. \A t \in Tunnels :
         /\ job'[t] \in Tasks
         /\ job'[t] = job[t] \/ (job[t].pc = "ordered" /\ job'[t].pc = "over")
  BY <1>1 DEF ThreadsInv, ThreadsTyped, Tasks
<1>3. ThreadsTyped'
  BY <1>1, <1>2 DEF ThreadsInv, ThreadsTyped
<1>4. Matched'
  <2>1. \A t \in Tunnels : Paired(tunnel[t], job'[t])
    BY <1>2 DEF ThreadsInv, Matched, Paired
  <2> QED
    BY <1>1, <2>1 DEF ThreadsInv, Matched, Paired
<1>5. Counted'
  <2>1. Occupied' = Occupied
    BY <1>2 DEF Occupied, Holding
  <2>2. LiveTunnels' = LiveTunnels /\ Started' = Started
    BY <1>1 DEF LiveTunnels, Started
  <2> QED
    BY <1>1, <2>1, <2>2 DEF ThreadsInv, Counted, SlotsKept, Occupied
<1> QED
  BY <1>3, <1>4, <1>5 DEF ThreadsInv

LEMMA ThreadsRest ==
    ASSUME ThreadsInv, UNCHANGED <<tunnel, job, pending, active, slots>>
    PROVE  ThreadsInv'
BY DEF ThreadsInv, ThreadsTyped, Matched, Paired, Counted, SlotsKept, LiveTunnels, Started

LEMMA ThreadsStep ==
    ASSUME ThreadsInv, ChannelTyped, RotationsTyped, TunnelNext
    PROVE  ThreadsInv'
<1>1. CASE Connect \/ WifiJoins
  BY <1>1, ThreadsRest DEF Connect, WifiJoins, requests
<1>2. CASE SessionLost \/ WifiLost
  BY <1>2, UnlinkKeeps DEF SessionLost, WifiLost
<1>3. CASE \E n \in Sessions : HelloPeer(n) \/ HelloSsid(n) \/ HelloTakes(n) \/ ControlEnds(n)
  BY <1>3, ThreadsRest DEF HelloPeer, HelloSsid, HelloTakes, ControlEnds, device, requests
<1>4. ASSUME NEW t \in Tunnels, AdapterStep(t) \/ JobStep(t)
      PROVE  ThreadsInv'
  BY <1>4, AskMoves, OrderMoves, WakeMoves, JobMoves, TunnelMoveHolds DEF AdapterStep
<1>5. ASSUME NEW c \in Clients, ClientStep(c)
      PROVE  ThreadsInv'
  <2>1. c \in Tunnels
    BY DEF Tunnels
  <2> QED
    BY <1>5, <2>1, AnswerMoves, RelayEndsMoves, TunnelMoveHolds DEF ClientStep
<1>6. ASSUME NEW r \in Rotations, RotateBegins(r)
      PROVE  ThreadsInv'
  BY <1>6, ThreadsRest DEF RotateBegins, device, requests
<1>7. ASSUME NEW r \in Rotations, MifiStep(r)
      PROVE  ThreadsInv'
  BY <1>7, MifiMoves, ThreadsRest, TunnelMoveHolds
<1> QED
  BY <1>1, <1>2, <1>3, <1>4, <1>5, <1>6, <1>7 DEF TunnelNext

(* The control channel.                                                    *)
LEMMA ChannelStep ==
    ASSUME ChannelTyped, TunnelNext
    PROVE  ChannelTyped'
<1> USE TunnelAssumption DEF ChannelTyped
<1>1. CASE Connect
  BY <1>1 DEF Connect, Sessions
<1>2. CASE SessionLost \/ WifiLost
  BY <1>2 DEF SessionLost, WifiLost, Unlink, control
<1>3. CASE WifiJoins
  BY <1>3 DEF WifiJoins, control
<1>4. ASSUME NEW n \in Sessions, HelloPeer(n) \/ HelloSsid(n)
      PROVE  ChannelTyped'
  BY <1>4 DEF HelloPeer, HelloSsid, device
<1>5. ASSUME NEW n \in Sessions, HelloTakes(n)
      PROVE  ChannelTyped'
  BY <1>5 DEF HelloTakes, device, Sessions
<1>6. ASSUME NEW n \in Sessions, ControlEnds(n)
      PROVE  ChannelTyped'
  BY <1>6 DEF ControlEnds, device
<1>7. ASSUME \/ \E t \in Tunnels : AdapterStep(t) \/ JobStep(t)
             \/ \E c \in Clients : ClientStep(c)
             \/ \E r \in Rotations : RotateBegins(r) \/ MifiStep(r)
      PROVE  ChannelTyped'
  <2>1. UNCHANGED <<wifi, linked, control>>
    BY <1>7 DEF AdapterStep, Ask, Order, Wake, JobStep, TakeJob, Dial, DataConnect, Tready,
                TaskEnds, ClientStep, Answer, RelayEnds, RotateBegins, MifiStep,
                RotateFails, RotateAsks, device
  <2> QED
    BY <2>1 DEF control
<1> QED
  BY <1>1, <1>2, <1>3, <1>4, <1>5, <1>6, <1>7 DEF TunnelNext

(* The lock is taken and given back with the state of its rotation.        *)
LEMMA RotationsStep ==
    ASSUME ThreadsInv, RotationsTyped, RotationsApart, TunnelNext
    PROVE  RotationsTyped' /\ RotationsApart'
<1> DEFINE freed == {"idle", "done"}
<1>0. "done" \notin Steps /\ "idle" \notin Steps /\ \A r \in Rotations : r # "none"
  BY TunnelAssumption DEF Steps
<1>1. ASSUME NEW r \in Rotations, RotateBegins(r)
      PROVE  RotationsTyped' /\ RotationsApart'
  <2>1. rotation[r] = "idle" /\ rebooted' = rebooted
    BY <1>1 DEF RotateBegins
  <2>2. CASE /\ lock = "none" /\ lock' = r
             /\ rotation' = [rotation EXCEPT ![r] = "identify"]
    <3>1. "identify" \in Steps
      BY DEF Steps
    <3> QED
      BY <1>0, <2>1, <2>2, <3>1 DEF RotationsTyped, RotationsApart
  <2>3. CASE lock' = lock /\ rotation' = [rotation EXCEPT ![r] = "done"]
    BY <1>0, <2>1, <2>3 DEF RotationsTyped, RotationsApart
  <2> QED
    BY <1>1, <2>2, <2>3 DEF RotateBegins
<1>2. ASSUME NEW r \in Rotations, rotation[r] \in Steps, Unlock(r), rebooted' \subseteq Networks
      PROVE  RotationsTyped' /\ RotationsApart'
  <2>1. lock = r /\ lock' = "none" /\ rotation' = [rotation EXCEPT ![r] = "done"]
    BY <1>2 DEF RotationsApart, Unlock
  <2> QED
    BY <1>0, <1>2, <2>1 DEF RotationsTyped, RotationsApart
<1>3. ASSUME NEW r \in Rotations, MifiStep(r)
      PROVE  RotationsTyped' /\ RotationsApart'
  <2>1. rotation[r] \in Steps
    BY <1>3 DEF MifiStep, RotateFails, RotateAsks
  <2>2. CASE RotateFails(r)
    BY <1>2, <2>1, <2>2 DEF RotateFails, RotationsTyped
  <2>3. CASE RotateAsks(r)
    <3>1. CASE /\ UNCHANGED <<lock, rebooted>>
               /\ \E s \in Steps : rotation' = [rotation EXCEPT ![r] = s]
      BY <2>1, <3>1 DEF RotationsTyped, RotationsApart
    <3>2. CASE Unlock(r)
      <4>1. /\ job[<<r, rotation[r]>>] \in Tasks
            /\ job[<<r, rotation[r]>>].pc = "pump" => job[<<r, rotation[r]>>].on # "none"
        BY <2>1 DEF ThreadsInv, ThreadsTyped, Matched, Paired, Tunnels
      <4>2. rebooted' \subseteq Networks
        <5>1. \/ rebooted' = rebooted
              \/ /\ rebooted' = rebooted \cup {job[<<r, rotation[r]>>].on}
                 /\ job[<<r, rotation[r]>>].pc = "pump"
          BY <2>3, <3>2 DEF RotateAsks
        <5> QED
          BY <4>1, <5>1 DEF RotationsTyped, Tasks
      <4> QED
        BY <1>2, <2>1, <3>2, <4>2
    <3> QED
      BY <2>3, <3>1, <3>2 DEF RotateAsks, Steps
  <2> QED
    BY <1>3, <2>2, <2>3 DEF MifiStep
<1>4. CASE \/ Connect \/ SessionLost \/ WifiLost \/ WifiJoins
           \/ \E n \in Sessions : HelloPeer(n) \/ HelloSsid(n) \/ HelloTakes(n) \/ ControlEnds(n)
           \/ \E t \in Tunnels : AdapterStep(t) \/ JobStep(t)
           \/ \E c \in Clients : ClientStep(c)
  <2>1. UNCHANGED rotations
    BY <1>4 DEF Connect, SessionLost, WifiLost, Unlink, WifiJoins, HelloPeer, HelloSsid,
                HelloTakes, ControlEnds, AdapterStep, Ask, Order, Wake, JobStep, TakeJob,
                Dial, DataConnect, Tready, TaskEnds, ClientStep, Answer, RelayEnds
  <2> QED
    BY <2>1 DEF rotations, RotationsTyped, RotationsApart
<1> QED
  BY <1>1, <1>3, <1>4 DEF TunnelNext

LEMMA TunnelStarts == TunnelInit => TunnelInv
<1> SUFFICES ASSUME TunnelInit PROVE TunnelInv
  OBVIOUS
<1>0. MaxSessions \in Nat /\ MaxTunnels \in Nat
  BY TunnelAssumption
<1>1. ChannelTyped
  BY <1>0 DEF TunnelInit, ChannelTyped, Networks
<1>2. ThreadsTyped
  BY <1>0 DEF TunnelInit, ThreadsTyped, Threads, Tasks
<1>3. Matched
  BY DEF TunnelInit, Matched, Paired
<1>4. LiveTunnels = {} /\ Started = {} /\ Occupied = {}
  BY DEF TunnelInit, LiveTunnels, Started, Occupied, Live, Holding
<1>5. Counted
  <2>1. Cardinality(LiveTunnels) = 0 /\ Cardinality(Started) = 0 /\ Cardinality(Occupied) = 0
    BY <1>4, FS_EmptySet
  <2>2. active = 0 /\ slots = MaxTunnels
    BY DEF TunnelInit
  <2> QED
    BY <1>0, <2>1, <2>2 DEF Counted, SlotsKept, Occupied
<1>6. RotationsTyped /\ RotationsApart
  BY TunnelAssumption DEF TunnelInit, RotationsTyped, RotationsApart, Steps
<1> QED
  BY <1>1, <1>2, <1>3, <1>5, <1>6 DEF TunnelInv, ThreadsInv

(* In every reachable state threads, tasks, slots and the lock of the      *)
(* bucket agree, for any number of clients and rotations.                  *)
THEOREM TunnelInvariant == TunnelSpec => []TunnelInv
<1>1. TunnelInv /\ [TunnelNext]_tunnelVars => TunnelInv'
  <2> SUFFICES ASSUME TunnelInv, [TunnelNext]_tunnelVars PROVE TunnelInv'
    OBVIOUS
  <2>0. ChannelTyped /\ ThreadsInv /\ RotationsTyped /\ RotationsApart
    BY DEF TunnelInv
  <2>1. CASE TunnelNext
    BY <2>0, <2>1, ThreadsStep, ChannelStep, RotationsStep DEF TunnelInv
  <2>2. CASE UNCHANGED tunnelVars
    <3>1. UNCHANGED <<wifi, linked, control, rotations, tunnel, job, pending, active, slots>>
      BY <2>2 DEF tunnelVars, device, requests
    <3>2. ThreadsInv'
      BY <2>0, <3>1, ThreadsRest
    <3>3. ChannelTyped'
      BY <2>0, <3>1 DEF control, ChannelTyped
    <3>4. RotationsTyped' /\ RotationsApart'
      BY <2>0, <3>1 DEF rotations, RotationsTyped, RotationsApart
    <3> QED
      BY <3>2, <3>3, <3>4 DEF TunnelInv
  <2> QED
    BY <2>1, <2>2
<1> QED
  BY TunnelStarts, <1>1, PTL DEF TunnelSpec

(* The counter never falls below the threads that run a tunnel, every slot *)
(* of the device is held by one task or free, and the lock of mifi_rotate  *)
(* is held exactly while a rotation is at one of its steps.                *)
THEOREM TunnelStaysSound == TunnelSpec => []TunnelSound
<1>1. TunnelInv => TunnelSound
  <2> SUFFICES ASSUME TunnelInv PROVE TunnelSound
    OBVIOUS
  <2>0. ChannelTyped /\ ThreadsTyped /\ Counted /\ RotationsTyped /\ RotationsApart
    BY DEF TunnelInv, ThreadsInv
  <2>1. active \in Count
    <3>1. Cardinality(Started) <= Cardinality(Tunnels)
      BY TunnelsFinite, FS_Subset DEF Started
    <3> QED
      BY <2>0, <3>1, TunnelsFinite DEF Counted, Count, Started
  <2>2. slots \in 0..MaxTunnels
    <3>1. Cardinality(Occupied) \in Nat
      BY TunnelsFinite DEF Occupied
    <3>2. slots \in Nat /\ slots + Cardinality(Occupied) = MaxTunnels
      BY <2>0 DEF Counted, SlotsKept, Occupied
    <3> QED
      BY <3>1, <3>2, TunnelAssumption
  <2>3. TunnelTypeOK
    BY <2>0, <2>1, <2>2 DEF ChannelTyped, ThreadsTyped, Threads, Tasks, RotationsTyped,
                            TunnelTypeOK
  <2> QED
    BY <2>0, <2>3 DEF Counted, TunnelSound, ActiveCoversLive
<1> QED
  BY <1>1, TunnelInvariant, PTL

(* A data connection that carries traffic belongs to a thread that waits   *)
(* for it or relays it, and only threads that still wait are in the table  *)
(* (handle_conn, open_tunnel).                                             *)
THEOREM DataKeepsOwner == TunnelSpec => []DataHasOwner
<1>1. TunnelInv => DataHasOwner
  BY DEF TunnelInv, ThreadsInv, Matched, Paired, DataHasOwner
<1> QED
  BY <1>1, TunnelInvariant, PTL

=============================================================================
