---------------------------- MODULE DeviceTunnel ----------------------------
(***************************************************************************)
(* The ESP32 bucket: the adapter beside the gateway                        *)
(* (esp32_bucket_adapter.py), whose threads share a control channel, a     *)
(* table of pending tunnels and a counter, and the firmware (main.cpp),    *)
(* which dials out over one of two WiFi networks.  The address a network   *)
(* shows to the world is the network's name; a network's router answers at *)
(* the same private address on both.                                       *)
(***************************************************************************)
EXTENDS Naturals, FiniteSets

CONSTANTS
    Clients,      \* CONNECT requests of the gateway
    Rotations,    \* POST /rotate requests
    MaxSessions,  \* bound on the control sessions of the device
    MaxTunnels    \* MAX_TUNNELS of the firmware

ASSUME TunnelAssumption ==
    /\ IsFiniteSet(Clients) /\ IsFiniteSet(Rotations) /\ "none" \notin Rotations
    /\ MaxSessions \in Nat \ {0}
    /\ MaxTunnels \in Nat \ {0}

VARIABLES
    wifi,      \* the network the device is on
    linked,    \* the control session the device holds, 0 if none
    session,   \* control connection -> how far its thread in the adapter is
    net,       \* control connection -> the network it was made from
    esp,       \* the registered control connection, 0 is None
    peer,      \* esp_peer
    ssid,      \* esp_ssid
    tunnel,    \* tunnel -> its thread in the adapter
    pending,   \* the tunnels that wait to be matched
    active,    \* stats["active"]
    job,       \* tunnel -> its task in the device
    slots,     \* free tunnel slots of the device
    rotation,  \* rotation -> how far mifi_rotate is
    lock,      \* the rotation that holds rotate_lock
    rebooted   \* the networks whose router was told to reboot

device == <<wifi, linked, job, slots>>
control == <<session, net, esp, peer, ssid>>
requests == <<tunnel, pending, active>>
rotations == <<rotation, lock, rebooted>>
tunnelVars == <<device, control, requests, rotations>>

-----------------------------------------------------------------------------

Sessions == 1..MaxSessions
Networks == {"mifi", "home"}

(* mifi_rotate opens one tunnel per step.                                  *)
Steps == {"identify", "login", "reboot"}
Tunnels == Clients \cup (Rotations \X Steps)

(* A thread that failed has left the table but not yet answered.           *)
Live == {"asked", "waiting", "opened", "failed", "relay"}

Count == 0..Cardinality(Tunnels)

TunnelTypeOK ==
    /\ wifi \in Networks \cup {"none"}
    /\ linked \in 0..MaxSessions
    /\ session \in [Sessions -> {"unborn", "hello", "peered", "named", "live", "closed", "over"}]
    /\ net \in [Sessions -> Networks]
    /\ esp \in 0..MaxSessions
    /\ peer \in Networks \cup {"none"}
    /\ ssid \in Networks \cup {"none"}
    /\ tunnel \in [Tunnels -> [pc: Live \cup {"idle", "done"}, ch: 0..MaxSessions,
                               ok: BOOLEAN]]
    /\ pending \subseteq Tunnels
    /\ active \in Count
    /\ job \in [Tunnels -> [pc: {"none", "ordered", "dialing", "dialed", "ready", "pump",
                                 "cut", "over"},
                            on: Networks \cup {"none"}]]
    /\ slots \in 0..MaxTunnels
    /\ rotation \in [Rotations -> {"idle", "done"} \cup Steps]
    /\ lock \in Rotations \cup {"none"}
    /\ rebooted \subseteq Networks

TunnelInit ==
    /\ wifi = "none"
    /\ linked = 0
    /\ session = [n \in Sessions |-> "unborn"]
    /\ net = [n \in Sessions |-> "mifi"]
    /\ esp = 0 /\ peer = "none" /\ ssid = "none"
    /\ tunnel = [t \in Tunnels |-> [pc |-> "idle", ch |-> 0, ok |-> FALSE]]
    /\ pending = {}
    /\ active = 0
    /\ job = [t \in Tunnels |-> [pc |-> "none", on |-> "none"]]
    /\ slots = MaxTunnels
    /\ rotation = [r \in Rotations |-> "idle"]
    /\ lock = "none"
    /\ rebooted = {}

-----------------------------------------------------------------------------
(* The control channel.                                                    *)

(* loop, runControlSession: the device is on a network and says HELLO.     *)
Connect ==
    /\ wifi # "none" /\ linked = 0
    /\ \E n \in Sessions :
         /\ session[n] = "unborn" /\ \A m \in Sessions : m < n => session[m] # "unborn"
         /\ linked' = n
         /\ session' = [session EXCEPT ![n] = "hello"]
         /\ net' = [net EXCEPT ![n] = wifi]
    /\ UNCHANGED <<wifi, job, slots, esp, peer, ssid, requests, rotations>>

(* handle_conn notes the peer, then the network named in the HELLO, then   *)
(* takes the place of the connection before it, each on its own.           *)
HelloPeer(n) ==
    /\ session[n] = "hello"
    /\ session' = [session EXCEPT ![n] = "peered"]
    /\ peer' = net[n]
    /\ UNCHANGED <<device, net, esp, ssid, requests, rotations>>

HelloSsid(n) ==
    /\ session[n] = "peered"
    /\ session' = [session EXCEPT ![n] = "named"]
    /\ ssid' = net[n]
    /\ UNCHANGED <<device, net, esp, peer, requests, rotations>>

HelloTakes(n) ==
    /\ session[n] = "named"
    /\ session' = [m \in Sessions |-> IF m = n THEN "live"
                                      ELSE IF m = esp THEN "closed" ELSE session[m]]
    /\ esp' = n
    /\ UNCHANGED <<device, net, peer, ssid, requests, rotations>>

(* recv returns: the device is gone and the adapter hears of it, or        *)
(* another HELLO closed the connection.                                    *)
ControlEnds(n) ==
    /\ session[n] = "closed" \/ (session[n] = "live" /\ linked # n)
    /\ session' = [session EXCEPT ![n] = "over"]
    /\ esp' = IF esp = n THEN 0 ELSE esp
    /\ UNCHANGED <<device, net, peer, ssid, requests, rotations>>

(* The device lost its control session (closed, or 90 s of silence) or its *)
(* network; what was ordered and not yet read is lost.                     *)
Unlink(wifi2) ==
    /\ linked # 0 \/ wifi # wifi2
    /\ wifi' = wifi2
    /\ linked' = 0
    /\ job' = [t \in Tunnels |->
                 IF job[t].pc = "ordered" THEN [job[t] EXCEPT !.pc = "over"] ELSE job[t]]
    /\ UNCHANGED <<slots, control, requests, rotations>>

SessionLost == linked # 0 /\ Unlink(wifi)
WifiLost == wifi # "none" /\ Unlink("none")

(* checkWifiFallback, maybeReturnToPrimary: the device joins a network.    *)
WifiJoins ==
    /\ wifi = "none"
    /\ \E w \in Networks : wifi' = w
    /\ UNCHANGED <<linked, job, slots, control, requests, rotations>>

-----------------------------------------------------------------------------
(* A tunnel in the adapter: http_handler, open_tunnel.                     *)

At(t, pc) == tunnel[t].pc = pc
Goes(t, pc) ==
    tunnel' = [tunnel EXCEPT ![t] =
                 [pc |-> pc, ok |-> @.ok /\ pc # "done", ch |-> IF pc = "asked" THEN @.ch ELSE 0]]

(* Registered and counted under the lock, or refused.                      *)
Ask(t) ==
    /\ At(t, "idle")
    /\ IF esp = 0
       THEN Goes(t, "done") /\ UNCHANGED <<pending, active>>
       ELSE /\ tunnel' = [tunnel EXCEPT ![t].pc = "asked",
                                           ![t].ch = IF t \in Clients THEN 0 ELSE esp]
            /\ pending' = pending \cup {t}
            /\ active' = active + 1
    /\ UNCHANGED <<device, control, rotations>>

Open == {n \in Sessions : session[n] = "live"}

(* A CONNECT reads the global control connection once more, a rotation     *)
(* kept it; None or a closed socket fails, a dead one swallows the order.  *)
Order(t) ==
    LET to == IF t \in Clients THEN esp ELSE tunnel[t].ch
    IN /\ At(t, "asked")
       /\ \/ /\ to \in Open
             /\ Goes(t, "waiting")
             /\ job' = [job EXCEPT ![t].pc = IF to = linked THEN "ordered" ELSE "over"]
             /\ UNCHANGED <<pending, active>>
          \/ /\ to \notin Open \/ to # linked
             /\ Goes(t, "done")
             /\ pending' = pending \ {t}
             /\ active' = active - 1
             /\ UNCHANGED job
       /\ UNCHANGED <<wifi, linked, slots, control, rotations>>

(* Fault: the entry stays in the table after a timeout.                    *)
WakeKeeping(t) ==
    /\ At(t, "waiting")
    /\ Goes(t, IF tunnel[t].ok THEN "opened" ELSE "failed")
    /\ pending' = IF tunnel[t].ok THEN pending \ {t} ELSE pending
    /\ UNCHANGED <<device, control, active, rotations>>

(* Fault: the wait has no timeout.                                         *)
WakeUntimed(t) ==
    /\ At(t, "waiting") /\ tunnel[t].ok
    /\ Goes(t, "opened")
    /\ pending' = pending \ {t}
    /\ UNCHANGED <<device, control, active, rotations>>

(* The wait is over: by a TREADY, by an ERR line, or by its timeout.       *)
Wake(t) ==
    /\ At(t, "waiting")
    /\ Goes(t, IF tunnel[t].ok THEN "opened" ELSE "failed")
    /\ pending' = pending \ {t}
    /\ UNCHANGED <<device, control, active, rotations>>

(* The adapter's end of a data connection goes; the device will notice.    *)
Cut(t) == job' = [job EXCEPT ![t].pc = IF @ = "pump" THEN "cut" ELSE @]

(* Fault: the counter goes down when the relay starts and when it ends.    *)
AnswerCounted(c) ==
    /\ \/ At(c, "opened") /\ Goes(c, "relay") /\ active' = active - 1 /\ UNCHANGED job
       \/ At(c, "failed") /\ Goes(c, "done") /\ active' = active - 1 /\ UNCHANGED job
    /\ UNCHANGED <<wifi, linked, slots, control, pending, rotations>>

(* The client is told.  When it is gone by then, the handler's except      *)
(* clause closes it and the counter is not put back.                       *)
Answer(c) ==
    /\ \/ At(c, "opened") /\ Goes(c, "relay") /\ UNCHANGED <<active, job>>
       \/ At(c, "opened") /\ Goes(c, "done") /\ Cut(c) /\ UNCHANGED active
       \/ At(c, "failed") /\ Goes(c, "done") /\ active' = active - 1 /\ UNCHANGED job
       \/ At(c, "failed") /\ Goes(c, "done") /\ UNCHANGED <<active, job>>
    /\ UNCHANGED <<wifi, linked, slots, control, pending, rotations>>

(* relay: either side closed, or RELAY_IDLE_S passed.                      *)
RelayEnds(c) ==
    /\ At(c, "relay")
    /\ Goes(c, "done")
    /\ Cut(c)
    /\ active' = IF active = 0 THEN 0 ELSE active - 1
    /\ UNCHANGED <<wifi, linked, slots, control, pending, rotations>>

-----------------------------------------------------------------------------
(* A tunnel in the device: startTunnel, tunnelTask, pump.                  *)

JobAt(t, pc) == job[t].pc = pc
JobGoes(t, pc) ==
    job' = [job EXCEPT ![t] = [pc |-> pc, on |-> IF pc = "over" THEN "none" ELSE @.on]]

(* The task is over, with an ERR line if it failed, and its slot is free.  *)
Frees(t) == JobGoes(t, "over") /\ slots' = slots + 1

(* A slot, or after 3 s "busy".                                            *)
TakeJob(t) ==
    /\ JobAt(t, "ordered")
    /\ \/ slots > 0 /\ slots' = slots - 1 /\ JobGoes(t, "dialing")
       \/ slots = 0 /\ JobGoes(t, "over") /\ UNCHANGED slots
    /\ UNCHANGED <<wifi, linked, control, requests, rotations>>

(* The target first.                                                       *)
Dial(t) ==
    /\ JobAt(t, "dialing")
    /\ \/ /\ wifi # "none"
          /\ job' = [job EXCEPT ![t].pc = "dialed", ![t].on = wifi]
          /\ UNCHANGED slots
       \/ Frees(t)
    /\ UNCHANGED <<wifi, linked, control, requests, rotations>>

(* Then the data connection, with TREADY on it.                            *)
DataConnect(t) ==
    /\ JobAt(t, "dialed")
    /\ \/ wifi # "none" /\ JobGoes(t, "ready") /\ UNCHANGED slots
       \/ Frees(t)
    /\ UNCHANGED <<wifi, linked, control, requests, rotations>>

(* Fault: a TREADY is paired with any waiter there is.                     *)
TreadyAnyone(t) ==
    /\ JobAt(t, "ready")
    /\ IF pending # {}
       THEN \E u \in pending : tunnel' = [tunnel EXCEPT ![u].ok = TRUE] /\ JobGoes(t, "pump")
       ELSE JobGoes(t, "cut") /\ UNCHANGED tunnel
    /\ UNCHANGED <<wifi, linked, slots, control, pending, active, rotations>>

(* handle_conn pairs it with its waiter, or closes it as unknown.          *)
Tready(t) ==
    /\ JobAt(t, "ready")
    /\ IF t \in pending
       THEN tunnel' = [tunnel EXCEPT ![t].ok = TRUE] /\ JobGoes(t, "pump")
       ELSE JobGoes(t, "cut") /\ UNCHANGED tunnel
    /\ UNCHANGED <<wifi, linked, slots, control, pending, active, rotations>>

(* pump ends: a side closed, or TUNNEL_IDLE_MS passed.                     *)
TaskEnds(t) ==
    /\ job[t].pc \in {"pump", "cut"}
    /\ Frees(t)
    /\ UNCHANGED <<wifi, linked, control, requests, rotations>>

-----------------------------------------------------------------------------
(* mifi_rotate.                                                            *)

Unlock(r) ==
    /\ rotation' = [rotation EXCEPT ![r] = "done"]
    /\ lock' = "none"

(* One rotation at a time; another is refused at once.                     *)
RotateBegins(r) ==
    /\ rotation[r] = "idle"
    /\ IF lock = "none"
       THEN rotation' = [rotation EXCEPT ![r] = "identify"] /\ lock' = r
       ELSE rotation' = [rotation EXCEPT ![r] = "done"] /\ UNCHANGED lock
    /\ UNCHANGED <<device, control, requests, rebooted>>

(* open_tunnel raised.                                                     *)
RotateFails(r) ==
    LET t == <<r, rotation[r]>>
    IN /\ rotation[r] \in Steps
       /\ \/ At(t, "failed") /\ Goes(t, "done") /\ active' = active - 1
          \/ At(t, "done") /\ UNCHANGED <<tunnel, active>>
       /\ Unlock(r)
       /\ UNCHANGED <<device, control, pending, rebooted>>

(* One exchange with the router at the other end of the tunnel, which is   *)
(* closed after it and not counted down.  Only the MiFi shows the realm    *)
(* and accepts the login; the reset is sent to whoever answers.            *)
RotateAsks(r) ==
    LET t == <<r, rotation[r]>>
        answered == job[t].pc = "pump" /\ job[t].on = wifi
    IN /\ rotation[r] \in Steps /\ At(t, "opened")
       /\ Goes(t, "done")
       /\ Cut(t)
       /\ \/ /\ answered /\ job[t].on = "mifi" /\ rotation[r] = "identify"
             /\ rotation' = [rotation EXCEPT ![r] = "login"]
             /\ UNCHANGED <<lock, rebooted>>
          \/ /\ answered /\ job[t].on = "mifi" /\ rotation[r] = "login"
             /\ rotation' = [rotation EXCEPT ![r] = "reboot"]
             /\ UNCHANGED <<lock, rebooted>>
          \/ /\ rotation[r] # "reboot" /\ Unlock(r) /\ UNCHANGED rebooted
          \/ /\ rotation[r] = "reboot"
             /\ rebooted' = IF answered THEN rebooted \cup {job[t].on} ELSE rebooted
             /\ Unlock(r)
       /\ UNCHANGED <<wifi, linked, slots, control, pending, active>>

-----------------------------------------------------------------------------

(* A rotation opens the tunnel of its step, a client its own.              *)
Opens(t) == t \in Clients \/ (t \notin Clients /\ rotation[t[1]] = t[2])

AdapterStep(t) == (Opens(t) /\ Ask(t)) \/ Order(t) \/ Wake(t)
ClientStep(c) == Answer(c) \/ RelayEnds(c)
JobStep(t) == TakeJob(t) \/ Dial(t) \/ DataConnect(t) \/ Tready(t) \/ TaskEnds(t)
MifiStep(r) == RotateFails(r) \/ RotateAsks(r)

TunnelNext ==
    \/ Connect \/ SessionLost \/ WifiLost \/ WifiJoins
    \/ \E n \in Sessions : HelloPeer(n) \/ HelloSsid(n) \/ HelloTakes(n) \/ ControlEnds(n)
    \/ \E t \in Tunnels : AdapterStep(t) \/ JobStep(t)
    \/ \E c \in Clients : ClientStep(c)
    \/ \E r \in Rotations : RotateBegins(r) \/ MifiStep(r)

TunnelSpec == TunnelInit /\ [][TunnelNext]_tunnelVars

(* The threads of the adapter and the tasks of the device run, every wait  *)
(* of theirs has a timeout, and relays end by RELAY_IDLE_S or              *)
(* TUNNEL_IDLE_MS.  No client has to come and no network to come back.     *)
TunnelFairSpec ==
    /\ TunnelSpec
    /\ \A t \in Tunnels : WF_tunnelVars(Order(t) \/ Wake(t)) /\ WF_tunnelVars(JobStep(t))
    /\ \A c \in Clients : WF_tunnelVars(ClientStep(c))
    /\ \A r \in Rotations :
          /\ WF_tunnelVars(MifiStep(r))
          /\ \A s \in Steps : WF_tunnelVars(Opens(<<r, s>>) /\ Ask(<<r, s>>))

-----------------------------------------------------------------------------

Holding == {"dialing", "dialed", "ready", "pump", "cut"}

LiveTunnels == {t \in Tunnels : tunnel[t].pc \in Live}

(* tunnels_active never hides a tunnel: no exit of a thread counts down    *)
(* for another one (the exits of http_handler, open_tunnel and relay).     *)
ActiveCoversLive == Cardinality(LiveTunnels) <= active

(* Every exit of tunnelTask and startTunnel gives its slot back once.      *)
SlotsKept == slots + Cardinality({t \in Tunnels : job[t].pc \in Holding}) = MaxTunnels

(* A TREADY that comes too late, or for nobody, is closed: each data       *)
(* connection carries the traffic of the tunnel it was opened for, and no  *)
(* entry outlives the thread that waits for it (pending, handle_conn).     *)
DataHasOwner ==
    \A t \in Tunnels :
       /\ job[t].pc = "pump" => tunnel[t].pc \in {"waiting", "opened", "relay"} /\ tunnel[t].ok
       /\ t \in pending => tunnel[t].pc \in {"asked", "waiting"}

(* Two rotations never talk to the router at the same time, whichever step *)
(* fails, and the lock is always given back (rotate_lock).                 *)
RotationsApart ==
    \A r \in Rotations : rotation[r] \in Steps <=> lock = r

(* The state is well typed, and every counter, slot and lock of adapter    *)
(* and device agrees with the threads and tasks that hold it.              *)
TunnelSound == TunnelTypeOK /\ ActiveCoversLive /\ SlotsKept /\ RotationsApart

(* Whatever the device and the networks do, everything comes to rest:      *)
(* every CONNECT that was let in ends, every task of the device frees its  *)
(* slot, and every rotation releases the lock.                             *)
TunnelsEnd ==
    []<>(LiveTunnels = {} /\ lock = "none" /\ \A t \in Tunnels : job[t].pc \notin Holding)

(* Documented: /healthz has the shape of the Python agent's, whose         *)
(* tunnels_active is the number of open tunnels.                           *)
ActiveExact == active = Cardinality(LiveTunnels)

(* Documented: esp_peer is the source address of the control channel.      *)
PeerIsCurrent == esp # 0 /\ session[esp] = "live" => peer = net[esp] \/ linked # esp

(* Documented: "as long as the ssid is not the expected one, the address   *)
(* is reported as unknown": the home address is never the bucket's.        *)
HomeHidden == ssid = "mifi" => peer # "home"

(* Documented: "no matching digest realm, no reboot".                      *)
OnlyMifiRebooted == rebooted \subseteq {"mifi"}
=============================================================================
