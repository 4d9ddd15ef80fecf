----------------------------- MODULE EgressPool -----------------------------
(***************************************************************************)
(* The egress pool of the gateway (proxy_opencode/egress/pool.py and       *)
(* models.py): which bucket serves a request, what the outcome of an       *)
(* attempt means for that bucket, what a health probe changes, and how a   *)
(* conversation is kept on one bucket.                                     *)
(*                                                                         *)
(* The gateway is one asyncio loop, so the code between two awaits is one  *)
(* atomic step.  The only await inside the pool's own decisions is the     *)
(* sleep of a request queued at the in-flight cap; everything else that    *)
(* interleaves is a whole handler: acquire, release, abandon, the fold of  *)
(* one probe answer, and the calls of the rotator.                         *)
(*                                                                         *)
(* Deadlines are kept as the time they still have to run, so the state     *)
(* space is finite without a bound on the clock: `cordon` is               *)
(* cordoned_until - now, `cooldown` is cooldown_until - now, `left` is the *)
(* rest of a queue wait and `idle` the age of an affinity binding.         *)
(***************************************************************************)
EXTENDS Integers, FiniteSets

CONSTANTS
    Buckets,       \* the configured egresses
    LastResort,    \* buckets of ZEN_EGRESS_LAST_RESORT
    Rotatable,     \* buckets the rotator may mark as rotating
    Requests,      \* concurrent attempts, each holding at most one lease
    Sessions,      \* conversation fingerprints
    IPs,           \* egress addresses an agent can report
    NoBucket, NoKey, NoIp,
    MaxInflight,   \* per-bucket cap, 0 disables it (the default)
    InflightWait,  \* how long a request queues at the cap
    AffinityTtl,   \* idle time after which a binding is dead
    SoftCordons,   \* benches of a short Retry-After
    QuotaCordons,  \* benches of a hard 429, min(window, quota_cordon_max_s)
    TierCordons,   \* benches of a free-tier 403: {cordon_s}, or {} in keyed mode
    CooldownS, CooldownMax,
    FailureCap,    \* streaks above this no longer lengthen the cooldown
    Tolerance      \* soft probe failures that pull a bucket

ASSUME ActorAssumption ==
    /\ IsFiniteSet(Requests)
    /\ LastResort \subseteq Buckets
    /\ Rotatable \subseteq Buckets
    /\ NoBucket \notin Buckets
    /\ NoKey \notin Sessions
    /\ NoIp \notin IPs

ASSUME DurationAssumption ==
    /\ MaxInflight \in Nat
    /\ InflightWait \in Nat \ {0}
    /\ AffinityTtl \in Nat
    /\ SoftCordons \subseteq Nat
    /\ QuotaCordons \subseteq Nat
    /\ TierCordons \subseteq Nat
    /\ CooldownS \in Nat \ {0}
    /\ CooldownMax \in Nat
    /\ CooldownMax >= CooldownS
    /\ FailureCap \in Nat \ {0}
    /\ CooldownS * FailureCap >= CooldownMax
    /\ Tolerance \in Nat \ {0}

VARIABLES
    st,         \* bucket -> EgressState
    req,        \* request -> where it stands with its lease
    affinity    \* session -> the bucket it is bound to and for how long idle

vars == <<st, req, affinity>>

-----------------------------------------------------------------------------

Larger(m, n) == IF m >= n THEN m ELSE n
Smaller(m, n) == IF m <= n THEN m ELSE n

QuotaReasons == {"free_quota_exhausted", "free_quota_soft", "free_tier_rejected"}
Reasons == QuotaReasons \cup {""}

(* A rotation gives the bucket a new address, so only these two die with   *)
(* the old one.                                                            *)
IpScopedReasons == {"free_quota_exhausted", "free_tier_rejected"}

(* A deadline this far back is expired for every clock reading still in    *)
(* use: the oldest one is that of a request about to leave the queue.      *)
Past == IF MaxInflight = 0 THEN 0 ELSE -InflightWait

EgressState ==
    [inflight: Nat, failures: Nat, cordon: Int, reason: Reasons,
     cooldown: Nat, healthy: BOOLEAN, rotating: BOOLEAN,
     ip: IPs \cup {NoIp}, streak: Nat]

FreshEgress ==
    [inflight |-> 0, failures |-> 0, cordon |-> Past, reason |-> "",
     cooldown |-> 0, healthy |-> FALSE, rotating |-> FALSE,
     ip |-> NoIp, streak |-> 0]

(* A request is idle, waits in acquire at the in-flight cap, holds a live  *)
(* lease, or still refers to a lease that was released.                    *)
RequestState ==
    [pc: {"idle", "queued", "leased", "released"},
     bucket: Buckets \cup {NoBucket},
     key: Sessions \cup {NoKey},
     offered: SUBSET Buckets,
     left: Nat]

NoRequest ==
    [pc |-> "idle", bucket |-> NoBucket, key |-> NoKey, offered |-> {}, left |-> 0]

Binding == [bucket: Buckets \cup {NoBucket}, idle: Nat]
Unbound == [bucket |-> NoBucket, idle |-> 0]

(* The outcome a transport reports to release, with the bench it implies.  *)
Verdicts ==
    [kind: {"ok", "transport"}, bench: {0}]
        \cup [kind: {"http_429_soft"}, bench: SoftCordons]
        \cup [kind: {"http_429_hard"}, bench: QuotaCordons]
        \cup [kind: {"free_tier_rejected"}, bench: TierCordons]

TypeOK ==
    /\ st \in [Buckets -> EgressState]
    /\ req \in [Requests -> RequestState]
    /\ affinity \in [Sessions -> Binding]
    /\ \A r \in Requests : req[r].pc \in {"leased", "released"} => req[r].bucket \in Buckets

Init ==
    /\ st = [b \in Buckets |-> FreshEgress]
    /\ req = [r \in Requests |-> NoRequest]
    /\ affinity = [s \in Sessions |-> Unbound]

-----------------------------------------------------------------------------
(* Selection *)

Cordoned(b) == st[b].cordon > 0
CoolingDown(b) == st[b].cooldown > 0
Available(b) == ~Cordoned(b) /\ ~st[b].rotating

(* Fault: the catch-all that once served probe-dead legs out of a cordon.  *)
SelectableCatchAll == {b \in Buckets : st[b].healthy => Available(b)}

(* Every bucket of some tier: the four healthy tiers ask for an available  *)
(* bucket, the tier of probe-dead legs only for one that is not cordoned.  *)
Selectable == {b \in Buckets : IF st[b].healthy THEN Available(b) ELSE ~Cordoned(b)}

Rank(b) ==
    IF ~st[b].healthy THEN 5
    ELSE (IF b \in LastResort THEN 3 ELSE 1) + (IF CoolingDown(b) THEN 1 ELSE 0)

(* The first tier that is not empty once the retry walk's buckets are out; *)
(* acquire raises PoolExhausted, and changes nothing, when there is none.  *)
Usable(exclude) ==
    {b \in Selectable \ exclude : \A c \in Selectable \ exclude : Rank(b) <= Rank(c)}

Exhausted(exclude) == Usable(exclude) = {}

Expired(s) == affinity[s].idle > AffinityTtl

(* Fault: affinity honoured only while the bucket is idle.                 *)
StickyWhenIdle(key) ==
    {b \in Buckets : /\ key # NoKey /\ ~Expired(key) /\ affinity[key].bucket = b
                     /\ Available(b) /\ st[b].healthy /\ ~CoolingDown(b)
                     /\ st[b].inflight = 0}

(* The session's bucket, when it is bound to one that still qualifies.     *)
Sticky(key) ==
    {b \in Buckets :
        /\ key # NoKey
        /\ AffinityTtl > 0
        /\ ~Expired(key)
        /\ affinity[key].bucket = b
        /\ Available(b)
        /\ st[b].healthy
        /\ ~CoolingDown(b)}

(* The bindings after acquire dropped the expired ones and that of a       *)
(* session whose bucket no longer qualifies.                               *)
Kept(key) ==
    IF key = NoKey \/ AffinityTtl = 0 THEN affinity
    ELSE [s \in Sessions |->
            IF Expired(s) \/ (s = key /\ Sticky(key) = {}) THEN Unbound ELSE affinity[s]]

LiveBindings(b, bound) ==
    Cardinality({s \in Sessions : bound[s].bucket = b /\ bound[s].idle <= AffinityTtl})

WithSlot(S) == {b \in S : MaxInflight = 0 \/ st[b].inflight < MaxInflight}

LeastLoaded(S) == {b \in S : \A c \in S : st[b].inflight <= st[c].inflight}

(* The round-robin cursor orders buckets that are otherwise equal; any of  *)
(* them may come first.  A keyed request sorts by live bindings before the *)
(* final minimum over the in-flight counts.                                *)
Preferred(S, key, bound) ==
    IF key = NoKey THEN LeastLoaded(S)
    ELSE {b \in LeastLoaded(S) :
            \A c \in LeastLoaded(S) : LiveBindings(b, bound) <= LiveBindings(c, bound)}

(* Hand out bucket b.  `elapsed` is the age of the clock reading acquire   *)
(* took on entry and still uses here.                                      *)
Lease(r, b, key, bound, elapsed) ==
    /\ st' = [st EXCEPT ![b].inflight = @ + 1]
    /\ req' = [req EXCEPT ![r] = [NoRequest EXCEPT !.pc = "leased", !.bucket = b]]
    /\ affinity' =
         IF key # NoKey /\ st[b].healthy /\ st[b].cordon + elapsed <= 0
         THEN [bound EXCEPT ![key] = [bucket |-> b, idle |-> 0]]
         ELSE bound

Enqueue(r, key, offered, bound) ==
    /\ req' = [req EXCEPT ![r] = [NoRequest EXCEPT !.pc = "queued", !.key = key,
                                                   !.offered = offered,
                                                   !.left = InflightWait]]
    /\ affinity' = bound
    /\ UNCHANGED st

(* EgressPool.acquire up to its only await.  The first attempt of a        *)
(* request carries its session key, a retry carries the buckets tried.     *)
Acquire(r, key, exclude) ==
    /\ req[r].pc \in {"idle", "released"}
    /\ ~Exhausted(exclude)
    /\ LET offered == IF Sticky(key) # {} THEN Sticky(key) ELSE Usable(exclude)
           open == WithSlot(offered)
       IN \/ /\ open # {}
             /\ \E b \in Preferred(open, key, Kept(key)) : Lease(r, b, key, Kept(key), 0)
          \/ /\ open = {}
             /\ Enqueue(r, key, offered, Kept(key))

(* Fault: the queue has no deadline.                                       *)
DequeueFreeOnly(r) ==
    /\ req[r].pc = "queued"
    /\ \E b \in LeastLoaded(WithSlot(req[r].offered)) :
          Lease(r, b, req[r].key, affinity, InflightWait - req[r].left)

(* Fault: the first wake-up exceeds the cap.                               *)
DequeueAtOnce(r) ==
    /\ req[r].pc = "queued"
    /\ \E b \in LeastLoaded(req[r].offered) :
          Lease(r, b, req[r].key, affinity, InflightWait - req[r].left)

(* One wake-up of the queued acquire: it looks for a slot among the        *)
(* buckets it selected on entry, and past its deadline takes one anyway.   *)
Dequeue(r) ==
    /\ req[r].pc = "queued"
    /\ LET open == WithSlot(req[r].offered)
           choices == IF open # {} THEN open ELSE req[r].offered
       IN /\ open # {} \/ req[r].left = 0
          /\ \E b \in LeastLoaded(choices) :
                Lease(r, b, req[r].key, affinity, InflightWait - req[r].left)

(* The client hangs up while its request sleeps in the queue.              *)
CancelWait(r) ==
    /\ req[r].pc = "queued"
    /\ req' = [req EXCEPT ![r] = NoRequest]
    /\ UNCHANGED <<st, affinity>>

-----------------------------------------------------------------------------
(* Outcomes of an attempt *)

(* Fault: the latest verdict wins.                                         *)
EnterLatestCordon(s, bench, reason) == [s EXCEPT !.cordon = bench, !.reason = reason]

EnterCordon(s, bench, reason) ==
    IF s.cordon > 0 /\ s.reason = reason
    THEN [s EXCEPT !.cordon = Larger(@, bench)]
    ELSE IF s.cordon > 0 /\ bench <= s.cordon
    THEN s
    ELSE [s EXCEPT !.cordon = bench, !.reason = reason]

EnterCooldown(s) ==
    [s EXCEPT !.cooldown = Larger(@, Smaller(CooldownS * Larger(1, s.failures), CooldownMax))]

LiftCordonOnSuccess(s) ==
    IF s.cordon > 0 /\ s.reason \in QuotaReasons
    THEN [s EXCEPT !.cordon = Past, !.reason = ""]
    ELSE s

Freed(s) == [s EXCEPT !.inflight = Larger(0, @ - 1)]

Failed(s) == [s EXCEPT !.failures = Smaller(@ + 1, FailureCap)]

(* What release makes of the bucket once the slot is returned.             *)
Judged(s, v) ==
    CASE v.kind = "ok" -> LiftCordonOnSuccess([s EXCEPT !.failures = 0, !.cooldown = 0])
      [] v.kind = "transport" -> EnterCooldown(Failed(s))
      [] v.kind = "http_429_soft" -> EnterCordon(Failed(s), v.bench, "free_quota_soft")
      [] v.kind = "http_429_hard" -> EnterCordon(Failed(s), v.bench, "free_quota_exhausted")
      [] v.kind = "free_tier_rejected" -> EnterCordon(Failed(s), v.bench, "free_tier_rejected")

(* What the release observer may do to the bucket before it returns.       *)
Marked(s, mark) == [s EXCEPT !.rotating = @ \/ mark]

(* Fault: a lease released twice returns its slot twice.                   *)
ReleaseAgain(r, v, mark) ==
    /\ req[r].pc \in {"leased", "released"}
    /\ mark => req[r].bucket \in Rotatable
    /\ st' = [st EXCEPT ![req[r].bucket] = Marked(Judged(Freed(@), v), mark)]
    /\ req' = [req EXCEPT ![r].pc = "released"]
    /\ UNCHANGED affinity

(* EgressPool.release, the observer's synchronous answer included: the     *)
(* rotator may mark the bucket as rotating before release returns.  A      *)
(* second verdict on the same lease is ignored.                            *)
Release(r, v, mark) ==
    \/ /\ req[r].pc = "leased"
       /\ mark => req[r].bucket \in Rotatable
       /\ st' = [st EXCEPT ![req[r].bucket] = Marked(Judged(Freed(@), v), mark)]
       /\ req' = [req EXCEPT ![r].pc = "released"]
       /\ UNCHANGED affinity
    \/ /\ req[r].pc = "released"
       /\ UNCHANGED vars

(* EgressPool.abandon: the slot comes back without a verdict.              *)
Abandon(r) ==
    \/ /\ req[r].pc = "leased"
       /\ st' = [st EXCEPT ![req[r].bucket] = Freed(@)]
       /\ req' = [req EXCEPT ![r].pc = "released"]
       /\ UNCHANGED affinity
    \/ /\ req[r].pc = "released"
       /\ UNCHANGED vars

-----------------------------------------------------------------------------
(* Health probes: the fold of one answer to GET /healthz *)

LiftIpScopedCordon(s) ==
    IF s.reason \in IpScopedReasons
    THEN [s EXCEPT !.cordon = Past, !.reason = "", !.failures = 0]
    ELSE s

Observed(s, ip) == IF ip = NoIp THEN s ELSE [s EXCEPT !.ip = ip]

(* The agent could not be reached, or did not answer with JSON.            *)
ProbeUnreachable(b) ==
    /\ st' = [st EXCEPT ![b].healthy = FALSE]
    /\ UNCHANGED <<req, affinity>>

(* An answer that is not ready.  An HTTP status other than 200 is folded   *)
(* like an empty payload, that is with ip = NoIp.                          *)
ProbeNotReady(b, ip) ==
    /\ LET s == [Observed(st[b], ip) EXCEPT !.streak = Smaller(@ + 1, Tolerance)]
       IN st' = [st EXCEPT ![b] =
                    IF s.streak >= Tolerance THEN [s EXCEPT !.healthy = FALSE] ELSE s]
    /\ UNCHANGED <<req, affinity>>

Recovered(s) == [s EXCEPT !.healthy = TRUE, !.streak = 0]

(* Fault: an agent that comes back sheds its bench with its failures.      *)
CleanSlateAndFree(s) == [s EXCEPT !.failures = 0, !.cordon = Past, !.reason = ""]

(* An agent that comes back sheds the streak of its unreachable past.      *)
CleanSlate(s) == IF s.cordon > 0 THEN s ELSE [s EXCEPT !.failures = 0, !.reason = ""]

ProbeReady(b, ip) ==
    /\ LET up == Recovered(Observed(st[b], ip))
           moved == IF up.ip # st[b].ip THEN LiftIpScopedCordon(up) ELSE up
       IN st' = [st EXCEPT ![b] = IF st[b].healthy THEN moved ELSE CleanSlate(moved)]
    /\ UNCHANGED <<req, affinity>>

-----------------------------------------------------------------------------
(* The calls of the rotator *)

(* mark_rotating(True) outside of a release: a retry timer or the admin.   *)
StartRotation(b) ==
    /\ b \in Rotatable
    /\ ~st[b].rotating
    /\ st' = [st EXCEPT ![b].rotating = TRUE]
    /\ UNCHANGED <<req, affinity>>

FailRotation(b) ==
    /\ st[b].rotating
    /\ st' = [st EXCEPT ![b].rotating = FALSE]
    /\ UNCHANGED <<req, affinity>>

(* apply_rotation_success and the mark_rotating(False) that follows it     *)
(* without an await.  The streak of soft failures is left alone.           *)
RotationSucceeded(s, ip) ==
    [s EXCEPT !.ip = ip, !.healthy = TRUE, !.failures = 0,
              !.cordon = Past, !.reason = "", !.cooldown = 0, !.rotating = FALSE]

SucceedRotation(b, ip) ==
    /\ st[b].rotating
    /\ st' = [st EXCEPT ![b] = RotationSucceeded(@, ip)]
    /\ UNCHANGED <<req, affinity>>

-----------------------------------------------------------------------------

(* One unit of time.  A queued request does not sleep past its deadline.   *)
Tick ==
    /\ \A r \in Requests : req[r].pc = "queued" => req[r].left > 0
    /\ st' = [b \in Buckets |-> [st[b] EXCEPT !.cordon = Larger(@ - 1, Past),
                                              !.cooldown = Larger(@ - 1, 0)]]
    /\ req' = [r \in Requests |->
                 IF req[r].pc = "queued" THEN [req[r] EXCEPT !.left = @ - 1] ELSE req[r]]
    /\ affinity' = [s \in Sessions |->
                      IF affinity[s].bucket = NoBucket THEN affinity[s]
                      ELSE [affinity[s] EXCEPT !.idle = Smaller(@ + 1, AffinityTtl + 1)]]

AcquireStep(r) ==
    \/ \E key \in Sessions : Acquire(r, key, {})
    \/ \E exclude \in SUBSET Buckets : Acquire(r, NoKey, exclude)

Finish(r) == Abandon(r) \/ \E v \in Verdicts, mark \in BOOLEAN : Release(r, v, mark)

RequestStep(r) == AcquireStep(r) \/ Dequeue(r) \/ CancelWait(r) \/ Finish(r)

ProbeStep(b) ==
    \/ ProbeUnreachable(b)
    \/ \E ip \in IPs \cup {NoIp} : ProbeNotReady(b, ip) \/ ProbeReady(b, ip)

RotatorStep(b) ==
    \/ StartRotation(b)
    \/ FailRotation(b)
    \/ \E ip \in IPs : SucceedRotation(b, ip)

Next ==
    \/ \E r \in Requests : RequestStep(r)
    \/ \E b \in Buckets : ProbeStep(b) \/ RotatorStep(b)
    \/ Tick

Spec == Init /\ [][Next]_vars

(* Time passes, the event loop resumes a sleeper whose timer fired, and an *)
(* attempt ends: the header deadline, the read timeout and the stall       *)
(* watchdog bound every exchange.  Nothing obliges a client to come back.  *)
FairSpec ==
    /\ Spec
    /\ WF_vars(Tick)
    /\ \A r \in Requests : WF_vars(Dequeue(r)) /\ WF_vars(req[r].pc = "leased" /\ Finish(r))

-----------------------------------------------------------------------------
(* Properties *)

Holders(b) == {r \in Requests : req[r].pc = "leased" /\ req[r].bucket = b}

(* No slot is lost and none is returned twice: the in-flight counter of a  *)
(* bucket, on which least-in-flight selection and the cap rest, is exactly *)
(* the number of live leases on it, whatever releases, repeated releases   *)
(* and cancellations happened (release and abandon, Lease.released).       *)
SlotAccounting == \A b \in Buckets : st[b].inflight = Cardinality(Holders(b))

LeaseGranted(b) == Holders(b)' \ Holders(b) # {}

(* "A cordoned bucket is NEVER selectable" (docstring of acquire): no step *)
(* leases a bucket that is serving out a cordon, nor a probed-good one     *)
(* whose ONT is rebooting.                                                 *)
BenchedNeverLeased ==
    [][\A b \in Buckets :
         LeaseGranted(b) => ~Cordoned(b) /\ ~(st[b].healthy /\ st[b].rotating)]_vars

(* The in-flight cap yields only to a request that served its whole wait   *)
(* and found every bucket it was offered still full.                       *)
CapYieldsOnlyAfterWait ==
    [][\A b \in Buckets :
         LeaseGranted(b) /\ MaxInflight > 0 /\ st[b].inflight >= MaxInflight =>
            \E r \in Requests :
                /\ req[r].pc = "queued" /\ req[r].left = 0
                /\ r \in Holders(b)'
                /\ \A c \in req[r].offered : st[c].inflight >= MaxInflight]_vars

(* A verdict on a bucket already on the bench never shortens the bench: a  *)
(* step other than the passing of time keeps a live cordon, extends it or  *)
(* lifts it (_enter_cordon with two attempts in flight on one bucket).     *)
CordonNeverShortened ==
    [][~Tick => \A b \in Buckets :
         Cordoned(b) => st'[b].cordon >= st[b].cordon \/ st'[b].cordon = Past]_vars

(* A bench ends early only on evidence: a request on that bucket that just *)
(* completed (and cleared the failure streak with it), a different address *)
(* seen by a probe that found the agent ready, or a finished rotation.     *)
LiftNeedsEvidence ==
    [][\A b \in Buckets :
         st[b].cordon > 1 /\ st'[b].cordon <= 0 =>
            \/ \E r \in Holders(b) : r \notin Holders(b)' /\ st'[b].failures = 0
            \/ st'[b].ip # st[b].ip /\ st'[b].healthy /\ st[b].reason \in IpScopedReasons
            \/ st[b].rotating /\ ~st'[b].rotating]_vars

(* One conversation, one address: a live binding moves to another bucket   *)
(* only when the bucket it points to is cordoned, rotating, unhealthy or   *)
(* cooling down, whichever requests of whichever sessions run in between.  *)
MigrationNeedsCause ==
    [][\A s \in Sessions :
         LET b == affinity[s].bucket
         IN b # NoBucket /\ ~Expired(s) /\ affinity'[s].bucket # b =>
               ~Available(b) \/ ~st[b].healthy \/ CoolingDown(b)]_vars

(* The silence works: with no cap configured a benched bucket gets no new  *)
(* lease, so the verdicts still to come on it are those of the attempts in *)
(* flight, and the bench ends.                                             *)
BenchEnds == \A b \in Buckets : Cordoned(b) ~> ~Cordoned(b)

(* A request queued at the cap never waits for ever.                       *)
QueueDrains == \A r \in Requests : req[r].pc = "queued" ~> req[r].pc # "queued"

=============================================================================
