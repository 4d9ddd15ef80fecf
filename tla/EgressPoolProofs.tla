-------------------------- MODULE EgressPoolProofs --------------------------
(***************************************************************************)
(* Proofs about EgressPool for every set of buckets, requests, sessions    *)
(* and addresses and every choice of the durations.                        *)
(***************************************************************************)
EXTENDS EgressPool, FiniteSetTheorems, TLAPS

-----------------------------------------------------------------------------
(* The helpers map egress states to egress states. *)

LEMMA PastType == Past \in Int
BY DurationAssumption DEF Past

(* Each step of the verdict logic keeps the record an egress state.        *)
LEMMA HelperTypes ==
    ASSUME NEW s \in EgressState
    PROVE  /\ Freed(s) \in EgressState
           /\ Failed(s) \in EgressState
           /\ EnterCooldown(s) \in EgressState
           /\ LiftCordonOnSuccess(s) \in EgressState
           /\ LiftIpScopedCordon(s) \in EgressState
           /\ Recovered(s) \in EgressState
           /\ CleanSlate(s) \in EgressState
           /\ \A bench \in Nat, reason \in Reasons : EnterCordon(s, bench, reason) \in EgressState
<1> USE PastType, DurationAssumption DEF EgressState
<1>1. Freed(s) \in EgressState
  BY DEF Freed, Larger
<1>2. Failed(s) \in EgressState
  BY DEF Failed, Smaller
<1>3. EnterCooldown(s) \in EgressState
  <2>1. CooldownS * Larger(1, s.failures) \in Nat
    BY DEF Larger
  <2> QED
    BY <2>1 DEF EnterCooldown, Larger, Smaller
<1>4. LiftCordonOnSuccess(s) \in EgressState
  BY DEF LiftCordonOnSuccess, Reasons
<1>5. LiftIpScopedCordon(s) \in EgressState
  BY DEF LiftIpScopedCordon, Reasons
<1>6. Recovered(s) \in EgressState /\ CleanSlate(s) \in EgressState
  BY DEF Recovered, CleanSlate, Reasons
<1>7. ASSUME NEW bench \in Nat, NEW reason \in Reasons
      PROVE  EnterCordon(s, bench, reason) \in EgressState
  <2>1. [s EXCEPT !.cordon = Larger(@, bench)] \in EgressState
    BY DEF Larger
  <2>2. [s EXCEPT !.cordon = bench, !.reason = reason] \in EgressState
    BY bench \in Int
  <2> QED
    BY <2>1, <2>2 DEF EnterCordon
<1> QED
  BY <1>1, <1>2, <1>3, <1>4, <1>5, <1>6, <1>7

LEMMA VerdictBench ==
    ASSUME NEW v \in Verdicts
    PROVE  v.bench \in Nat
<1>1. CASE v \in [kind: {"ok", "transport"}, bench: {0}]
  BY <1>1
<1>2. CASE v \in [kind: {"http_429_soft"}, bench: SoftCordons]
  BY <1>2, DurationAssumption
<1>3. CASE v \in [kind: {"http_429_hard"}, bench: QuotaCordons]
  BY <1>3, DurationAssumption
<1>4. CASE v \in [kind: {"free_tier_rejected"}, bench: TierCordons]
  BY <1>4, DurationAssumption
<1> QED
  BY <1>1, <1>2, <1>3, <1>4 DEF Verdicts

(* A verdict yields an egress state and leaves the in-flight count alone.  *)
LEMMA JudgedType ==
    ASSUME NEW s \in EgressState, NEW v \in Verdicts
    PROVE  /\ Judged(s, v) \in EgressState
           /\ Judged(s, v).inflight = s.inflight
<1> DEFINE cleared == [s EXCEPT !.failures = 0, !.cooldown = 0]
<1>1. cleared \in EgressState /\ cleared.inflight = s.inflight
  BY DEF EgressState
<1>2. Failed(s) \in EgressState /\ Failed(s).inflight = s.inflight
  BY HelperTypes DEF Failed, EgressState
<1>3. v.bench \in Nat
  BY VerdictBench
<1>4. /\ v.kind \in {"ok", "transport", "http_429_soft", "http_429_hard", "free_tier_rejected"}
  BY DEF Verdicts
<1>5. CASE v.kind = "ok"
  <2>1. Judged(s, v) = LiftCordonOnSuccess(cleared)
    BY <1>5 DEF Judged
  <2>2. LiftCordonOnSuccess(cleared).inflight = cleared.inflight
    BY <1>1 DEF LiftCordonOnSuccess, EgressState
  <2> QED
    BY <1>1, <2>1, <2>2, HelperTypes
<1>6. CASE v.kind = "transport"
  <2>1. Judged(s, v) = EnterCooldown(Failed(s))
    BY <1>6 DEF Judged
  <2>2. EnterCooldown(Failed(s)).inflight = Failed(s).inflight
    BY <1>2 DEF EnterCooldown, EgressState
  <2> QED
    BY <1>2, <2>1, <2>2, HelperTypes
<1>7. ASSUME NEW reason \in Reasons
      PROVE  /\ EnterCordon(Failed(s), v.bench, reason) \in EgressState
             /\ EnterCordon(Failed(s), v.bench, reason).inflight = s.inflight
  <2>1. EnterCordon(Failed(s), v.bench, reason) \in EgressState
    BY <1>2, <1>3, HelperTypes
  <2>2. EnterCordon(Failed(s), v.bench, reason).inflight = Failed(s).inflight
    BY <1>2 DEF EnterCordon, EgressState
  <2> QED
    BY <1>2, <2>1, <2>2
<1>8. {"free_quota_soft", "free_quota_exhausted", "free_tier_rejected"} \subseteq Reasons
  BY DEF Reasons, QuotaReasons
<1>9. CASE v.kind = "http_429_soft"
  <2>1. Judged(s, v) = EnterCordon(Failed(s), v.bench, "free_quota_soft")
    BY <1>9 DEF Judged
  <2> QED
    BY <1>7, <1>8, <2>1
<1>10. CASE v.kind = "http_429_hard"
  <2>1. Judged(s, v) = EnterCordon(Failed(s), v.bench, "free_quota_exhausted")
    BY <1>10 DEF Judged
  <2> QED
    BY <1>7, <1>8, <2>1
<1>11. CASE v.kind = "free_tier_rejected"
  <2>1. Judged(s, v) = EnterCordon(Failed(s), v.bench, "free_tier_rejected")
    BY <1>11 DEF Judged
  <2> QED
    BY <1>7, <1>8, <2>1
<1> QED
  BY <1>4, <1>5, <1>6, <1>9, <1>10, <1>11

-----------------------------------------------------------------------------
(* Type correctness, one lemma per handler. *)

LEMMA KeptType ==
    ASSUME TypeOK, NEW key \in Sessions \cup {NoKey}
    PROVE  Kept(key) \in [Sessions -> Binding]
<1>1. Unbound \in Binding
  BY DEF Unbound, Binding
<1> QED
  BY <1>1 DEF TypeOK, Kept

LEMMA LeaseType ==
    ASSUME TypeOK, NEW r \in Requests, NEW b \in Buckets,
           NEW key \in Sessions \cup {NoKey}, NEW bound \in [Sessions -> Binding],
           NEW elapsed, Lease(r, b, key, bound, elapsed)
    PROVE  TypeOK'
<1>1. st' \in [Buckets -> EgressState]
  <2>1. [st[b] EXCEPT !.inflight = @ + 1] \in EgressState
    BY DEF TypeOK, EgressState
  <2>2. st' = [st EXCEPT ![b] = [st[b] EXCEPT !.inflight = @ + 1]]
    BY DEF Lease, TypeOK
  <2> QED
    BY <2>1, <2>2 DEF TypeOK
<1>2. [NoRequest EXCEPT !.pc = "leased", !.bucket = b] \in RequestState
  BY DEF NoRequest, RequestState
<1>3. req' \in [Requests -> RequestState]
  BY <1>2 DEF Lease, TypeOK
<1>4. affinity' \in [Sessions -> Binding]
  <2>1. [bucket |-> b, idle |-> 0] \in Binding
    BY DEF Binding
  <2>2. CASE affinity' = bound
    BY <2>2
  <2>3. CASE affinity' = [bound EXCEPT ![key] = [bucket |-> b, idle |-> 0]]
    BY <2>1, <2>3
  <2> QED
    BY <2>2, <2>3 DEF Lease
<1>5. \A q \in Requests : req'[q].pc \in {"leased", "released"} => req'[q].bucket \in Buckets
  <2> TAKE q \in Requests
  <2>1. CASE q = r
    BY <2>1 DEF Lease, TypeOK, NoRequest
  <2>2. CASE q # r
    BY <2>2 DEF Lease, TypeOK
  <2> QED
    BY <2>1, <2>2
<1> QED
  BY <1>1, <1>3, <1>4, <1>5 DEF TypeOK

LEMMA AcquireType ==
    ASSUME TypeOK, NEW r \in Requests, NEW key \in Sessions \cup {NoKey},
           NEW exclude \in SUBSET Buckets, Acquire(r, key, exclude)
    PROVE  TypeOK'
<1> DEFINE offered == IF Sticky(key) # {} THEN Sticky(key) ELSE Usable(exclude)
           open == WithSlot(offered)
<1>1. offered \subseteq Buckets /\ open \subseteq offered
  BY DEF Sticky, Usable, Selectable, WithSlot
<1>2. CASE \E b \in Preferred(open, key, Kept(key)) : Lease(r, b, key, Kept(key), 0)
  <2>1. PICK b \in Preferred(open, key, Kept(key)) : Lease(r, b, key, Kept(key), 0)
    BY <1>2
  <2>2. b \in Buckets
    BY <1>1 DEF Preferred, LeastLoaded
  <2> QED
    BY <2>1, <2>2, KeptType, LeaseType
<1>3. CASE Enqueue(r, key, offered, Kept(key))
  <2>1. [NoRequest EXCEPT !.pc = "queued", !.key = key, !.offered = offered,
                          !.left = InflightWait] \in RequestState
    BY <1>1, DurationAssumption DEF NoRequest, RequestState
  <2>2. req' \in [Requests -> RequestState]
    BY <1>3, <2>1 DEF Enqueue, TypeOK
  <2>3. req'[r].pc = "queued" /\ \A q \in Requests \ {r} : req'[q] = req[q]
    BY <1>3 DEF Enqueue, TypeOK, NoRequest
  <2> QED
    BY <1>3, <2>2, <2>3, KeptType DEF Enqueue, TypeOK
<1> QED
  BY <1>2, <1>3 DEF Acquire

LEMMA DequeueType ==
    ASSUME TypeOK, NEW r \in Requests, Dequeue(r)
    PROVE  TypeOK'
<1> DEFINE open == WithSlot(req[r].offered)
           choices == IF open # {} THEN open ELSE req[r].offered
<1>1. choices \subseteq Buckets /\ req[r].key \in Sessions \cup {NoKey}
  BY DEF TypeOK, RequestState, WithSlot
<1>2. PICK b \in LeastLoaded(choices) :
         Lease(r, b, req[r].key, affinity, InflightWait - req[r].left)
  BY DEF Dequeue
<1>3. b \in Buckets
  BY <1>1, <1>2 DEF LeastLoaded
<1>4. affinity \in [Sessions -> Binding]
  BY DEF TypeOK
<1> QED
  BY <1>1, <1>2, <1>3, <1>4, LeaseType

(* A step that only rewrites the state of one bucket.                      *)
LEMMA BucketType ==
    ASSUME TypeOK, NEW b \in Buckets, NEW s \in EgressState,
           st' = [st EXCEPT ![b] = s], UNCHANGED <<req, affinity>>
    PROVE  TypeOK'
BY DEF TypeOK

LEMMA ReturnType ==
    ASSUME TypeOK, NEW r \in Requests, req[r].pc = "leased", NEW s \in EgressState,
           st' = [st EXCEPT ![req[r].bucket] = s],
           req' = [req EXCEPT ![r].pc = "released"], UNCHANGED affinity
    PROVE  TypeOK'
<1>1. req' \in [Requests -> RequestState]
  BY DEF TypeOK, RequestState
<1>2. \A q \in Requests : req'[q].bucket = req[q].bucket /\ (q # r => req'[q].pc = req[q].pc)
  BY DEF TypeOK, RequestState
<1> QED
  BY <1>1, <1>2 DEF TypeOK

LEMMA FinishType ==
    ASSUME TypeOK, NEW r \in Requests, Finish(r)
    PROVE  TypeOK'
<1> DEFINE b == req[r].bucket
<1>1. CASE UNCHANGED vars
  BY <1>1 DEF TypeOK, vars
<1>2. ASSUME req[r].pc = "leased"
      PROVE  b \in Buckets /\ st[b] \in EgressState /\ Freed(st[b]) \in EgressState
  BY <1>2, HelperTypes DEF TypeOK
<1>3. CASE Abandon(r) /\ req[r].pc = "leased"
  BY <1>2, <1>3, ReturnType DEF Abandon
<1>4. CASE \E v \in Verdicts, mark \in BOOLEAN : Release(r, v, mark) /\ req[r].pc = "leased"
  <2>1. PICK v \in Verdicts, mark \in BOOLEAN : Release(r, v, mark) /\ req[r].pc = "leased"
    BY <1>4
  <2> DEFINE s == Marked(Judged(Freed(st[b]), v), mark)
  <2>2. Judged(Freed(st[b]), v) \in EgressState
    BY <1>2, <2>1, JudgedType
  <2>3. s \in EgressState
    BY <2>2 DEF EgressState, Marked
  <2>4. req[r].pc # "released"
    BY <2>1
  <2>5. st' = [st EXCEPT ![b] = s]
    BY <2>1, <2>4, Zenon DEF Release
  <2> QED
    BY <2>1, <2>3, <2>4, <2>5, ReturnType DEF Release
<1> QED
  BY <1>1, <1>3, <1>4 DEF Finish, Abandon, Release

LEMMA ProbeType ==
    ASSUME TypeOK, NEW b \in Buckets, ProbeStep(b)
    PROVE  TypeOK'
<1>1. st[b] \in EgressState
  BY DEF TypeOK
<1>2. ASSUME NEW ip \in IPs \cup {NoIp}
      PROVE  Observed(st[b], ip) \in EgressState
  BY <1>1 DEF Observed, EgressState
<1>3. CASE ProbeUnreachable(b)
  <2>1. [st[b] EXCEPT !.healthy = FALSE] \in EgressState
    BY <1>1 DEF EgressState
  <2>2. st' = [st EXCEPT ![b] = [st[b] EXCEPT !.healthy = FALSE]]
    BY <1>3 DEF ProbeUnreachable, TypeOK
  <2> QED
    BY <1>3, <2>1, <2>2, BucketType DEF ProbeUnreachable
<1>4. ASSUME NEW ip \in IPs \cup {NoIp}, ProbeNotReady(b, ip)
      PROVE  TypeOK'
  <2> DEFINE s == [Observed(st[b], ip) EXCEPT !.streak = Smaller(@ + 1, Tolerance)]
             t == IF s.streak >= Tolerance THEN [s EXCEPT !.healthy = FALSE] ELSE s
  <2>1. s \in EgressState
    BY <1>2, DurationAssumption DEF EgressState, Smaller
  <2>2. t \in EgressState
    BY <2>1 DEF EgressState
  <2>3. st' = [st EXCEPT ![b] = t]
    BY <1>4 DEF ProbeNotReady
  <2> HIDE DEF t
  <2> QED
    BY <1>4, <2>2, <2>3, BucketType DEF ProbeNotReady
<1>5. ASSUME NEW ip \in IPs \cup {NoIp}, ProbeReady(b, ip)
      PROVE  TypeOK'
  <2> DEFINE up == Recovered(Observed(st[b], ip))
             moved == IF up.ip # st[b].ip THEN LiftIpScopedCordon(up) ELSE up
             t == IF st[b].healthy THEN moved ELSE CleanSlate(moved)
  <2>1. up \in EgressState
    BY <1>2, HelperTypes
  <2>2. moved \in EgressState
    <3> HIDE DEF up
    <3> QED
      BY <2>1, HelperTypes
  <2>3. t \in EgressState
    <3> HIDE DEF moved
    <3> QED
      BY <2>2, HelperTypes
  <2>4. st' = [st EXCEPT ![b] = t]
    BY <1>5 DEF ProbeReady
  <2> HIDE DEF t
  <2> QED
    BY <1>5, <2>3, <2>4, BucketType DEF ProbeReady
<1> QED
  BY <1>3, <1>4, <1>5 DEF ProbeStep

LEMMA RotatorType ==
    ASSUME TypeOK, NEW b \in Buckets, RotatorStep(b)
    PROVE  TypeOK'
<1>1. st[b] \in EgressState
  BY DEF TypeOK
<1>2. CASE StartRotation(b)
  <2>1. [st[b] EXCEPT !.rotating = TRUE] \in EgressState
    BY <1>1 DEF EgressState
  <2>2. st' = [st EXCEPT ![b] = [st[b] EXCEPT !.rotating = TRUE]]
    BY <1>2 DEF StartRotation, TypeOK
  <2> QED
    BY <1>2, <2>1, <2>2, BucketType DEF StartRotation
<1>3. CASE FailRotation(b)
  <2>1. [st[b] EXCEPT !.rotating = FALSE] \in EgressState
    BY <1>1 DEF EgressState
  <2>2. st' = [st EXCEPT ![b] = [st[b] EXCEPT !.rotating = FALSE]]
    BY <1>3 DEF FailRotation, TypeOK
  <2> QED
    BY <1>3, <2>1, <2>2, BucketType DEF FailRotation
<1>4. ASSUME NEW ip \in IPs, SucceedRotation(b, ip)
      PROVE  TypeOK'
  <2>1. RotationSucceeded(st[b], ip) \in EgressState
    BY <1>1, PastType DEF RotationSucceeded, EgressState, Reasons
  <2> QED
    BY <1>4, <2>1, BucketType DEF SucceedRotation
<1> QED
  BY <1>2, <1>3, <1>4 DEF RotatorStep

LEMMA TickType ==
    ASSUME TypeOK, Tick
    PROVE  TypeOK'
<1>1. ASSUME NEW s \in EgressState
      PROVE  [s EXCEPT !.cordon = Larger(@ - 1, Past), !.cooldown = Larger(@ - 1, 0)] \in EgressState
  <2>1. Larger(s.cordon - 1, Past) \in Int /\ Larger(s.cooldown - 1, 0) \in Nat
    BY PastType DEF EgressState, Larger
  <2> QED
    BY <2>1 DEF EgressState
<1>2. st' \in [Buckets -> EgressState]
  BY <1>1 DEF Tick, TypeOK
<1>3. ASSUME NEW r \in Requests, req[r].pc = "queued"
      PROVE  [req[r] EXCEPT !.left = @ - 1] \in RequestState
  <2>1. req[r] \in RequestState /\ req[r].left > 0
    BY <1>3 DEF TypeOK, Tick
  <2> QED
    BY <2>1 DEF RequestState
<1>4. req' \in [Requests -> RequestState]
  BY <1>3 DEF Tick, TypeOK
<1>5. \A r \in Requests : req'[r].pc = req[r].pc /\ req'[r].bucket = req[r].bucket
  BY DEF Tick, TypeOK, RequestState
<1>6. \A s \in Sessions :
         [affinity[s] EXCEPT !.idle = Smaller(@ + 1, AffinityTtl + 1)] \in Binding
  BY DurationAssumption DEF TypeOK, Binding, Smaller
<1>7. affinity' \in [Sessions -> Binding]
  BY <1>6 DEF Tick, TypeOK
<1> QED
  BY <1>2, <1>4, <1>5, <1>7 DEF TypeOK

LEMMA NextType ==
    ASSUME TypeOK, [Next]_vars
    PROVE  TypeOK'
<1>1. CASE UNCHANGED vars
  BY <1>1 DEF TypeOK, vars
<1>2. ASSUME NEW r \in Requests, AcquireStep(r)
      PROVE  TypeOK'
  <2>1. {} \in SUBSET Buckets /\ Sessions \subseteq Sessions \cup {NoKey}
    OBVIOUS
  <2> QED
    BY <1>2, <2>1, AcquireType DEF AcquireStep
<1>3. ASSUME NEW r \in Requests, CancelWait(r)
      PROVE  TypeOK'
  <2>1. NoRequest \in RequestState /\ NoRequest.pc = "idle"
    BY DEF NoRequest, RequestState
  <2> QED
    BY <1>3, <2>1 DEF CancelWait, TypeOK
<1>4. ASSUME NEW r \in Requests, RequestStep(r)
      PROVE  TypeOK'
  BY <1>2, <1>3, <1>4, DequeueType, FinishType DEF RequestStep
<1> QED
  BY <1>1, <1>4, ProbeType, RotatorType, TickType DEF Next

LEMMA InitType ==
    ASSUME Init
    PROVE  TypeOK
<1>1. FreshEgress \in EgressState
  BY PastType DEF FreshEgress, EgressState, Reasons
<1>2. NoRequest \in RequestState /\ NoRequest.pc = "idle"
  BY DEF NoRequest, RequestState
<1>3. Unbound \in Binding
  BY DEF Unbound, Binding
<1> QED
  BY <1>1, <1>2, <1>3 DEF Init, TypeOK

(* Every reachable state of the pool is well formed.                       *)
THEOREM TypeCorrect == Spec => []TypeOK
<1>1. Init => TypeOK
  BY InitType
<1>2. TypeOK /\ [Next]_vars => TypeOK'
  BY NextType
<1> QED
  BY <1>1, <1>2, PTL DEF Spec

-----------------------------------------------------------------------------
(* Slot accounting: only a grant and a return move a counter, and each     *)
(* moves the set of holders by the same one request.                       *)

(* `e` counts, per bucket, slots that are taken and belong to no lease.    *)
Accounts(e) == \A b \in Buckets : st[b].inflight = Cardinality(Holders(b)) + e[b]

Inv(e) == TypeOK /\ Accounts(e)

LEMMA HoldersFinite ==
    ASSUME NEW b \in Buckets
    PROVE  IsFiniteSet(Holders(b)) /\ Cardinality(Holders(b)) \in Nat
<1>1. Holders(b) \subseteq Requests
  BY DEF Holders
<1> QED
  BY <1>1, ActorAssumption, FS_Subset, FS_CardinalityType

LEMMA LeaseAccounts ==
    ASSUME NEW e \in [Buckets -> Nat], Inv(e),
           NEW r \in Requests, req[r].pc # "leased", NEW b \in Buckets, NEW key,
           NEW bound, NEW elapsed, Lease(r, b, key, bound, elapsed)
    PROVE  Accounts(e)'
<1> SUFFICES ASSUME NEW c \in Buckets
             PROVE  st'[c].inflight = Cardinality(Holders(c)') + e[c]
  BY DEF Accounts
<1>1. /\ req'[r].pc = "leased" /\ req'[r].bucket = b
      /\ \A q \in Requests \ {r} : req'[q] = req[q]
  BY DEF Lease, Inv, TypeOK, NoRequest
<1>2. r \notin Holders(b)
  BY DEF Holders
<1>3. CASE c = b
  <2>1. Holders(b)' = Holders(b) \cup {r}
    BY <1>1 DEF Holders
  <2>2. st'[b].inflight = st[b].inflight + 1
    BY DEF Lease, Inv, TypeOK, EgressState
  <2>3. Cardinality(Holders(b) \cup {r}) = Cardinality(Holders(b)) + 1
    BY <1>2, HoldersFinite, FS_AddElement
  <2> QED
    BY <1>3, <2>1, <2>2, <2>3, HoldersFinite DEF Inv, Accounts
<1>4. CASE c # b
  <2>1. Holders(c)' = Holders(c)
    BY <1>1, <1>4 DEF Holders
  <2>2. st'[c] = st[c]
    BY <1>4 DEF Lease, Inv, TypeOK
  <2> QED
    BY <2>1, <2>2 DEF Inv, Accounts
<1> QED
  BY <1>3, <1>4

LEMMA ReturnAccounts ==
    ASSUME NEW e \in [Buckets -> Nat], Inv(e),
           NEW r \in Requests, req[r].pc = "leased", NEW s,
           s.inflight = Freed(st[req[r].bucket]).inflight,
           st' = [st EXCEPT ![req[r].bucket] = s],
           req' = [req EXCEPT ![r].pc = "released"]
    PROVE  Accounts(e)'
<1> DEFINE b == req[r].bucket
<1>1. b \in Buckets
  BY DEF Inv, TypeOK
<1>2. /\ req'[r].pc = "released"
      /\ \A q \in Requests \ {r} : req'[q] = req[q]
  BY DEF Inv, TypeOK, RequestState
<1>3. r \in Holders(b)
  BY DEF Holders
<1> SUFFICES ASSUME NEW c \in Buckets
             PROVE  st'[c].inflight = Cardinality(Holders(c)') + e[c]
  BY DEF Accounts
<1>4. CASE c = b
  <2>1. Holders(b)' = Holders(b) \ {r}
    BY <1>2 DEF Holders
  <2>2. Cardinality(Holders(b) \ {r}) = Cardinality(Holders(b)) - 1
    BY <1>1, <1>3, HoldersFinite, FS_RemoveElement
  <2>3. Cardinality(Holders(b) \ {r}) >= 0
    BY <1>1, HoldersFinite, FS_Subset, FS_CardinalityType
  <2>4. st[b] \in EgressState /\ st[b].inflight = Cardinality(Holders(b)) + e[b]
    BY <1>1 DEF Inv, TypeOK, Accounts
  <2>5. Freed(st[b]).inflight = Larger(0, st[b].inflight - 1)
    BY <2>4 DEF Freed, EgressState
  <2>6. st'[b] = s
    BY <1>1 DEF Inv, TypeOK
  <2>7. Cardinality(Holders(b)) \in Nat /\ e[b] \in Nat
    BY <1>1, HoldersFinite
  <2>8. Larger(0, st[b].inflight - 1) = Cardinality(Holders(b) \ {r}) + e[b]
    <3>1. Cardinality(Holders(b)) - 1 >= 0
      BY <2>2, <2>3
    <3> QED
      BY <2>2, <2>4, <2>7, <3>1 DEF Larger
  <2>9. st'[b].inflight = Cardinality(Holders(b) \ {r}) + e[b]
    BY <2>5, <2>6, <2>8
  <2>10. Cardinality(Holders(b)') = Cardinality(Holders(b) \ {r})
    BY <2>1
  <2> QED
    BY <1>4, <2>9, <2>10
<1>5. CASE c # b
  <2>1. Holders(c)' = Holders(c)
    BY <1>2, <1>5 DEF Holders
  <2>2. st'[c] = st[c]
    BY <1>5 DEF Inv, TypeOK
  <2> QED
    BY <2>1, <2>2 DEF Inv, Accounts
<1> QED
  BY <1>4, <1>5

(* A step that grants no lease, returns none and moves no counter.         *)
LEMMA IdleAccounts ==
    ASSUME NEW e \in [Buckets -> Nat], Inv(e),
           \A b \in Buckets : st'[b].inflight = st[b].inflight,
           \A b \in Buckets : Holders(b)' = Holders(b)
    PROVE  Accounts(e)'
BY DEF Inv, Accounts

LEMMA SameHolders ==
    ASSUME TypeOK, UNCHANGED req
    PROVE  \A b \in Buckets : Holders(b)' = Holders(b)
BY DEF Holders

LEMMA AcquireAccounts ==
    ASSUME NEW e \in [Buckets -> Nat], Inv(e),
           NEW r \in Requests, NEW key, NEW exclude, Acquire(r, key, exclude)
    PROVE  Accounts(e)'
<1> DEFINE offered == IF Sticky(key) # {} THEN Sticky(key) ELSE Usable(exclude)
           open == WithSlot(offered)
<1>1. open \subseteq Buckets
  BY DEF Sticky, Usable, Selectable, WithSlot
<1>2. req[r].pc # "leased"
  BY DEF Acquire
<1>3. CASE \E b \in Preferred(open, key, Kept(key)) : Lease(r, b, key, Kept(key), 0)
  <2>1. PICK b \in Preferred(open, key, Kept(key)) : Lease(r, b, key, Kept(key), 0)
    BY <1>3
  <2>2. b \in Buckets
    BY <1>1 DEF Preferred, LeastLoaded
  <2> QED
    BY <1>2, <2>1, <2>2, LeaseAccounts
<1>4. CASE Enqueue(r, key, offered, Kept(key))
  <2>1. req'[r].pc = "queued" /\ \A q \in Requests \ {r} : req'[q] = req[q]
    BY <1>4 DEF Enqueue, Inv, TypeOK, NoRequest
  <2>2. \A b \in Buckets : Holders(b)' = Holders(b)
    BY <1>2, <2>1 DEF Holders
  <2> QED
    BY <1>4, <2>2, IdleAccounts DEF Enqueue
<1> QED
  BY <1>3, <1>4 DEF Acquire

LEMMA RequestAccounts ==
    ASSUME NEW e \in [Buckets -> Nat], Inv(e),
           NEW r \in Requests, RequestStep(r)
    PROVE  Accounts(e)'
<1>1. CASE AcquireStep(r)
  BY <1>1, AcquireAccounts DEF AcquireStep
<1>2. CASE Dequeue(r)
  <2> DEFINE open == WithSlot(req[r].offered)
             choices == IF open # {} THEN open ELSE req[r].offered
  <2>1. choices \subseteq Buckets
    BY DEF Inv, TypeOK, RequestState, WithSlot
  <2>2. PICK b \in LeastLoaded(choices) :
           Lease(r, b, req[r].key, affinity, InflightWait - req[r].left)
    BY <1>2 DEF Dequeue
  <2>3. b \in Buckets /\ req[r].pc # "leased"
    BY <1>2, <2>1 DEF LeastLoaded, Dequeue
  <2> QED
    BY <2>2, <2>3, LeaseAccounts
<1>3. CASE CancelWait(r)
  <2>1. /\ req[r].pc # "leased" /\ req'[r].pc # "leased"
        /\ \A q \in Requests \ {r} : req'[q] = req[q]
    BY <1>3 DEF CancelWait, Inv, TypeOK, NoRequest
  <2>2. \A b \in Buckets : Holders(b)' = Holders(b)
    BY <2>1 DEF Holders
  <2> QED
    BY <1>3, <2>2, IdleAccounts DEF CancelWait
<1>4. CASE UNCHANGED vars
  BY <1>4, SameHolders, IdleAccounts DEF vars, Inv
<1>5. CASE Abandon(r) /\ req[r].pc = "leased"
  BY <1>5, ReturnAccounts DEF Abandon
<1>6. CASE \E v \in Verdicts, mark \in BOOLEAN : Release(r, v, mark) /\ req[r].pc = "leased"
  <2>1. PICK v \in Verdicts, mark \in BOOLEAN : Release(r, v, mark) /\ req[r].pc = "leased"
    BY <1>6
  <2> DEFINE f == Freed(st[req[r].bucket])
             s == Marked(Judged(f, v), mark)
  <2>2. f \in EgressState
    BY <2>1, HelperTypes DEF Inv, TypeOK
  <2>3. Judged(f, v) \in EgressState /\ Judged(f, v).inflight = f.inflight
    BY <2>2, JudgedType
  <2>4. s.inflight = f.inflight
    <3> HIDE DEF f
    <3> QED
      BY <2>3 DEF Marked, EgressState
  <2>5. st' = [st EXCEPT ![req[r].bucket] = s] /\ req' = [req EXCEPT ![r].pc = "released"]
    BY <2>1 DEF Release
  <2> QED
    BY <2>1, <2>4, <2>5, ReturnAccounts
<1> QED
  BY <1>1, <1>2, <1>3, <1>4, <1>5, <1>6 DEF RequestStep, Finish, Abandon, Release

LEMMA ProbeAccounts ==
    ASSUME NEW e \in [Buckets -> Nat], Inv(e),
           NEW b \in Buckets, ProbeStep(b)
    PROVE  Accounts(e)'
<1>1. st[b] \in EgressState /\ req' = req
  BY DEF Inv, TypeOK, ProbeStep, ProbeUnreachable, ProbeNotReady, ProbeReady
<1>2. ASSUME NEW s, s.inflight = st[b].inflight, st' = [st EXCEPT ![b] = s]
      PROVE  Accounts(e)'
  <2>1. \A c \in Buckets : st'[c].inflight = st[c].inflight
    BY <1>2 DEF Inv, TypeOK
  <2> QED
    BY <1>1, <2>1, SameHolders, IdleAccounts DEF Inv
<1>3. ASSUME NEW ip
      PROVE  Observed(st[b], ip).inflight = st[b].inflight
  BY <1>1 DEF Observed, EgressState
<1>4. ASSUME NEW ip \in IPs \cup {NoIp}
      PROVE  Observed(st[b], ip) \in EgressState
  BY <1>1 DEF Observed, EgressState
<1>5. CASE ProbeUnreachable(b)
  <2>1. st' = [st EXCEPT ![b] = [st[b] EXCEPT !.healthy = FALSE]]
    BY <1>5 DEF ProbeUnreachable, Inv, TypeOK
  <2>2. [st[b] EXCEPT !.healthy = FALSE].inflight = st[b].inflight
    BY <1>1 DEF EgressState
  <2> QED
    BY <1>2, <2>1, <2>2
<1>6. ASSUME NEW ip \in IPs \cup {NoIp}, ProbeNotReady(b, ip)
      PROVE  Accounts(e)'
  <2> DEFINE s == [Observed(st[b], ip) EXCEPT !.streak = Smaller(@ + 1, Tolerance)]
             t == IF s.streak >= Tolerance THEN [s EXCEPT !.healthy = FALSE] ELSE s
  <2>1. t.inflight = st[b].inflight
    BY <1>3, <1>4 DEF EgressState
  <2>2. st' = [st EXCEPT ![b] = t]
    BY <1>6 DEF ProbeNotReady
  <2> HIDE DEF t
  <2> QED
    BY <1>2, <2>1, <2>2
<1>7. ASSUME NEW ip \in IPs \cup {NoIp}, ProbeReady(b, ip)
      PROVE  Accounts(e)'
  <2> DEFINE up == Recovered(Observed(st[b], ip))
             moved == IF up.ip # st[b].ip THEN LiftIpScopedCordon(up) ELSE up
             t == IF st[b].healthy THEN moved ELSE CleanSlate(moved)
  <2>1. up \in EgressState /\ up.inflight = st[b].inflight
    <3>1. \A o \in EgressState : Recovered(o).inflight = o.inflight
      BY DEF EgressState, Recovered
    <3> QED
      BY <1>3, <1>4, <3>1, HelperTypes
  <2>2. moved \in EgressState /\ moved.inflight = st[b].inflight
    <3> HIDE DEF up
    <3>1. LiftIpScopedCordon(up) \in EgressState
      BY <2>1, HelperTypes
    <3>2. LiftIpScopedCordon(up).inflight = up.inflight
      BY <2>1 DEF LiftIpScopedCordon, EgressState
    <3> QED
      BY <2>1, <3>1, <3>2
  <2>3. t.inflight = st[b].inflight
    <3> HIDE DEF moved
    <3> QED
      BY <2>2 DEF EgressState, CleanSlate
  <2>4. st' = [st EXCEPT ![b] = t]
    BY <1>7 DEF ProbeReady
  <2> HIDE DEF t
  <2> QED
    BY <1>2, <2>3, <2>4
<1> QED
  BY <1>5, <1>6, <1>7 DEF ProbeStep

LEMMA OtherAccounts ==
    ASSUME NEW e \in [Buckets -> Nat], Inv(e),
           Tick \/ \E b \in Buckets : RotatorStep(b)
    PROVE  Accounts(e)'
<1>1. CASE Tick
  <2>1. \A b \in Buckets : st'[b].inflight = st[b].inflight
    BY <1>1 DEF Tick, Inv, TypeOK, EgressState
  <2>2. \A r \in Requests : req'[r].pc = req[r].pc /\ req'[r].bucket = req[r].bucket
    BY <1>1 DEF Tick, Inv, TypeOK, RequestState
  <2>3. \A b \in Buckets : Holders(b)' = Holders(b)
    BY <2>2 DEF Holders
  <2> QED
    BY <2>1, <2>3, IdleAccounts
<1>2. ASSUME NEW b \in Buckets, RotatorStep(b)
      PROVE  Accounts(e)'
  <2>1. req' = req
    BY <1>2 DEF RotatorStep, StartRotation, FailRotation, SucceedRotation
  <2>2. \A c \in Buckets : st[c] \in EgressState
    BY DEF Inv, TypeOK
  <2>3. PICK s : st' = [st EXCEPT ![b] = s] /\ s.inflight = st[b].inflight
    <3>1. CASE StartRotation(b)
      <4>1. [st[b] EXCEPT !.rotating = TRUE].inflight = st[b].inflight
        BY <2>2 DEF EgressState
      <4>2. st' = [st EXCEPT ![b] = [st[b] EXCEPT !.rotating = TRUE]]
        BY <3>1, <2>2 DEF StartRotation, Inv, TypeOK
      <4> QED
        BY <4>1, <4>2
    <3>2. CASE FailRotation(b)
      <4>1. [st[b] EXCEPT !.rotating = FALSE].inflight = st[b].inflight
        BY <2>2 DEF EgressState
      <4>2. st' = [st EXCEPT ![b] = [st[b] EXCEPT !.rotating = FALSE]]
        BY <3>2, <2>2 DEF FailRotation, Inv, TypeOK
      <4> QED
        BY <4>1, <4>2
    <3>3. ASSUME NEW ip \in IPs, SucceedRotation(b, ip)
          PROVE  \E s : st' = [st EXCEPT ![b] = s] /\ s.inflight = st[b].inflight
      <4>1. RotationSucceeded(st[b], ip).inflight = st[b].inflight
        BY <2>2 DEF RotationSucceeded, EgressState
      <4>2. st' = [st EXCEPT ![b] = RotationSucceeded(st[b], ip)]
        BY <3>3 DEF SucceedRotation
      <4> QED
        BY <4>1, <4>2
    <3> QED
      BY <1>2, <3>1, <3>2, <3>3 DEF RotatorStep
  <2>4. \A c \in Buckets : st'[c].inflight = st[c].inflight
    BY <2>3 DEF Inv, TypeOK
  <2> QED
    BY <2>1, <2>4, SameHolders, IdleAccounts DEF Inv
<1> QED
  BY <1>1, <1>2

LEMMA InitAccounts ==
    ASSUME Init
    PROVE  Inv([b \in Buckets |-> 0])
<1> DEFINE e == [b \in Buckets |-> 0]
<1>1. TypeOK
  BY InitType
<1>2. Accounts(e)
  <2> SUFFICES ASSUME NEW b \in Buckets
               PROVE  st[b].inflight = Cardinality(Holders(b)) + e[b]
    BY DEF Accounts
  <2>1. Holders(b) = {} /\ st[b].inflight = 0
    BY DEF Init, Holders, NoRequest, FreshEgress
  <2>2. Cardinality(Holders(b)) = 0
    BY <2>1, FS_EmptySet
  <2>3. e[b] = 0
    OBVIOUS
  <2> QED
    BY <2>1, <2>2, <2>3
<1> QED
  BY <1>1, <1>2 DEF Inv

LEMMA NextAccounts ==
    ASSUME NEW e \in [Buckets -> Nat], Inv(e), [Next]_vars
    PROVE  Inv(e)'
<1>1. TypeOK'
  BY NextType DEF Inv
<1>2. CASE UNCHANGED vars
  BY <1>1, <1>2, SameHolders, IdleAccounts DEF vars, Inv
<1>3. CASE Next
  BY <1>1, <1>3, RequestAccounts, ProbeAccounts, OtherAccounts DEF Next, Inv
<1> QED
  BY <1>2, <1>3

(* In every reachable state the in-flight counter of every bucket is the   *)
(* number of live leases on it, for any number of buckets and requests.    *)
THEOREM SlotsAccounted == Spec => []SlotAccounting
<1> DEFINE e == [b \in Buckets |-> 0]
<1>1. Init => Inv(e)
  BY InitAccounts
<1>2. Inv(e) /\ [Next]_vars => Inv(e)'
  BY NextAccounts
<1>3. Inv(e) => SlotAccounting
  BY HoldersFinite DEF Inv, Accounts, SlotAccounting
<1> QED
  BY <1>1, <1>2, <1>3, PTL DEF Spec

-----------------------------------------------------------------------------
(* Silence on the bench: with no in-flight cap acquire has no await, so it *)
(* leases what it selected in the same step.                               *)

NobodyQueued == \A r \in Requests : req[r].pc # "queued"

Silenced(b) == ~Cordoned(b) /\ ~(st[b].healthy /\ st[b].rotating)

(* A request that holds no lease yet can only become the holder of the     *)
(* bucket acquire picked, and acquire picks from the tiers.                *)
LEMMA AcquireSilence ==
    ASSUME TypeOK, MaxInflight = 0, NobodyQueued, NEW r \in Requests, NEW key,
           NEW exclude, Acquire(r, key, exclude)
    PROVE  /\ NobodyQueued'
           /\ \A b \in Buckets : LeaseGranted(b) => Silenced(b)
<1> DEFINE offered == IF Sticky(key) # {} THEN Sticky(key) ELSE Usable(exclude)
           open == WithSlot(offered)
<1>1. open = offered /\ offered # {}
  BY DEF WithSlot, Acquire, Exhausted
<1>2. PICK b \in Preferred(open, key, Kept(key)) : Lease(r, b, key, Kept(key), 0)
  BY <1>1 DEF Acquire
<1>3. b \in Sticky(key) \cup Usable(exclude)
  BY <1>1, <1>2 DEF Preferred, LeastLoaded
<1>4. Silenced(b)
  BY <1>3 DEF Silenced, Sticky, Usable, Selectable, Available
<1>5. /\ req'[r].pc = "leased" /\ req'[r].bucket = b
      /\ \A q \in Requests \ {r} : req'[q] = req[q]
  BY <1>2 DEF Lease, TypeOK, NoRequest
<1>6. NobodyQueued'
  BY <1>5 DEF NobodyQueued
<1>7. ASSUME NEW c \in Buckets, LeaseGranted(c)
      PROVE  c = b
  BY <1>5, <1>7 DEF LeaseGranted, Holders
<1> QED
  BY <1>4, <1>6, <1>7

(* Every other step leaves each request where it is, or takes its lease.   *)
LEMMA QuietSteps ==
    ASSUME TypeOK, NobodyQueued, [Next]_vars,
           ~ \E r \in Requests : AcquireStep(r)
    PROVE  \A q \in Requests : \/ /\ req'[q].pc = req[q].pc
                                  /\ req'[q].bucket = req[q].bucket
                               \/ req'[q].pc = "released"
<1>1. CASE UNCHANGED vars
  BY <1>1 DEF vars
<1>2. ASSUME NEW r \in Requests, Finish(r)
      PROVE  \/ UNCHANGED req
             \/ req' = [req EXCEPT ![r].pc = "released"]
  BY <1>2 DEF Finish, Abandon, Release, vars
<1>3. CASE \E r \in Requests : RequestStep(r)
  <2>1. PICK r \in Requests : RequestStep(r)
    BY <1>3
  <2>2. Finish(r)
    BY <2>1 DEF RequestStep, Dequeue, CancelWait, NobodyQueued
  <2>3. CASE UNCHANGED req
    BY <2>3
  <2>4. CASE req' = [req EXCEPT ![r].pc = "released"]
    BY <2>4 DEF TypeOK, RequestState
  <2> QED
    BY <1>2, <2>2, <2>3, <2>4
<1>4. CASE \E b \in Buckets : ProbeStep(b) \/ RotatorStep(b)
  BY <1>4 DEF ProbeStep, ProbeUnreachable, ProbeNotReady, ProbeReady,
              RotatorStep, StartRotation, FailRotation, SucceedRotation
<1>5. CASE Tick
  BY <1>5 DEF Tick, NobodyQueued
<1> QED
  BY <1>1, <1>3, <1>4, <1>5 DEF Next

LEMMA StepSilence ==
    ASSUME TypeOK, MaxInflight = 0, NobodyQueued, [Next]_vars
    PROVE  /\ NobodyQueued'
           /\ \A b \in Buckets : LeaseGranted(b) => Silenced(b)
<1>1. CASE \E r \in Requests : AcquireStep(r)
  BY <1>1, AcquireSilence DEF AcquireStep
<1>2. CASE ~ \E r \in Requests : AcquireStep(r)
  <2>1. \A q \in Requests : \/ /\ req'[q].pc = req[q].pc
                               /\ req'[q].bucket = req[q].bucket
                            \/ req'[q].pc = "released"
    BY <1>2, QuietSteps
  <2>2. NobodyQueued'
    BY <2>1 DEF NobodyQueued
  <2>3. \A b \in Buckets : ~LeaseGranted(b)
    BY <2>1 DEF LeaseGranted, Holders
  <2> QED
    BY <2>2, <2>3
<1> QED
  BY <1>1, <1>2

(* With the cap disabled, which is the default, no bucket on the bench and *)
(* no probed-good bucket under rotation is ever leased, for any number of  *)
(* buckets, requests and sessions and any durations.                       *)
THEOREM BenchSilent ==
    ASSUME MaxInflight = 0
    PROVE  Spec => BenchedNeverLeased
<1>1. Init => TypeOK /\ NobodyQueued
  BY InitType DEF Init, NobodyQueued, NoRequest
<1>2. TypeOK /\ NobodyQueued /\ [Next]_vars => (TypeOK /\ NobodyQueued)'
  BY NextType, StepSilence
<1>3. TypeOK /\ NobodyQueued /\ [Next]_vars =>
         [\A b \in Buckets :
            LeaseGranted(b) => ~Cordoned(b) /\ ~(st[b].healthy /\ st[b].rotating)]_vars
  BY StepSilence DEF Silenced
<1> QED
  BY <1>1, <1>2, <1>3, PTL DEF Spec, BenchedNeverLeased

-----------------------------------------------------------------------------
(* The bench: what any one step may do to the cordon of a bucket.          *)

(* Only a completed request lifts it, and that clears the failures too.    *)
LEMMA JudgedBench ==
    ASSUME NEW s \in EgressState, s.cordon > 0, NEW v \in Verdicts
    PROVE  \/ Judged(s, v).cordon >= s.cordon
           \/ Judged(s, v).cordon = Past /\ Judged(s, v).failures = 0
<1>1. Failed(s) \in EgressState /\ Failed(s).cordon = s.cordon
  BY HelperTypes DEF Failed, EgressState
<1>2. EnterCooldown(Failed(s)).cordon = s.cordon
  BY <1>1 DEF EnterCooldown, EgressState
<1>3. v.bench \in Nat
  BY VerdictBench
<1>4. ASSUME NEW reason
      PROVE  EnterCordon(Failed(s), v.bench, reason).cordon >= s.cordon
  BY <1>1, <1>3 DEF EnterCordon, EgressState, Larger
<1>5. LET t == LiftCordonOnSuccess([s EXCEPT !.failures = 0, !.cooldown = 0])
      IN  t.cordon >= s.cordon \/ (t.cordon = Past /\ t.failures = 0)
  BY DEF LiftCordonOnSuccess, EgressState
<1>6. v.kind \in {"ok", "transport", "http_429_soft", "http_429_hard", "free_tier_rejected"}
  BY DEF Verdicts
<1>7. s.cordon \in Int
  BY DEF EgressState
<1> QED
  BY <1>2, <1>4, <1>5, <1>6, <1>7 DEF Judged

(* What a step that is not time may do to one bucket: leave its cordon     *)
(* alone, extend it, or lift it for one of the three reasons.              *)
Evidence(b) ==
    \/ \E r \in Holders(b) : r \notin Holders(b)' /\ st'[b].failures = 0
    \/ st'[b].ip # st[b].ip /\ st'[b].healthy /\ st[b].reason \in IpScopedReasons
    \/ st[b].rotating /\ ~st'[b].rotating

BenchStep(b) ==
    st[b].cordon > 0 =>
        st'[b].cordon >= st[b].cordon \/ (st'[b].cordon = Past /\ Evidence(b))

LEMMA FinishBench ==
    ASSUME TypeOK, NEW r \in Requests, Finish(r), NEW c \in Buckets
    PROVE  BenchStep(c)
<1> DEFINE b == req[r].bucket
<1>1. st[c] \in EgressState /\ st[c].cordon \in Int
  BY DEF TypeOK, EgressState
<1>2. CASE st'[c] = st[c]
  BY <1>1, <1>2 DEF BenchStep
<1>3. CASE req[r].pc = "leased" /\ c = b
  <2>1. Freed(st[b]) \in EgressState /\ Freed(st[b]).cordon = st[b].cordon
    BY <1>1, <1>3, HelperTypes DEF Freed, EgressState
  <2>2. CASE Abandon(r)
    BY <1>1, <1>3, <2>1, <2>2 DEF Abandon, TypeOK, BenchStep
  <2>3. ASSUME NEW v \in Verdicts, NEW mark \in BOOLEAN, Release(r, v, mark)
        PROVE  BenchStep(c)
    <3> DEFINE j == Judged(Freed(st[b]), v)
    <3>1. j \in EgressState
      BY <2>1, JudgedType
    <3>2. st[b].cordon > 0 => j.cordon >= st[b].cordon \/ (j.cordon = Past /\ j.failures = 0)
      BY <2>1, JudgedBench
    <3>3. st'[b] = Marked(j, mark)
      BY <1>3, <2>3 DEF Release, TypeOK
    <3> HIDE DEF j
    <3>4. st'[b].cordon = j.cordon /\ st'[b].failures = j.failures
      BY <3>1, <3>3 DEF Marked, EgressState
    <3>5. r \in Holders(c) /\ r \notin Holders(c)'
      BY <1>3, <2>3 DEF Release, Holders, TypeOK, RequestState
    <3> QED
      BY <1>3, <3>2, <3>4, <3>5 DEF BenchStep, Evidence
  <2> QED
    BY <2>2, <2>3 DEF Finish
<1> QED
  BY <1>2, <1>3 DEF Finish, Abandon, Release, vars, TypeOK

LEMMA ProbeBench ==
    ASSUME TypeOK, NEW b \in Buckets, ProbeStep(b), NEW c \in Buckets
    PROVE  BenchStep(c)
<1>1. st[b] \in EgressState /\ st[c].cordon \in Int
  BY DEF TypeOK, EgressState
<1>2. CASE st'[c] = st[c]
  BY <1>1, <1>2 DEF BenchStep
<1>3. ASSUME NEW ip \in IPs \cup {NoIp}
      PROVE  Observed(st[b], ip) \in EgressState /\ Observed(st[b], ip).cordon = st[b].cordon
             /\ Observed(st[b], ip).reason = st[b].reason
  BY <1>1 DEF Observed, EgressState
<1>4. CASE ProbeUnreachable(b) /\ c = b
  BY <1>1, <1>4 DEF ProbeUnreachable, TypeOK, EgressState, BenchStep
<1>5. ASSUME NEW ip \in IPs \cup {NoIp}, ProbeNotReady(b, ip), c = b
      PROVE  BenchStep(c)
  <2> DEFINE s == [Observed(st[b], ip) EXCEPT !.streak = Smaller(@ + 1, Tolerance)]
             t == IF s.streak >= Tolerance THEN [s EXCEPT !.healthy = FALSE] ELSE s
  <2>1. t.cordon = st[b].cordon
    BY <1>3 DEF EgressState
  <2>2. st'[b] = t
    BY <1>5 DEF ProbeNotReady, TypeOK
  <2> HIDE DEF t
  <2> QED
    BY <1>1, <1>5, <2>1, <2>2 DEF BenchStep
<1>6. ASSUME NEW ip \in IPs \cup {NoIp}, ProbeReady(b, ip), c = b
      PROVE  BenchStep(c)
  <2> DEFINE up == Recovered(Observed(st[b], ip))
             moved == IF up.ip # st[b].ip THEN LiftIpScopedCordon(up) ELSE up
             t == IF st[b].healthy THEN moved ELSE CleanSlate(moved)
  <2>1. /\ up \in EgressState /\ up.cordon = st[b].cordon /\ up.reason = st[b].reason
        /\ up.healthy
    BY <1>3, HelperTypes DEF Recovered, EgressState
  <2>2. /\ moved \in EgressState /\ moved.healthy /\ moved.ip = up.ip
        /\ \/ moved.cordon = st[b].cordon
           \/ /\ moved.cordon = Past /\ moved.ip # st[b].ip
              /\ st[b].reason \in IpScopedReasons
    <3> HIDE DEF up
    <3> QED
      BY <2>1, HelperTypes DEF LiftIpScopedCordon, EgressState
  <2>3. t.cordon = moved.cordon /\ t.ip = moved.ip /\ t.healthy = moved.healthy
    <3> HIDE DEF moved
    <3> QED
      BY <2>2 DEF CleanSlate, EgressState
  <2>4. st'[b] = t
    BY <1>6 DEF ProbeReady, TypeOK
  <2> HIDE DEF t, moved, up
  <2>5. CASE moved.cordon = st[b].cordon
    BY <1>1, <1>6, <2>3, <2>4, <2>5 DEF BenchStep
  <2>6. CASE /\ moved.cordon = Past /\ moved.ip # st[b].ip
             /\ st[b].reason \in IpScopedReasons
    <3>1. Evidence(c)
      BY <1>6, <2>2, <2>3, <2>4, <2>6 DEF Evidence
    <3> QED
      BY <1>6, <2>3, <2>4, <2>6, <3>1 DEF BenchStep
  <2> QED
    BY <2>2, <2>5, <2>6
<1>7. CASE c # b
  <2>1. \E s : st' = [st EXCEPT ![b] = s]
    BY Zenon DEF ProbeStep, ProbeUnreachable, ProbeNotReady, ProbeReady
  <2>2. st'[c] = st[c]
    BY <1>7, <2>1 DEF TypeOK
  <2> QED
    BY <1>2, <2>2
<1>8. CASE c = b
  <2>1. CASE ProbeUnreachable(b)
    BY <1>4, <1>8, <2>1
  <2>2. ASSUME NEW ip \in IPs \cup {NoIp}, ProbeNotReady(b, ip)
        PROVE  BenchStep(c)
    BY <1>5, <1>8, <2>2
  <2>3. ASSUME NEW ip \in IPs \cup {NoIp}, ProbeReady(b, ip)
        PROVE  BenchStep(c)
    BY <1>6, <1>8, <2>3
  <2> QED
    BY <2>1, <2>2, <2>3 DEF ProbeStep
<1> QED
  BY <1>7, <1>8

LEMMA RotatorBench ==
    ASSUME TypeOK, NEW b \in Buckets, RotatorStep(b), NEW c \in Buckets
    PROVE  BenchStep(c)
<1>1. st[c] \in EgressState /\ st[c].cordon \in Int
  BY DEF TypeOK, EgressState
<1>2. CASE StartRotation(b) \/ FailRotation(b)
  <2>1. st'[c].cordon = st[c].cordon
    BY <1>1, <1>2, SMTT(30) DEF StartRotation, FailRotation, TypeOK, EgressState
  <2> QED
    BY <1>1, <2>1 DEF BenchStep
<1>3. ASSUME NEW ip \in IPs, SucceedRotation(b, ip)
      PROVE  BenchStep(c)
  <2>1. CASE c = b
    <3>1. st'[b].cordon = Past /\ ~st'[b].rotating
      BY <1>1, <1>3, <2>1 DEF SucceedRotation, RotationSucceeded, TypeOK, EgressState
    <3> QED
      BY <1>3, <2>1, <3>1 DEF SucceedRotation, BenchStep, Evidence
  <2>2. CASE c # b
    BY <1>1, <1>3, <2>2 DEF SucceedRotation, TypeOK, BenchStep
  <2> QED
    BY <2>1, <2>2
<1> QED
  BY <1>2, <1>3 DEF RotatorStep

LEMMA WaitBench ==
    ASSUME TypeOK, NEW r \in Requests,
           AcquireStep(r) \/ Dequeue(r) \/ CancelWait(r), NEW c \in Buckets
    PROVE  BenchStep(c)
<1>1. st[c] \in EgressState /\ st[c].cordon \in Int
  BY DEF TypeOK, EgressState
<1>2. ASSUME NEW b, NEW key, NEW bound, NEW elapsed, Lease(r, b, key, bound, elapsed)
      PROVE  BenchStep(c)
  BY <1>1, <1>2 DEF Lease, TypeOK, EgressState, BenchStep
<1>3. CASE st' = st
  BY <1>1, <1>3 DEF BenchStep
<1>4. CASE AcquireStep(r)
  <2>1. PICK key, exclude : Acquire(r, key, exclude)
    BY <1>4 DEF AcquireStep
  <2>2. (\E b : Lease(r, b, key, Kept(key), 0)) \/ st' = st
    BY <2>1 DEF Acquire, Enqueue
  <2> QED
    BY <1>2, <1>3, <2>2
<1> QED
  BY <1>2, <1>3, <1>4 DEF Dequeue, CancelWait

LEMMA StepBench ==
    ASSUME TypeOK, [Next]_vars, ~Tick, NEW c \in Buckets
    PROVE  BenchStep(c)
<1>1. st[c].cordon \in Int
  BY DEF TypeOK, EgressState
<1>2. CASE UNCHANGED vars
  BY <1>1, <1>2 DEF vars, BenchStep
<1>3. CASE Next
  BY <1>3, FinishBench, ProbeBench, RotatorBench, WaitBench DEF Next, RequestStep
<1> QED
  BY <1>2, <1>3

(* A verdict on a bucket already on the bench never shortens the bench,    *)
(* whatever attempts end on it and in whatever order.                      *)
THEOREM BenchStands == Spec => CordonNeverShortened
<1>1. Init => TypeOK
  BY InitType
<1>2. TypeOK /\ [Next]_vars => TypeOK'
  BY NextType
<1>3. TypeOK /\ [Next]_vars =>
        [~Tick => \A b \in Buckets :
           Cordoned(b) => st'[b].cordon >= st[b].cordon \/ st'[b].cordon = Past]_vars
  BY StepBench DEF BenchStep, Cordoned
<1> QED
  BY <1>1, <1>2, <1>3, PTL DEF Spec, CordonNeverShortened

(* A bench that time has not run out ends only on a completed request of   *)
(* that bucket, on a new address, or with a rotation.                      *)
THEOREM BenchLiftedOnEvidence == Spec => LiftNeedsEvidence
<1>1. Init => TypeOK
  BY InitType
<1>2. TypeOK /\ [Next]_vars => TypeOK'
  BY NextType
<1>3. ASSUME TypeOK, [Next]_vars, NEW b \in Buckets, st[b].cordon > 1, st'[b].cordon <= 0
      PROVE  Evidence(b)
  <2>1. st[b].cordon \in Int /\ Past \in Int
    BY <1>3, PastType DEF TypeOK, EgressState
  <2>2. ASSUME Tick
        PROVE  FALSE
    <3>1. st'[b].cordon = Larger(st[b].cordon - 1, Past)
      BY <1>3, <2>2 DEF Tick, TypeOK, EgressState
    <3> QED
      BY <1>3, <2>1, <3>1 DEF Larger
  <2>3. BenchStep(b)
    BY <1>3, <2>2, StepBench
  <2>4. st'[b].cordon \in Int
    BY <1>2, <1>3 DEF TypeOK, EgressState
  <2> QED
    BY <1>3, <2>1, <2>3, <2>4 DEF BenchStep
<1>4. TypeOK /\ [Next]_vars =>
        [\A b \in Buckets :
           st[b].cordon > 1 /\ st'[b].cordon <= 0 =>
              \/ \E r \in Holders(b) : r \notin Holders(b)' /\ st'[b].failures = 0
              \/ st'[b].ip # st[b].ip /\ st'[b].healthy /\ st[b].reason \in IpScopedReasons
              \/ st[b].rotating /\ ~st'[b].rotating]_vars
  BY <1>3 DEF Evidence
<1> QED
  BY <1>1, <1>2, <1>4, PTL DEF Spec, LiftNeedsEvidence

-----------------------------------------------------------------------------
(* Affinity: without a queue a request binds its session in the step that  *)
(* looked at the binding.                                                  *)

StaysOrCause(s) ==
    LET b == affinity[s].bucket
    IN b # NoBucket /\ ~Expired(s) /\ affinity'[s].bucket # b =>
          ~Available(b) \/ ~st[b].healthy \/ CoolingDown(b)

LEMMA AcquireStays ==
    ASSUME TypeOK, MaxInflight = 0, AffinityTtl > 0, NEW r \in Requests,
           NEW key \in Sessions \cup {NoKey}, NEW exclude, Acquire(r, key, exclude),
           NEW s \in Sessions
    PROVE  StaysOrCause(s)
<1> DEFINE offered == IF Sticky(key) # {} THEN Sticky(key) ELSE Usable(exclude)
           open == WithSlot(offered)
<1>1. open = offered /\ offered # {}
  BY DEF WithSlot, Acquire, Exhausted
<1>2. PICK b \in Preferred(open, key, Kept(key)) : Lease(r, b, key, Kept(key), 0)
  BY <1>1 DEF Acquire
<1>3. b \in offered /\ Kept(key) \in [Sessions -> Binding]
  BY <1>1, <1>2, KeptType DEF Preferred, LeastLoaded
<1> SUFFICES ASSUME affinity[s].bucket # NoBucket, ~Expired(s),
                    affinity'[s].bucket # affinity[s].bucket
             PROVE  ~Available(affinity[s].bucket) \/ ~st[affinity[s].bucket].healthy
                    \/ CoolingDown(affinity[s].bucket)
  BY DEF StaysOrCause
<1>4. affinity[s].bucket \in Buckets /\ s # NoKey /\ NoKey \notin Sessions
  BY ActorAssumption DEF TypeOK, Binding
<1>5. CASE s # key
  <2>1. Kept(key)[s] = affinity[s]
    BY <1>5, DurationAssumption DEF Kept, TypeOK
  <2> QED
    BY <1>2, <1>3, <1>5, <2>1 DEF Lease
<1>6. CASE s = key /\ Sticky(key) = {}
  BY <1>4, <1>6, DurationAssumption DEF Sticky
<1>7. CASE s = key /\ Sticky(key) # {}
  <2>1. Kept(key)[s] = affinity[s]
    BY <1>7, DurationAssumption DEF Kept, TypeOK
  <2>2. b = affinity[s].bucket
    BY <1>3, <1>7 DEF Sticky
  <2> QED
    BY <1>2, <1>3, <1>4, <1>7, <2>1, <2>2 DEF Lease
<1> QED
  BY <1>5, <1>6, <1>7

LEMMA StepStays ==
    ASSUME TypeOK, MaxInflight = 0, AffinityTtl > 0, NobodyQueued, [Next]_vars,
           NEW s \in Sessions
    PROVE  StaysOrCause(s)
<1>1. CASE \E r \in Requests : AcquireStep(r)
  BY <1>1, AcquireStays DEF AcquireStep
<1>2. CASE affinity'[s].bucket = affinity[s].bucket
  BY <1>2 DEF StaysOrCause
<1>3. ASSUME NEW r \in Requests, Dequeue(r) \/ CancelWait(r) \/ Finish(r)
      PROVE  UNCHANGED affinity
  BY <1>3 DEF Dequeue, CancelWait, NobodyQueued, Finish, Abandon, Release, vars
<1>4. ASSUME NEW b \in Buckets, ProbeStep(b) \/ RotatorStep(b)
      PROVE  UNCHANGED affinity
  BY <1>4 DEF ProbeStep, ProbeUnreachable, ProbeNotReady, ProbeReady,
              RotatorStep, StartRotation, FailRotation, SucceedRotation
<1>5. CASE Tick
  <2>1. affinity'[s].bucket = affinity[s].bucket
    BY <1>5 DEF Tick, TypeOK, Binding
  <2> QED
    BY <1>2, <2>1
<1> QED
  BY <1>1, <1>2, <1>3, <1>4, <1>5 DEF Next, RequestStep, vars

(* With the cap disabled and affinity enabled, both the defaults, a        *)
(* conversation leaves its address only when that bucket is benched,       *)
(* rotating, unhealthy or cooling down, whichever sessions run beside it.  *)
THEOREM SessionsStay ==
    ASSUME MaxInflight = 0, AffinityTtl > 0
    PROVE  Spec => MigrationNeedsCause
<1>1. Init => TypeOK /\ NobodyQueued
  BY InitType DEF Init, NobodyQueued, NoRequest
<1>2. TypeOK /\ NobodyQueued /\ [Next]_vars => (TypeOK /\ NobodyQueued)'
  BY NextType, StepSilence
<1>3. TypeOK /\ NobodyQueued /\ [Next]_vars =>
        [\A s \in Sessions :
           LET b == affinity[s].bucket
           IN b # NoBucket /\ ~Expired(s) /\ affinity'[s].bucket # b =>
                 ~Available(b) \/ ~st[b].healthy \/ CoolingDown(b)]_vars
  BY StepStays DEF StaysOrCause
<1> QED
  BY <1>1, <1>2, <1>3, PTL DEF Spec, MigrationNeedsCause

-----------------------------------------------------------------------------
(* The in-flight cap *)

(* The bucket that a queued request is handed.                             *)
LEMMA DequeueGrants ==
    ASSUME TypeOK, NEW r \in Requests, Dequeue(r), NEW b \in Buckets, LeaseGranted(b)
    PROVE  /\ r \in Holders(b)'
           /\ b \in LeastLoaded(IF WithSlot(req[r].offered) # {} THEN WithSlot(req[r].offered)
                                ELSE req[r].offered)
<1> DEFINE choices == IF WithSlot(req[r].offered) # {} THEN WithSlot(req[r].offered)
                      ELSE req[r].offered
<1>1. PICK c \in LeastLoaded(choices) :
             Lease(r, c, req[r].key, affinity, InflightWait - req[r].left)
  BY DEF Dequeue
<1>2. req' = [req EXCEPT ![r] = [NoRequest EXCEPT !.pc = "leased", !.bucket = c]]
  BY <1>1 DEF Lease
<1>3. /\ req'[r].pc = "leased" /\ req'[r].bucket = c
      /\ \A q \in Requests \ {r} : req'[q] = req[q]
  BY <1>2 DEF TypeOK, NoRequest
<1>4. c = b
  BY <1>3 DEF LeaseGranted, Holders
<1> QED
  BY <1>1, <1>3, <1>4 DEF Holders

(* Every other way to a lease takes a bucket with a free slot.             *)
LEMMA AcquireHasSlot ==
    ASSUME TypeOK, NEW r \in Requests, NEW key, NEW exclude, Acquire(r, key, exclude),
           NEW b \in Buckets, LeaseGranted(b)
    PROVE  MaxInflight = 0 \/ st[b].inflight < MaxInflight
<1> DEFINE offered == IF Sticky(key) # {} THEN Sticky(key) ELSE Usable(exclude)
           open == WithSlot(offered)
<1>1. CASE Enqueue(r, key, offered, Kept(key))
  <2>1. req'[r].pc = "queued" /\ \A q \in Requests \ {r} : req'[q] = req[q]
    BY <1>1 DEF Enqueue, TypeOK, NoRequest
  <2> QED
    BY <2>1 DEF LeaseGranted, Holders
<1>2. CASE \E c \in Preferred(open, key, Kept(key)) : Lease(r, c, key, Kept(key), 0)
  <2>1. PICK c \in Preferred(open, key, Kept(key)) : Lease(r, c, key, Kept(key), 0)
    BY <1>2
  <2>2. /\ req'[r].bucket = c /\ \A q \in Requests \ {r} : req'[q] = req[q]
    BY <2>1 DEF Lease, TypeOK, NoRequest
  <2>3. c = b
    BY <2>2 DEF LeaseGranted, Holders
  <2>4. c \in open
    BY <2>1 DEF Preferred, LeastLoaded
  <2> QED
    BY <2>3, <2>4 DEF WithSlot
<1> QED
  BY <1>1, <1>2 DEF Acquire

(* Nothing but an acquire or a wake-up of its queue grants a lease.        *)
LEMMA OthersGrantNothing ==
    ASSUME TypeOK, [Next]_vars, ~ \E r \in Requests : AcquireStep(r) \/ Dequeue(r)
    PROVE  \A b \in Buckets : ~LeaseGranted(b)
<1>1. ASSUME \A q \in Requests : \/ req'[q].pc = req[q].pc /\ req'[q].bucket = req[q].bucket
                                 \/ req'[q].pc \in {"idle", "released"}
      PROVE  \A b \in Buckets : ~LeaseGranted(b)
  BY <1>1 DEF LeaseGranted, Holders
<1>2. CASE UNCHANGED req
  BY <1>1, <1>2
<1>3. ASSUME NEW r \in Requests, Finish(r) \/ CancelWait(r)
      PROVE  \A b \in Buckets : ~LeaseGranted(b)
  <2>1. \/ UNCHANGED req
        \/ req' = [req EXCEPT ![r].pc = "released"]
        \/ req' = [req EXCEPT ![r] = NoRequest]
    BY <1>3 DEF Finish, Abandon, Release, CancelWait, vars
  <2>2. CASE req' = [req EXCEPT ![r].pc = "released"]
    BY <1>1, <2>2 DEF TypeOK, RequestState
  <2>3. CASE req' = [req EXCEPT ![r] = NoRequest]
    BY <1>1, <2>3 DEF TypeOK, NoRequest
  <2> QED
    BY <1>2, <2>1, <2>2, <2>3
<1>4. CASE \E b \in Buckets : ProbeStep(b) \/ RotatorStep(b)
  BY <1>2, <1>4 DEF ProbeStep, ProbeUnreachable, ProbeNotReady, ProbeReady,
                    RotatorStep, StartRotation, FailRotation, SucceedRotation
<1>5. CASE Tick
  BY <1>1, <1>5 DEF Tick, TypeOK, RequestState
<1> QED
  BY <1>2, <1>3, <1>4, <1>5 DEF Next, RequestStep, vars

(* What a step that fills a bucket beyond the cap must be.                 *)
CapRespected ==
    \A b \in Buckets :
        LeaseGranted(b) /\ MaxInflight > 0 /\ st[b].inflight >= MaxInflight =>
            \E r \in Requests :
                /\ req[r].pc = "queued" /\ req[r].left = 0
                /\ r \in Holders(b)'
                /\ \A c \in req[r].offered : st[c].inflight >= MaxInflight

LEMMA StepRespectsCap ==
    ASSUME TypeOK, [Next]_vars
    PROVE  CapRespected
<1> SUFFICES ASSUME NEW b \in Buckets, LeaseGranted(b), MaxInflight > 0,
                    st[b].inflight >= MaxInflight
             PROVE  \E r \in Requests :
                       /\ req[r].pc = "queued" /\ req[r].left = 0
                       /\ r \in Holders(b)'
                       /\ \A c \in req[r].offered : st[c].inflight >= MaxInflight
  BY DEF CapRespected
<1>1. MaxInflight \in Nat /\ \A c \in Buckets : st[c].inflight \in Nat
  BY DurationAssumption DEF TypeOK, EgressState
<1>2. ~(MaxInflight = 0 \/ st[b].inflight < MaxInflight)
  BY <1>1
<1>3. ~ \E r \in Requests : AcquireStep(r)
  BY <1>2, AcquireHasSlot DEF AcquireStep
<1>4. PICK r \in Requests : Dequeue(r)
  BY <1>3, OthersGrantNothing
<1>5. /\ r \in Holders(b)'
      /\ b \in LeastLoaded(IF WithSlot(req[r].offered) # {} THEN WithSlot(req[r].offered)
                           ELSE req[r].offered)
  BY <1>4, DequeueGrants
<1>6. WithSlot(req[r].offered) = {}
  BY <1>2, <1>5 DEF LeastLoaded, WithSlot
<1>7. req[r].pc = "queued" /\ req[r].left = 0
  BY <1>4, <1>6 DEF Dequeue
<1>8. req[r].offered \subseteq Buckets
  BY DEF TypeOK, RequestState
<1>9. \A c \in req[r].offered : st[c].inflight >= MaxInflight
  BY <1>1, <1>6, <1>8 DEF WithSlot
<1> QED
  BY <1>5, <1>7, <1>9

(* The cap is exceeded only for a request that slept through its whole     *)
(* wait and still finds every bucket it was offered full, for any cap and  *)
(* any number of buckets and requests.                                     *)
THEOREM CapYields == Spec => CapYieldsOnlyAfterWait
<1>1. TypeOK /\ [Next]_vars => [CapRespected]_vars
  BY StepRespectsCap
<1>2. [][CapRespected]_vars => CapYieldsOnlyAfterWait
  BY DEF CapRespected, CapYieldsOnlyAfterWait
<1> QED
  BY <1>1, <1>2, TypeCorrect, PTL DEF Spec

=============================================================================
