--------------------------- MODULE RetryWalkProofs ---------------------------
(***************************************************************************)
(* Proofs about RetryWalk for every set of buckets, requests and sessions, *)
(* any durations and any number of attempts.                               *)
(***************************************************************************)
EXTENDS RetryWalk, EgressPoolProofs

-----------------------------------------------------------------------------
(* Every step of a walk but one is a step of the pool.                     *)

LEMMA BeginIsPool ==
    ASSUME NEW r \in Requests, NEW key \in Sessions \cup {NoKey}, Begin(r, key)
    PROVE  [Next]_vars
<1>1. CASE Acquire(r, key, {})
  BY <1>1 DEF AcquireStep, RequestStep, Next
<1>2. CASE UNCHANGED vars
  BY <1>2
<1> QED
  BY <1>1, <1>2 DEF Begin

LEMMA TryNextIsPool ==
    ASSUME WalkTypeOK, NEW r \in Requests, TryNext(r)
    PROVE  [Next]_vars
<1>1. walk[r].tried \in SUBSET Buckets
  BY DEF WalkTypeOK, Walk
<1>2. CASE Acquire(r, NoKey, walk[r].tried)
  BY <1>1, <1>2 DEF AcquireStep, RequestStep, Next
<1>3. CASE UNCHANGED vars
  BY <1>3
<1> QED
  BY <1>2, <1>3 DEF TryNext

(* A step that returns the lease or leaves the pool alone.                 *)
LEMMA EndIsPool ==
    ASSUME NEW r \in Requests,
           \/ AttemptEnds(r) \/ StreamEnds(r) \/ FirstChunkLate(r)
           \/ HangUp(r) \/ PrimaryLate(r)
    PROVE  [Next]_vars
<1>1. CASE UNCHANGED vars
  BY <1>1
<1>2. ASSUME NEW v \in Verdicts, NEW mark \in BOOLEAN, Release(r, v, mark)
      PROVE  Next
  BY <1>2 DEF Finish, RequestStep, Next
<1>3. CASE CancelWait(r) \/ Abandon(r)
  BY <1>3 DEF Finish, RequestStep, Next
<1> QED
  BY <1>1, <1>2, <1>3
     DEF AttemptEnds, AttemptSucceeds, StreamStarts, AttemptFails, AttemptBreaks,
         StreamEnds, FirstChunkLate, HangUp, PrimaryLate, Cancelled

LEMMA StepIsPool ==
    ASSUME WalkTypeOK, [WalkNext]_walkVars, ~ \E r \in Requests : BodyLost(r)
    PROVE  [Next]_vars /\ UNCHANGED lost
<1>1. UNCHANGED lost
  BY DEF WalkNext, walkVars
<1> SUFFICES [Next]_vars
  BY <1>1
<1>2. CASE UNCHANGED walkVars
  BY <1>2 DEF walkVars
<1>3. ASSUME NEW r \in Requests, WalkStep(r)
      PROVE  [Next]_vars
  BY <1>3, BeginIsPool, TryNextIsPool, EndIsPool
     DEF WalkStep, Served, RequestStep, Next
<1>4. CASE (\E b \in Buckets : ProbeStep(b) \/ RotatorStep(b)) \/ Tick
  BY <1>4 DEF Next
<1> QED
  BY <1>2, <1>3, <1>4 DEF WalkNext

-----------------------------------------------------------------------------
(* What acquire does to the requests.                                      *)

LEMMA AcquireEffect ==
    ASSUME TypeOK, NEW r \in Requests, NEW key, NEW exclude, Acquire(r, key, exclude)
    PROVE  /\ req' \in [Requests -> {req'[q] : q \in Requests}]
           /\ \A q \in Requests \ {r} : req'[q] = req[q]
           /\ req'[r].pc \in {"queued", "leased"}
           /\ key = NoKey => /\ req'[r].offered \cap exclude = {}
                             /\ req'[r].pc = "leased" => req'[r].bucket \notin exclude
<1> DEFINE offered == IF Sticky(key) # {} THEN Sticky(key) ELSE Usable(exclude)
           open == WithSlot(offered)
<1>1. key = NoKey => offered \cap exclude = {}
  BY DEF Sticky, Usable
<1>2. CASE \E b \in Preferred(open, key, Kept(key)) : Lease(r, b, key, Kept(key), 0)
  <2>1. PICK b \in Preferred(open, key, Kept(key)) : Lease(r, b, key, Kept(key), 0)
    BY <1>2
  <2>2. b \in offered
    BY <2>1 DEF Preferred, LeastLoaded, WithSlot
  <2>3. req' = [req EXCEPT ![r] = [NoRequest EXCEPT !.pc = "leased", !.bucket = b]]
    BY <2>1 DEF Lease
  <2>4. req'[r].pc = "leased" /\ req'[r].bucket = b /\ req'[r].offered = {}
    BY <2>3 DEF NoRequest, TypeOK
  <2>5. \A q \in Requests \ {r} : req'[q] = req[q]
    BY <2>3 DEF TypeOK
  <2>6. req' \in [Requests -> {req'[q] : q \in Requests}]
    BY <2>3 DEF TypeOK
  <2> QED
    BY <1>1, <2>2, <2>4, <2>5, <2>6
<1>3. CASE Enqueue(r, key, offered, Kept(key))
  <2>1. req' = [req EXCEPT ![r] = [NoRequest EXCEPT !.pc = "queued", !.key = key,
                                                    !.offered = offered,
                                                    !.left = InflightWait]]
    BY <1>3 DEF Enqueue
  <2>2. req'[r].pc = "queued" /\ req'[r].offered = offered
    BY <2>1 DEF NoRequest, TypeOK
  <2>3. \A q \in Requests \ {r} : req'[q] = req[q]
    BY <2>1 DEF TypeOK
  <2>4. req' \in [Requests -> {req'[q] : q \in Requests}]
    BY <2>1 DEF TypeOK
  <2> QED
    BY <1>1, <2>2, <2>3, <2>4
<1> QED
  BY <1>2, <1>3 DEF Acquire

LEMMA DequeueEffect ==
    ASSUME TypeOK, NEW r \in Requests, Dequeue(r)
    PROVE  /\ \A q \in Requests \ {r} : req'[q] = req[q]
           /\ req'[r].pc = "leased" /\ req'[r].bucket \in req[r].offered
           /\ req'[r].offered = {}
<1> DEFINE open == WithSlot(req[r].offered)
           choices == IF open # {} THEN open ELSE req[r].offered
<1>1. PICK b \in LeastLoaded(choices) :
             Lease(r, b, req[r].key, affinity, InflightWait - req[r].left)
  BY DEF Dequeue
<1>2. b \in req[r].offered
  BY <1>1 DEF LeastLoaded, WithSlot
<1>3. req' = [req EXCEPT ![r] = [NoRequest EXCEPT !.pc = "leased", !.bucket = b]]
  BY <1>1 DEF Lease
<1> QED
  BY <1>2, <1>3 DEF NoRequest, TypeOK

(* The lease is returned or dropped: the request no longer waits or holds. *)
LEMMA ReturnEffect ==
    ASSUME TypeOK, NEW r \in Requests, req[r].pc = "leased",
           req' = [req EXCEPT ![r].pc = "released"]
    PROVE  /\ \A q \in Requests \ {r} : req'[q] = req[q]
           /\ req'[r].pc = "released"
BY DEF TypeOK, RequestState

-----------------------------------------------------------------------------
(* A walk and its lease keep in step.                                      *)

Follows(r) ==
    /\ walk[r].pc = "walking" => req[r].pc \in {"queued", "leased"}
    /\ walk[r].pc = "streaming" => req[r].pc = "leased"
    /\ walk[r].pc \in {"resting", "between"} => req[r].pc \in {"idle", "released"}
    /\ walk[r].pc \in {"walking", "between"} => walk[r].left > 0
    /\ req[r].pc = "queued" => req[r].offered \cap walk[r].tried = {}

WalkInv == WalkTypeOK /\ \A r \in Requests : Follows(r)

LEMMA AttemptsType == Attempts \in Nat \ {0}
<1>1. Cardinality(Buckets) \in Nat \ {0}
  BY WalkAssumption, FS_CardinalityType, FS_EmptySet
<1> QED
  BY <1>1, WalkAssumption DEF Attempts, Smaller

LEMMA RestedType ==
    ASSUME NEW handoff \in Handoffs
    PROVE  Rested(handoff) \in Walk
BY AttemptsType DEF Rested, Walk

LEMMA FinalType ==
    ASSUME NEW v \in Verdicts, v.kind # "ok"
    PROVE  Final(v) \in Handoffs
BY DEF Verdicts, Final, Handoffs

(* One request moves its walk, and the pool stays well typed.              *)
LEMMA OneWalkMoves ==
    ASSUME WalkInv, TypeOK', NEW r \in Requests, NEW w \in Walk,
           walk' = [walk EXCEPT ![r] = w],
           \A q \in Requests \ {r} : req'[q] = req[q],
           Follows(r)', lost' \in [Buckets -> 0..MaxLost]
    PROVE  WalkInv'
<1>1. walk' \in [Requests -> Walk]
  BY DEF WalkInv, WalkTypeOK
<1>2. \A q \in Requests \ {r} : walk'[q] = walk[q]
  BY DEF WalkInv, WalkTypeOK
<1>3. \A q \in Requests \ {r} : Follows(q)'
  BY <1>2 DEF WalkInv, Follows
<1> QED
  BY <1>1, <1>3 DEF WalkInv, WalkTypeOK

LEMMA SpentInv ==
    ASSUME WalkInv, TypeOK', NEW r \in Requests, NEW handoff \in Handoffs,
           walk[r].pc = "walking", req[r].pc = "leased", Spent(r, handoff),
           lost' \in [Buckets -> 0..MaxLost],
           req' = [req EXCEPT ![r].pc = "released"]
    PROVE  WalkInv'
<1> DEFINE next == IF walk[r].left = 1 THEN Rested(handoff)
                   ELSE [walk[r] EXCEPT !.pc = "between", !.left = @ - 1,
                                        !.handoff = handoff,
                                        !.tried = @ \cup {req[r].bucket}]
<1>1. walk[r] \in Walk /\ walk[r].left > 0 /\ req[r].bucket \in Buckets
  BY DEF WalkInv, WalkTypeOK, TypeOK, Follows
<1>2. next \in Walk
  <2> DEFINE fewer == [walk[r] EXCEPT !.pc = "between", !.left = @ - 1,
                                      !.handoff = handoff,
                                      !.tried = @ \cup {req[r].bucket}]
  <2>1. walk[r].left - 1 \in 0..Attempts
    <3>1. walk[r].left \in 0..Attempts
      BY <1>1 DEF Walk
    <3> QED
      BY <1>1, <3>1, AttemptsType
  <2>2. walk[r].tried \cup {req[r].bucket} \in SUBSET Buckets
    BY <1>1 DEF Walk
  <2>3. fewer \in Walk
    BY <1>1, <2>1, <2>2 DEF Walk
  <2> QED
    BY <2>3, RestedType
<1>3. /\ next.pc \in {"resting", "between"}
      /\ next.pc = "between" => next.left > 0
  BY <1>1, AttemptsType DEF Walk, Rested
<1>4. walk' = [walk EXCEPT ![r] = next]
  BY DEF Spent
<1>5. walk'[r] = next
  BY <1>4 DEF WalkInv, WalkTypeOK
<1>6. /\ \A q \in Requests \ {r} : req'[q] = req[q]
      /\ req'[r].pc = "released"
  BY ReturnEffect DEF WalkInv, WalkTypeOK
<1>7. Follows(r)'
  BY <1>3, <1>5, <1>6 DEF Follows
<1> QED
  BY <1>2, <1>4, <1>6, <1>7, OneWalkMoves

(* A walk that ends, with its lease returned or never taken.               *)
LEMMA EndInv ==
    ASSUME WalkInv, TypeOK', NEW r \in Requests, NEW handoff \in Handoffs, End(r, handoff),
           lost' \in [Buckets -> 0..MaxLost],
           \A q \in Requests \ {r} : req'[q] = req[q],
           req'[r].pc \in {"idle", "released"}
    PROVE  WalkInv'
<1>1. walk' = [walk EXCEPT ![r] = Rested(handoff)]
  BY DEF End
<1>2. walk'[r].pc = "resting"
  BY <1>1 DEF WalkInv, WalkTypeOK, Rested
<1>3. Follows(r)'
  BY <1>2 DEF Follows
<1> QED
  BY <1>1, <1>3, RestedType, OneWalkMoves

LEMMA BeginInv ==
    ASSUME WalkInv, TypeOK', NEW r \in Requests, NEW key \in Sessions \cup {NoKey},
           Begin(r, key),
           lost' \in [Buckets -> 0..MaxLost]
    PROVE  WalkInv'
<1>1. CASE Exhausted({}) /\ req[r].pc # "leased" /\ End(r, "quota") /\ UNCHANGED vars
  <2>1. "quota" \in Handoffs
    BY DEF Handoffs
  <2>2. req'[r].pc \in {"idle", "released"} /\ \A q \in Requests \ {r} : req'[q] = req[q]
    BY <1>1 DEF Begin, vars, WalkInv, Follows
  <2> QED
    BY <1>1, <2>1, <2>2, EndInv
<1>2. CASE /\ Acquire(r, key, {})
           /\ walk' = [walk EXCEPT ![r] = [pc |-> "walking", tried |-> {},
                                           left |-> Attempts, handoff |-> "none"]]
  <2> DEFINE w == [pc |-> "walking", tried |-> {}, left |-> Attempts, handoff |-> "none"]
  <2>1. w \in Walk
    BY AttemptsType DEF Walk, Handoffs
  <2>2. walk'[r] = w
    BY <1>2 DEF WalkInv, WalkTypeOK
  <2>3. /\ \A q \in Requests \ {r} : req'[q] = req[q]
        /\ req'[r].pc \in {"queued", "leased"}
    BY <1>2, AcquireEffect DEF WalkInv, WalkTypeOK
  <2>4. Follows(r)'
    BY <2>2, <2>3, AttemptsType DEF Follows
  <2> QED
    BY <1>2, <2>1, <2>3, <2>4, OneWalkMoves
<1> QED
  BY <1>1, <1>2 DEF Begin

LEMMA TryNextInv ==
    ASSUME WalkInv, TypeOK', NEW r \in Requests, TryNext(r),
           lost' \in [Buckets -> 0..MaxLost]
    PROVE  WalkInv'
<1>1. walk[r] \in Walk /\ walk[r].pc = "between"
  BY DEF WalkInv, WalkTypeOK, TryNext
<1>2. CASE End(r, walk[r].handoff) /\ UNCHANGED vars
  <2>1. walk[r].handoff \in Handoffs
    BY <1>1 DEF Walk
  <2>2. req'[r].pc \in {"idle", "released"} /\ \A q \in Requests \ {r} : req'[q] = req[q]
    BY <1>1, <1>2 DEF vars, WalkInv, Follows
  <2> QED
    BY <1>2, <2>1, <2>2, EndInv
<1>3. CASE Acquire(r, NoKey, walk[r].tried) /\ walk' = [walk EXCEPT ![r].pc = "walking"]
  <2> DEFINE w == [walk[r] EXCEPT !.pc = "walking"]
  <2>1. w \in Walk /\ w.pc = "walking" /\ w.left > 0 /\ w.tried = walk[r].tried
    BY <1>1 DEF Walk, WalkInv, Follows
  <2>2. walk' = [walk EXCEPT ![r] = w] /\ walk'[r] = w
    BY <1>3 DEF WalkInv, WalkTypeOK
  <2>3. /\ \A q \in Requests \ {r} : req'[q] = req[q]
        /\ req'[r].pc \in {"queued", "leased"}
        /\ req'[r].offered \cap walk[r].tried = {}
    BY <1>3, AcquireEffect DEF WalkInv, WalkTypeOK
  <2>4. Follows(r)'
    BY <2>1, <2>2, <2>3 DEF Follows
  <2> QED
    BY <2>1, <2>2, <2>3, <2>4, OneWalkMoves
<1> QED
  BY <1>2, <1>3 DEF TryNext

(* The steps that end an attempt return the lease of r, and no other.      *)
LEMMA AttemptInv ==
    ASSUME WalkInv, TypeOK', NEW r \in Requests, AttemptEnds(r) \/ BodyLost(r),
           lost' \in [Buckets -> 0..MaxLost]
    PROVE  WalkInv'
<1>1. req[r].pc = "leased" /\ walk[r].pc = "walking" /\ TypeOK
  BY DEF WalkInv, WalkTypeOK, AttemptEnds, AttemptSucceeds, StreamStarts, AttemptFails,
         AttemptBreaks, BodyLost
<1>2. {"none", "outage", "wrapper"} \subseteq Handoffs
  BY DEF Handoffs
<1>3. ASSUME NEW v, NEW mark, Release(r, v, mark)
      PROVE  req' = [req EXCEPT ![r].pc = "released"]
  BY <1>1, <1>3 DEF Release
<1>4. CASE AttemptSucceeds(r) \/ AttemptBreaks(r)
  <2>1. /\ req' = [req EXCEPT ![r].pc = "released"]
        /\ \E handoff \in {"none", "wrapper"} : End(r, handoff)
    BY <1>3, <1>4 DEF AttemptSucceeds, AttemptBreaks
  <2> QED
    BY <1>1, <1>2, <2>1, ReturnEffect, EndInv
<1>5. CASE StreamStarts(r)
  <2> DEFINE w == [walk[r] EXCEPT !.pc = "streaming"]
  <2>1. w \in Walk /\ w.pc = "streaming" /\ w.tried = walk[r].tried
    BY DEF WalkInv, WalkTypeOK, Walk
  <2>2. walk' = [walk EXCEPT ![r] = w] /\ walk'[r] = w /\ req' = req
    BY <1>5 DEF StreamStarts, WalkInv, WalkTypeOK, vars
  <2>3. Follows(r)'
    BY <1>1, <2>1, <2>2 DEF Follows
  <2> QED
    BY <2>1, <2>2, <2>3, OneWalkMoves
<1>6. CASE AttemptFails(r)
  <2>1. PICK v \in Verdicts, mark \in BOOLEAN :
               v.kind # "ok" /\ Release(r, v, mark) /\ Spent(r, Final(v))
    BY <1>6 DEF AttemptFails
  <2>2. req' = [req EXCEPT ![r].pc = "released"]
    BY <1>3, <2>1
  <2>3. Final(v) \in Handoffs
    BY <2>1, FinalType
  <2> QED
    BY <1>1, <2>1, <2>2, <2>3, SpentInv
<1>7. CASE BodyLost(r)
  BY <1>1, <1>2, <1>7, SpentInv DEF BodyLost
<1> QED
  BY <1>4, <1>5, <1>6, <1>7 DEF AttemptEnds

LEMMA LeaveInv ==
    ASSUME WalkInv, TypeOK', NEW r \in Requests,
           StreamEnds(r) \/ FirstChunkLate(r) \/ HangUp(r) \/ PrimaryLate(r),
           lost' \in [Buckets -> 0..MaxLost]
    PROVE  WalkInv'
<1>1. TypeOK /\ "none" \in Handoffs /\ "wrapper" \in Handoffs
  BY DEF WalkInv, WalkTypeOK, Handoffs
<1>2. CASE StreamEnds(r) \/ FirstChunkLate(r)
  <2>1. req[r].pc = "leased"
    BY <1>2 DEF StreamEnds, FirstChunkLate, WalkInv, Follows
  <2>2. /\ req' = [req EXCEPT ![r].pc = "released"]
        /\ \E handoff \in {"none", "wrapper"} : End(r, handoff)
    BY <1>2, <2>1 DEF StreamEnds, FirstChunkLate, Release
  <2> QED
    BY <1>1, <2>1, <2>2, ReturnEffect, EndInv
<1>3. CASE CancelWait(r) /\ \E handoff \in {"none", "wrapper"} : End(r, handoff)
  <2>1. req'[r].pc = "idle" /\ \A q \in Requests \ {r} : req'[q] = req[q]
    BY <1>1, <1>3 DEF CancelWait, NoRequest, TypeOK
  <2> QED
    BY <1>1, <1>3, <2>1, EndInv
<1>4. CASE Abandon(r) /\ \E handoff \in {"none", "wrapper"} : End(r, handoff)
  <2>1. CASE req[r].pc = "leased" /\ req' = [req EXCEPT ![r].pc = "released"]
    BY <1>1, <1>4, <2>1, ReturnEffect, EndInv
  <2>2. CASE req[r].pc = "released" /\ UNCHANGED vars
    <3>1. req' = req
      BY <2>2 DEF vars
    <3> QED
      BY <1>1, <1>4, <2>2, <3>1, EndInv
  <2> QED
    BY <1>4, <2>1, <2>2 DEF Abandon
<1> QED
  BY <1>2, <1>3, <1>4 DEF HangUp, PrimaryLate, Cancelled

LEMMA PoolMovesInv ==
    ASSUME WalkInv, TypeOK', UNCHANGED <<walk, lost>>,
           \A q \in Requests : /\ req'[q].pc = req[q].pc
                               /\ req'[q].offered = req[q].offered
    PROVE  WalkInv'
BY DEF WalkInv, WalkTypeOK, Follows

LEMMA WalkStepInv ==
    ASSUME WalkInv, TypeOK', NEW r \in Requests, WalkStep(r),
           lost' \in [Buckets -> 0..MaxLost]
    PROVE  WalkInv'
<1>1. CASE Served(r)
  <2>1. /\ \A q \in Requests \ {r} : req'[q] = req[q]
        /\ req'[r].pc = "leased"
        /\ walk' = walk
    BY <1>1, DequeueEffect DEF Served, WalkInv, WalkTypeOK
  <2>2. \A q \in Requests : Follows(q)'
    BY <1>1, <2>1 DEF Served, Dequeue, WalkInv, Follows
  <2> QED
    BY <2>1, <2>2 DEF WalkInv, WalkTypeOK
<1> QED
  BY <1>1, BeginInv, TryNextInv, AttemptInv, LeaveInv DEF WalkStep

(* The pool's type invariant, also where a slot is forgotten.              *)
LEMMA WalkStepType ==
    ASSUME WalkInv, [WalkNext]_walkVars
    PROVE  TypeOK'
<1>1. ASSUME NEW r \in Requests, BodyLost(r)
      PROVE  TypeOK'
  <2>1. req' = [req EXCEPT ![r].pc = "released"] /\ UNCHANGED <<st, affinity>>
    BY <1>1 DEF BodyLost
  <2>2. req[r] \in RequestState /\ req[r].bucket \in Buckets
    BY <1>1 DEF BodyLost, WalkInv, WalkTypeOK, TypeOK
  <2> QED
    BY <2>1, <2>2 DEF WalkInv, WalkTypeOK, TypeOK, RequestState
<1>2. CASE ~ \E r \in Requests : BodyLost(r)
  <2>1. [Next]_vars
    BY <1>2, StepIsPool DEF WalkInv
  <2> QED
    BY <2>1, NextType DEF WalkInv, WalkTypeOK
<1> QED
  BY <1>1, <1>2

LEMMA WalkNextInv ==
    ASSUME WalkInv, [WalkNext]_walkVars
    PROVE  WalkInv'
<1>1. TypeOK'
  BY WalkStepType
<1>2. CASE UNCHANGED walkVars
  BY <1>1, <1>2, PoolMovesInv DEF walkVars, vars
<1>3. ASSUME NEW r \in Requests, WalkStep(r), UNCHANGED lost
      PROVE  WalkInv'
  BY <1>1, <1>3, WalkStepInv DEF WalkInv, WalkTypeOK
<1>4. ASSUME NEW r \in Requests, BodyLost(r)
      PROVE  WalkInv'
  <2>1. lost' \in [Buckets -> 0..MaxLost]
    <3>1. lost \in [Buckets -> 0..MaxLost] /\ req[r].bucket \in Buckets
      BY <1>4 DEF BodyLost, WalkInv, WalkTypeOK, TypeOK
    <3>2. lost[req[r].bucket] + 1 \in 0..MaxLost
      BY <1>4, <3>1, WalkAssumption DEF BodyLost
    <3> QED
      BY <1>4, <3>1, <3>2 DEF BodyLost
  <2> QED
    BY <1>1, <1>4, <2>1, AttemptInv
<1>5. ASSUME NEW b \in Buckets, (ProbeStep(b) \/ RotatorStep(b)) /\ UNCHANGED <<walk, lost>>
      PROVE  WalkInv'
  <2>1. req' = req
    BY <1>5 DEF ProbeStep, ProbeUnreachable, ProbeNotReady, ProbeReady,
                RotatorStep, StartRotation, FailRotation, SucceedRotation
  <2> QED
    BY <1>1, <1>5, <2>1, PoolMovesInv
<1>6. CASE Tick /\ UNCHANGED <<walk, lost>>
  <2>1. \A q \in Requests : req'[q].pc = req[q].pc /\ req'[q].offered = req[q].offered
    BY <1>6 DEF Tick, WalkInv, WalkTypeOK, TypeOK, RequestState
  <2> QED
    BY <1>1, <1>6, <2>1, PoolMovesInv
<1> QED
  BY <1>2, <1>3, <1>4, <1>5, <1>6 DEF WalkNext

LEMMA WalkInitInv ==
    ASSUME WalkInit
    PROVE  WalkInv
<1>1. TypeOK /\ "none" \in Handoffs
  BY InitType DEF WalkInit, Handoffs
<1>2. walk \in [Requests -> Walk]
  BY <1>1, RestedType DEF WalkInit
<1>3. \A r \in Requests : Follows(r)
  BY DEF WalkInit, Init, Rested, NoRequest, Follows
<1>4. lost \in [Buckets -> 0..MaxLost]
  BY WalkAssumption DEF WalkInit
<1> QED
  BY <1>1, <1>2, <1>3, <1>4 DEF WalkInv, WalkTypeOK

-----------------------------------------------------------------------------

(* Every reachable state of the walks is well typed: in particular no walk *)
(* uses up more attempts than it was given.                                *)
THEOREM WalkTypeCorrect == WalkSpec => []WalkTypeOK
<1>1. WalkInit => WalkInv
  BY WalkInitInv
<1>2. WalkInv /\ [WalkNext]_walkVars => WalkInv'
  BY WalkNextInv
<1>3. WalkInv => WalkTypeOK
  BY DEF WalkInv
<1> QED
  BY <1>1, <1>2, <1>3, PTL DEF WalkSpec

(* A forgotten lease is one holder less and one forgotten slot more.       *)
LEMMA BodyLostAccounts ==
    ASSUME WalkInv, Accounts(lost), NEW r \in Requests, BodyLost(r)
    PROVE  Accounts(lost)'
<1> DEFINE b == req[r].bucket
<1>1. /\ req[r].pc = "leased" /\ b \in Buckets /\ TypeOK
      /\ st' = st /\ lost \in [Buckets -> Nat]
      /\ lost' = [lost EXCEPT ![b] = @ + 1]
  BY DEF BodyLost, WalkInv, WalkTypeOK, TypeOK
<1>2. req'[r].pc = "released" /\ \A q \in Requests \ {r} : req'[q] = req[q]
  BY <1>1, ReturnEffect DEF BodyLost
<1> SUFFICES ASSUME NEW c \in Buckets
             PROVE  st[c].inflight = Cardinality(Holders(c)') + lost'[c]
  BY <1>1 DEF Accounts
<1>3. /\ st[c].inflight = Cardinality(Holders(c)) + lost[c]
      /\ Cardinality(Holders(c)) \in Nat /\ lost[c] \in Nat
  BY <1>1, HoldersFinite DEF Accounts
<1>4. CASE c = b
  <2>1. r \in Holders(c) /\ Holders(c)' = Holders(c) \ {r}
    BY <1>1, <1>2, <1>4 DEF Holders
  <2>2. Cardinality(Holders(c)') = Cardinality(Holders(c)) - 1
    BY <2>1, HoldersFinite, FS_RemoveElement
  <2>3. lost'[c] = lost[c] + 1
    BY <1>1, <1>4
  <2> QED
    BY <1>3, <2>2, <2>3
<1>5. CASE c # b
  <2>1. Cardinality(Holders(c)') = Cardinality(Holders(c))
    <3>1. Holders(c)' = Holders(c)
      BY <1>1, <1>2, <1>5 DEF Holders
    <3> QED
      BY <3>1
  <2>2. lost'[c] = lost[c]
    BY <1>1, <1>5
  <2> QED
    BY <1>3, <2>1, <2>2
<1> QED
  BY <1>4, <1>5

LEMMA WalkNextAccounts ==
    ASSUME WalkInv, Accounts(lost), [WalkNext]_walkVars
    PROVE  Accounts(lost)'
<1>1. ASSUME NEW r \in Requests, BodyLost(r)
      PROVE  Accounts(lost)'
  BY <1>1, BodyLostAccounts
<1>2. CASE ~ \E r \in Requests : BodyLost(r)
  <2>1. PICK e : e = lost
    OBVIOUS
  <2>2. e \in [Buckets -> Nat] /\ Inv(e)
    BY <2>1 DEF WalkInv, WalkTypeOK, Inv, Accounts
  <2>3. [Next]_vars /\ lost' = e
    BY <1>2, <2>1, StepIsPool DEF WalkInv
  <2>4. Inv(e)'
    BY <2>2, <2>3, NextAccounts
  <2> QED
    BY <2>3, <2>4 DEF Inv, Accounts
<1> QED
  BY <1>1, <1>2

LEMMA InvReturns ==
    ASSUME WalkInv, Accounts(lost)
    PROVE  SlotsReturned
<1> SUFFICES ASSUME NEW b \in Buckets
             PROVE  st[b].inflight = Cardinality(Riders(b)) + lost[b]
  BY DEF SlotsReturned
<1>1. \A r \in Requests : req[r].pc = "leased" => walk[r].pc \in {"walking", "streaming"}
  BY DEF WalkInv, WalkTypeOK, Walk, Follows
<1>2. Holders(b) = Riders(b)
  BY <1>1 DEF Holders, Riders
<1> QED
  BY <1>2 DEF Accounts

(* Every path out of chat() gives its slot back exactly once, for any      *)
(* number of buckets, requests and attempts; only a broken error answer    *)
(* loses one.                                                              *)
THEOREM WalkReturnsSlots == WalkSpec => []SlotsReturned
<1>1. WalkInit => WalkInv /\ Accounts(lost)
  BY WalkInitInv, InitAccounts DEF WalkInit, Inv, Accounts
<1>2. WalkInv /\ Accounts(lost) /\ [WalkNext]_walkVars => (WalkInv /\ Accounts(lost))'
  BY WalkNextInv, WalkNextAccounts
<1>3. WalkInv /\ Accounts(lost) => SlotsReturned
  BY InvReturns
<1> QED
  BY <1>1, <1>2, <1>3, PTL DEF WalkSpec

(* With the bun transport no error answer breaks, and no lease is ever     *)
(* forgotten: the violation in WalkClaims needs the httpx transport.       *)
COROLLARY BunReturnsSlots ==
    ASSUME MaxLost = 0
    PROVE  WalkSpec => []ErrorsReleased
<1>1. WalkTypeOK /\ SlotsReturned => ErrorsReleased
  <2> SUFFICES ASSUME WalkTypeOK, SlotsReturned, NEW b \in Buckets
               PROVE  st[b].inflight = Cardinality(Riders(b))
    BY DEF ErrorsReleased
  <2>1. lost[b] = 0
    BY DEF WalkTypeOK
  <2>2. Riders(b) \subseteq Requests
    BY DEF Riders
  <2>3. Cardinality(Riders(b)) \in Nat
    BY <2>2, ActorAssumption, FS_Subset, FS_CardinalityType
  <2> QED
    BY <2>1, <2>3 DEF SlotsReturned
<1> QED
  BY <1>1, WalkTypeCorrect, WalkReturnsSlots, PTL

(* A walk that goes on never leases a bucket it has failed on.             *)
LEMMA StepTakesOther ==
    ASSUME WalkInv, NEW r \in Requests, WalkStep(r) \/ BodyLost(r), NEW b \in Buckets,
           walk[r].pc # "resting", r \in Holders(b)' \ Holders(b)
    PROVE  b \notin walk[r].tried
<1>1. /\ TypeOK /\ Follows(r)
      /\ req'[r].pc = "leased" /\ req'[r].bucket = b
      /\ ~(req[r].pc = "leased" /\ req[r].bucket = b)
  BY DEF WalkInv, WalkTypeOK, Holders
<1>2. CASE TryNext(r)
  <2>1. walk[r].pc = "between"
    BY <1>2 DEF TryNext
  <2>2. CASE UNCHANGED vars
    BY <1>1, <2>2 DEF vars
  <2>3. CASE Acquire(r, NoKey, walk[r].tried)
    BY <1>1, <2>3, AcquireEffect
  <2> QED
    BY <1>2, <2>2, <2>3 DEF TryNext
<1>3. CASE Served(r)
  <2>1. req'[r].bucket \in req[r].offered
    BY <1>1, <1>3, DequeueEffect DEF Served
  <2>2. req[r].offered \cap walk[r].tried = {}
    BY <1>1, <1>3 DEF Served, Dequeue, Follows
  <2> QED
    BY <1>1, <2>1, <2>2
<1>4. ASSUME req[r].pc = "leased", req' = [req EXCEPT ![r].pc = "released"]
      PROVE  FALSE
  BY <1>1, <1>4, ReturnEffect
<1>5. ASSUME UNCHANGED vars
      PROVE  FALSE
  BY <1>1, <1>5 DEF vars
<1>6. CASE AttemptEnds(r) \/ BodyLost(r) \/ StreamEnds(r) \/ FirstChunkLate(r)
  <2>1. req[r].pc = "leased"
    BY <1>1, <1>6 DEF AttemptEnds, AttemptSucceeds, StreamStarts, AttemptFails,
                      AttemptBreaks, BodyLost, StreamEnds, FirstChunkLate, Follows
  <2>2. ASSUME NEW v, NEW mark, Release(r, v, mark)
        PROVE  FALSE
    BY <1>4, <2>1, <2>2 DEF Release
  <2> QED
    BY <1>4, <1>5, <1>6, <2>1, <2>2
       DEF AttemptEnds, AttemptSucceeds, StreamStarts, AttemptFails, AttemptBreaks,
           BodyLost, StreamEnds, FirstChunkLate
<1>7. CASE HangUp(r) \/ PrimaryLate(r)
  <2>1. CASE CancelWait(r)
    <3>1. req'[r].pc = "idle"
      BY <1>1, <2>1 DEF CancelWait, NoRequest, TypeOK
    <3> QED
      BY <1>1, <3>1
  <2>2. CASE Abandon(r)
    BY <1>4, <1>5, <2>2 DEF Abandon
  <2> QED
    BY <1>7, <2>1, <2>2 DEF HangUp, PrimaryLate, Cancelled
<1>8. ~ \E key \in Sessions \cup {NoKey} : Begin(r, key)
  BY DEF Begin
<1> QED
  BY <1>2, <1>3, <1>6, <1>7, <1>8 DEF WalkStep

(* A step moves the lease of one request at most.                          *)
LEMMA OneLeaseMoves ==
    ASSUME WalkInv, NEW q \in Requests, WalkStep(q) \/ BodyLost(q), NEW r \in Requests \ {q}
    PROVE  req'[r] = req[r]
<1>1. TypeOK
  BY DEF WalkInv, WalkTypeOK
<1>2. ASSUME NEW key, NEW exclude, Acquire(q, key, exclude)
      PROVE  req'[r] = req[r]
  BY <1>1, <1>2, AcquireEffect
<1>3. CASE Served(q)
  BY <1>1, <1>3, DequeueEffect DEF Served
<1>4. ASSUME req' = [req EXCEPT ![q].pc = "released"]
      PROVE  req'[r] = req[r]
  BY <1>1, <1>4 DEF TypeOK
<1>5. ASSUME UNCHANGED vars
      PROVE  req'[r] = req[r]
  BY <1>5 DEF vars
<1>6. ASSUME NEW v, NEW mark, Release(q, v, mark)
      PROVE  req'[r] = req[r]
  BY <1>4, <1>5, <1>6 DEF Release
<1>7. CASE CancelWait(q) \/ Abandon(q)
  BY <1>1, <1>4, <1>5, <1>7 DEF CancelWait, Abandon, TypeOK
<1>8. CASE (\E key \in Sessions \cup {NoKey} : Begin(q, key)) \/ TryNext(q)
  BY <1>2, <1>5, <1>8 DEF Begin, TryNext
<1>9. CASE AttemptEnds(q) \/ BodyLost(q) \/ StreamEnds(q) \/ FirstChunkLate(q)
  BY <1>4, <1>5, <1>6, <1>9
     DEF AttemptEnds, AttemptSucceeds, StreamStarts, AttemptFails, AttemptBreaks,
         BodyLost, StreamEnds, FirstChunkLate
<1> QED
  BY <1>3, <1>7, <1>8, <1>9 DEF WalkStep, HangUp, PrimaryLate, Cancelled

(* "Every bucket is tried at most once per request", with either transport *)
(* and with the in-flight cap: what a request was offered before it slept  *)
(* is disjoint from what it has tried.                                     *)
THEOREM WalkTriesOnce == WalkSpec => NoBucketTwice
<1> DEFINE Once == \A r \in Requests, b \in Buckets :
                       walk[r].pc # "resting" /\ r \in Holders(b)' \ Holders(b) =>
                          b \notin walk[r].tried
<1>1. WalkInit => WalkInv
  BY WalkInitInv
<1>2. WalkInv /\ [WalkNext]_walkVars => WalkInv'
  BY WalkNextInv
<1>3. WalkInv /\ [WalkNext]_walkVars => [Once]_walkVars
  <2> SUFFICES ASSUME WalkInv, WalkNext, NEW r \in Requests, NEW b \in Buckets,
                      walk[r].pc # "resting", r \in Holders(b)' \ Holders(b)
               PROVE  b \notin walk[r].tried
    OBVIOUS
  <2>1. CASE \E q \in Requests : WalkStep(q) \/ BodyLost(q)
    <3>1. PICK q \in Requests : WalkStep(q) \/ BodyLost(q)
      BY <2>1
    <3>2. q = r
      BY <3>1, OneLeaseMoves DEF Holders
    <3> QED
      BY <3>1, <3>2, StepTakesOther
  <2>2. CASE \E a \in Buckets : ProbeStep(a) \/ RotatorStep(a)
    <3>1. req' = req
      BY <2>2 DEF ProbeStep, ProbeUnreachable, ProbeNotReady, ProbeReady,
                  RotatorStep, StartRotation, FailRotation, SucceedRotation
    <3> QED
      BY <3>1 DEF Holders
  <2>3. CASE Tick
    <3>1. req'[r].pc = req[r].pc /\ req'[r].bucket = req[r].bucket
      BY <2>3 DEF Tick, WalkInv, WalkTypeOK, TypeOK, RequestState
    <3> QED
      BY <3>1 DEF Holders
  <2> QED
    BY <2>1, <2>2, <2>3 DEF WalkNext
<1>4. [][Once]_walkVars => NoBucketTwice
  BY DEF NoBucketTwice
<1> QED
  BY <1>1, <1>2, <1>3, <1>4, PTL DEF WalkSpec

(* The cap holds for the walks too: forgetting a lease grants none.        *)
THEOREM WalkCapYields == WalkSpec => CapYieldsOnlyAfterWait
<1>1. WalkInit => WalkInv
  BY WalkInitInv
<1>2. WalkInv /\ [WalkNext]_walkVars => WalkInv'
  BY WalkNextInv
<1>3. WalkInv /\ [WalkNext]_walkVars => [CapRespected]_vars
  <2> SUFFICES ASSUME WalkInv, [WalkNext]_walkVars
               PROVE  CapRespected
    OBVIOUS
  <2>1. TypeOK
    BY DEF WalkInv, WalkTypeOK
  <2>2. ASSUME NEW r \in Requests, BodyLost(r)
        PROVE  CapRespected
    <3>1. req[r].pc = "leased" /\ req' = [req EXCEPT ![r].pc = "released"]
      BY <2>2 DEF BodyLost
    <3>2. req'[r].pc = "released" /\ \A q \in Requests \ {r} : req'[q] = req[q]
      BY <2>1, <3>1, ReturnEffect
    <3> QED
      BY <3>2 DEF CapRespected, LeaseGranted, Holders
  <2>3. CASE ~ \E r \in Requests : BodyLost(r)
    BY <2>1, <2>3, StepIsPool, StepRespectsCap DEF WalkInv
  <2> QED
    BY <2>2, <2>3
<1>4. [][CapRespected]_vars => CapYieldsOnlyAfterWait
  BY DEF CapRespected, CapYieldsOnlyAfterWait
<1> QED
  BY <1>1, <1>2, <1>3, <1>4, PTL DEF WalkSpec

-----------------------------------------------------------------------------
(* Siblings first *)

(* A walk has spent one attempt on each bucket it has tried, and rides on  *)
(* one it has not.                                                         *)
Counts(r) ==
    walk[r].pc # "resting" =>
        /\ Cardinality(walk[r].tried) + walk[r].left = Attempts
        /\ req[r].pc = "leased" => req[r].bucket \notin walk[r].tried

WalkCounts == \A r \in Requests : Counts(r)

LEMMA TriedFinite ==
    ASSUME WalkInv, NEW r \in Requests
    PROVE  /\ walk[r].tried \subseteq Buckets /\ IsFiniteSet(walk[r].tried)
           /\ Cardinality(walk[r].tried) \in Nat
<1>1. walk[r].tried \subseteq Buckets
  BY DEF WalkInv, WalkTypeOK, Walk
<1> QED
  BY <1>1, WalkAssumption, FS_Subset, FS_CardinalityType

LEMMA SpentCounts ==
    ASSUME WalkInv, NEW r \in Requests, Counts(r), walk[r].pc = "walking",
           req[r].pc = "leased", NEW handoff, Spent(r, handoff),
           req' = [req EXCEPT ![r].pc = "released"]
    PROVE  Counts(r)'
<1> DEFINE tried == walk[r].tried \cup {req[r].bucket}
<1>1. req'[r].pc = "released"
  BY ReturnEffect DEF WalkInv, WalkTypeOK
<1>2. walk[r] \in Walk /\ walk[r].left \in Nat /\ Attempts \in Nat
  BY AttemptsType DEF WalkInv, WalkTypeOK, Walk
<1>3. CASE walk[r].left = 1
  <2>1. walk'[r].pc = "resting"
    BY <1>3 DEF Spent, Rested, WalkInv, WalkTypeOK
  <2> QED
    BY <2>1 DEF Counts
<1>4. CASE walk[r].left # 1
  <2>1. walk'[r].tried = tried /\ walk'[r].left = walk[r].left - 1
    <3>1. walk'[r] = [walk[r] EXCEPT !.pc = "between", !.left = walk[r].left - 1,
                                     !.handoff = handoff, !.tried = tried]
      BY <1>4 DEF Spent, WalkInv, WalkTypeOK
    <3> QED
      BY <1>2, <3>1 DEF Walk
  <2>2. Cardinality(tried) = Cardinality(walk[r].tried) + 1
    BY TriedFinite, FS_AddElement DEF Counts
  <2>3. Cardinality(walk[r].tried) + walk[r].left = Attempts
    BY DEF Counts
  <2>4. Cardinality(tried) + (walk[r].left - 1) = Attempts
    BY <1>2, <2>2, <2>3, TriedFinite
  <2> QED
    BY <1>1, <2>1, <2>4 DEF Counts
<1> QED
  BY <1>3, <1>4

LEMMA StepCounts ==
    ASSUME WalkInv, NEW r \in Requests, WalkStep(r) \/ BodyLost(r), Counts(r)
    PROVE  Counts(r)'
<1>1. TypeOK /\ walk \in [Requests -> Walk] /\ Follows(r) /\ walk[r] \in Walk
  BY DEF WalkInv, WalkTypeOK
<1>2. ASSUME NEW handoff, End(r, handoff)
      PROVE  Counts(r)'
  BY <1>1, <1>2 DEF End, Rested, Counts
<1>3. ASSUME NEW key \in Sessions \cup {NoKey}, Begin(r, key)
      PROVE  Counts(r)'
  <2>1. CASE walk' = [walk EXCEPT ![r] = [pc |-> "walking", tried |-> {},
                                          left |-> Attempts, handoff |-> "none"]]
    <3>1. walk'[r].tried = {} /\ walk'[r].left = Attempts
      BY <1>1, <2>1
    <3> QED
      BY <3>1, AttemptsType, FS_EmptySet DEF Counts
  <2> QED
    BY <1>2, <1>3, <2>1 DEF Begin
<1>4. CASE TryNext(r)
  <2>1. CASE Acquire(r, NoKey, walk[r].tried) /\ walk' = [walk EXCEPT ![r].pc = "walking"]
    <3>1. walk'[r].tried = walk[r].tried /\ walk'[r].left = walk[r].left
      BY <1>1, <2>1 DEF Walk
    <3>2. req'[r].pc = "leased" => req'[r].bucket \notin walk[r].tried
      BY <1>1, <2>1, AcquireEffect
    <3> QED
      BY <1>4, <3>1, <3>2 DEF TryNext, Counts
  <2> QED
    BY <1>2, <1>4, <2>1 DEF TryNext
<1>5. CASE Served(r)
  <2>1. req'[r].bucket \in req[r].offered /\ req[r].offered \cap walk[r].tried = {}
    BY <1>1, <1>5, DequeueEffect DEF Served, Dequeue, Follows
  <2> QED
    BY <1>5, <2>1 DEF Served, Counts
<1>6. CASE StreamStarts(r)
  <2>1. /\ walk'[r].tried = walk[r].tried /\ walk'[r].left = walk[r].left
        /\ req' = req /\ walk[r].pc = "walking"
    BY <1>1, <1>6 DEF StreamStarts, Walk, vars
  <2> QED
    BY <2>1 DEF Counts
<1>7. CASE AttemptFails(r) \/ BodyLost(r)
  <2>1. req[r].pc = "leased" /\ walk[r].pc = "walking"
    BY <1>7 DEF AttemptFails, BodyLost
  <2>2. req' = [req EXCEPT ![r].pc = "released"] /\ \E handoff : Spent(r, handoff)
    BY <1>7, <2>1 DEF AttemptFails, BodyLost, Release
  <2> QED
    BY <2>1, <2>2, SpentCounts
<1>8. CASE \/ AttemptSucceeds(r) \/ AttemptBreaks(r) \/ StreamEnds(r) \/ FirstChunkLate(r)
           \/ HangUp(r) \/ PrimaryLate(r)
  BY <1>2, <1>8 DEF AttemptSucceeds, AttemptBreaks, StreamEnds, FirstChunkLate, HangUp,
                    PrimaryLate, Cancelled
<1> QED
  BY <1>3, <1>4, <1>5, <1>6, <1>7, <1>8 DEF WalkStep, AttemptEnds

(* A step moves one walk at most.                                          *)
LEMMA OtherWalksRest ==
    ASSUME WalkInv, NEW q \in Requests, WalkStep(q) \/ BodyLost(q), NEW r \in Requests \ {q}
    PROVE  walk'[r] = walk[r]
<1>1. walk \in [Requests -> Walk]
  BY DEF WalkInv, WalkTypeOK
<1>2. walk' = walk \/ \E w : walk' = [walk EXCEPT ![q] = w]
  BY DEF WalkStep, AttemptEnds, Begin, Served, AttemptSucceeds, StreamStarts, StreamEnds,
         FirstChunkLate,
         AttemptFails, AttemptBreaks, BodyLost, TryNext, HangUp, PrimaryLate, Cancelled, End, Spent
<1> QED
  BY <1>1, <1>2

LEMMA WalkNextCounts ==
    ASSUME WalkInv, WalkCounts, [WalkNext]_walkVars
    PROVE  WalkCounts'
<1>1. CASE \E q \in Requests : WalkStep(q) \/ BodyLost(q)
  <2>1. PICK q \in Requests : WalkStep(q) \/ BodyLost(q)
    BY <1>1
  <2>2. Counts(q)'
    BY <2>1, StepCounts DEF WalkCounts
  <2>3. ASSUME NEW r \in Requests \ {q}
        PROVE  Counts(r)'
    BY <2>1, OneLeaseMoves, OtherWalksRest DEF WalkCounts, Counts
  <2> QED
    BY <2>2, <2>3 DEF WalkCounts
<1>2. CASE UNCHANGED walk /\ \A r \in Requests : /\ req'[r].pc = req[r].pc
                                                 /\ req'[r].bucket = req[r].bucket
  BY <1>2 DEF WalkCounts, Counts
<1>3. ASSUME NEW b \in Buckets, ProbeStep(b) \/ RotatorStep(b)
      PROVE  req' = req
  BY <1>3 DEF ProbeStep, ProbeUnreachable, ProbeNotReady, ProbeReady,
              RotatorStep, StartRotation, FailRotation, SucceedRotation
<1>4. Tick => \A r \in Requests : req'[r].pc = req[r].pc /\ req'[r].bucket = req[r].bucket
  BY ZenonT(60) DEF Tick, WalkInv, WalkTypeOK, TypeOK, RequestState
<1>5. CASE UNCHANGED walkVars
  BY <1>2, <1>5 DEF walkVars, vars
<1>6. CASE WalkNext
  BY <1>1, <1>2, <1>3, <1>4, <1>6, SMTT(30) DEF WalkNext
<1> QED
  BY <1>5, <1>6

(* PoolExhausted means that no bucket of any tier is left.                 *)
LEMMA ExhaustedIsEmpty ==
    ASSUME NEW exclude, Exhausted(exclude)
    PROVE  Selectable \ exclude = {}
<1> DEFINE S == Selectable \ exclude
<1>1. \A c \in S : Rank(c) \in 1..5
  BY DEF Rank
<1>2. ASSUME NEW b \in S, \A c \in S : Rank(b) <= Rank(c)
      PROVE  FALSE
  BY <1>2 DEF Exhausted, Usable
<1> HIDE DEF S
<1>3. ASSUME NEW n \in 1..5, \A c \in S : Rank(c) >= n
      PROVE  \A c \in S : Rank(c) >= n + 1
  BY <1>1, <1>2, <1>3
<1>4. \A c \in S : Rank(c) >= 1
  BY <1>1
<1>5. \A c \in S : Rank(c) >= 6
  <2>1. \A c \in S : Rank(c) >= 2
    BY <1>3, <1>4
  <2>2. \A c \in S : Rank(c) >= 3
    BY <1>3, <2>1
  <2>3. \A c \in S : Rank(c) >= 4
    BY <1>3, <2>2
  <2>4. \A c \in S : Rank(c) >= 5
    BY <1>3, <2>3
  <2> QED
    BY <1>3, <2>4
<1> QED
  BY <1>1, <1>5 DEF S

(* A walk that gives up, and what it must have tried before.               *)
Handover(r) ==
    /\ walk[r].pc # "resting"
    /\ walk'[r].pc = "resting"
    /\ walk'[r].handoff \in {"quota", "outage"}

Deserved(r) ==
    \/ Cardinality(walk[r].tried) = Attempts - 1
    \/ \A b \in Buckets \ walk[r].tried : ~(st[b].healthy /\ Available(b))

LEMMA StepEarns ==
    ASSUME WalkInv, WalkCounts, NEW r \in Requests, WalkStep(r) \/ BodyLost(r), Handover(r)
    PROVE  Deserved(r)
<1>1. walk \in [Requests -> Walk] /\ walk[r] \in Walk /\ Attempts \in Nat
  BY AttemptsType DEF WalkInv, WalkTypeOK
<1>2. ~End(r, "none") /\ ~End(r, "wrapper")
  BY <1>1 DEF End, Rested, Handover
<1>3. CASE TryNext(r)
  <2>1. walk'[r].pc # "walking"
    BY DEF Handover
  <2>2. Exhausted(walk[r].tried)
    BY <1>1, <1>3, <2>1 DEF TryNext, Walk
  <2> QED
    BY <2>2, ExhaustedIsEmpty DEF Deserved, Selectable, Available
<1>4. CASE AttemptFails(r) \/ BodyLost(r)
  <2>1. PICK handoff : Spent(r, handoff)
    BY <1>4 DEF AttemptFails, BodyLost
  <2>2. walk[r].left = 1
    BY <1>1, <2>1 DEF Spent, Handover, Walk
  <2>3. Cardinality(walk[r].tried) + 1 = Attempts
    BY <2>2 DEF WalkCounts, Counts, Handover
  <2> QED
    BY <1>1, <2>3, TriedFinite DEF Deserved
<1>5. ~Served(r) /\ ~StreamStarts(r)
  BY <1>1 DEF Served, StreamStarts, Handover, Walk
<1>6. \A key \in Sessions \cup {NoKey} : ~Begin(r, key)
  BY DEF Begin, Handover
<1> QED
  BY <1>2, <1>3, <1>4, <1>5, <1>6
     DEF WalkStep, AttemptEnds, AttemptSucceeds, AttemptBreaks, StreamEnds,
         FirstChunkLate, HangUp, PrimaryLate, Cancelled

(* A walk that gives up, with whatever verdict on its last bucket, has     *)
(* used up its attempts or has no bucket left that it has not tried and    *)
(* that is up, unbenched and in rotation.  What the failover wrapper       *)
(* decides without the walk is not covered (WalkClaims.cfg).               *)
THEOREM WalkTriesSiblings == WalkSpec => SiblingsFirst
<1> DEFINE First == \A r \in Requests : Handover(r) => Deserved(r)
<1>1. WalkInit => WalkInv /\ WalkCounts
  BY WalkInitInv DEF WalkInit, WalkCounts, Counts, Rested
<1>2. WalkInv /\ WalkCounts /\ [WalkNext]_walkVars => (WalkInv /\ WalkCounts)'
  BY WalkNextInv, WalkNextCounts
<1>3. WalkInv /\ WalkCounts /\ [WalkNext]_walkVars => [First]_walkVars
  <2> SUFFICES ASSUME WalkInv, WalkCounts, WalkNext, NEW r \in Requests, Handover(r)
               PROVE  Deserved(r)
    OBVIOUS
  <2>1. PICK q \in Requests : WalkStep(q) \/ BodyLost(q)
    BY DEF WalkNext, Handover
  <2>2. q = r
    BY <2>1, OtherWalksRest DEF Handover
  <2> QED
    BY <2>1, <2>2, StepEarns
<1>4. [][First]_walkVars => SiblingsFirst
  BY DEF Handover, Deserved, Earned, SiblingsFirst
<1> QED
  BY <1>1, <1>2, <1>3, <1>4, PTL DEF WalkSpec

=============================================================================
