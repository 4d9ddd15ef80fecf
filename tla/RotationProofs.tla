---------------------------- MODULE RotationProofs ----------------------------
(***************************************************************************)
(* Theorems about EgressRotation, for every value of the constants: the    *)
(* composed state is well formed, and pool and rotator never disagree on   *)
(* which buckets rotate, across outcomes, retries, failed and successful   *)
(* attempts, window changes, orderly restarts and crashes.  RotationSound  *)
(* is inductive as it stands: the types say that the address a poll        *)
(* reports is one the pool may store, and the flag is moved only together  *)
(* with the task.  Then the storm guard, the budget of reboots over all    *)
(* processes of a window, and who owns a latch that is closed.             *)
(***************************************************************************)
EXTENDS EgressRotationHistory, EgressPoolProofs

-----------------------------------------------------------------------------
(* Types of the counters *)

LEMMA LongestType == Longest \in Nat /\ RetryCooldown <= Longest
BY RotationAssumption DEF Longest, Larger

(* Every rule of counters.py keeps a record a record.                      *)
LEMMA CountsTypes ==
    ASSUME NEW q \in BucketCounts
    PROVE  /\ Current(q) \in BucketCounts
           /\ Loaded(q) \in BucketCounts
           /\ Attempted(q) \in BucketCounts
           /\ Succeeded(q) \in BucketCounts
           /\ FailedAttempt(q) \in BucketCounts
           /\ Older(q) \in BucketCounts
           /\ [q EXCEPT !.old = TRUE] \in BucketCounts
<1>0. /\ 0 \in 0..Threshold /\ 0 \in 0..MaxRotations /\ 0 \in 0..Longest
      /\ TRUE \in BOOLEAN /\ FALSE \in BOOLEAN
      /\ "none" \in {"none", "ok", "failed"}
      /\ "ok" \in {"none", "ok", "failed"}
      /\ "failed" \in {"none", "ok", "failed"}
  BY LongestType, RotationAssumption
<1>1. NoCounts \in BucketCounts
  BY <1>0 DEF NoCounts, BucketCounts
<1>2. Current(q) \in BucketCounts
  <2>1. [q EXCEPT !.used = 0, !.triggered = FALSE, !.rotations = 0, !.old = FALSE]
          \in BucketCounts
    BY <1>0, ZenonT(30) DEF BucketCounts
  <2> QED
    BY <2>1 DEF Current
<1>3. Loaded(q) \in BucketCounts
  BY <1>1 DEF Loaded
<1>4. Attempted(q) \in BucketCounts
  <2>1. Smaller(q.rotations + 1, MaxRotations) \in 0..MaxRotations
    BY RotationAssumption DEF BucketCounts, Smaller
  <2> QED
    BY <1>0, <2>1, ZenonT(30) DEF Attempted, BucketCounts
<1>5. Succeeded(q) \in BucketCounts
  BY <1>0, ZenonT(30) DEF Succeeded, BucketCounts
<1>6. FailedAttempt(q) \in BucketCounts
  BY <1>0, ZenonT(30) DEF FailedAttempt, BucketCounts
<1>7. Older(q) \in BucketCounts
  <2>1. Smaller(q.age + 1, Longest) \in 0..Longest
    BY LongestType DEF BucketCounts, Smaller
  <2> QED
    BY <1>0, <2>1, ZenonT(30) DEF Older, BucketCounts
<1>8. [q EXCEPT !.old = TRUE] \in BucketCounts
  BY <1>0, ZenonT(30) DEF BucketCounts
<1> QED
  BY <1>2, <1>3, <1>4, <1>5, <1>6, <1>7, <1>8

LEMMA RecordedType ==
    ASSUME NEW q \in BucketCounts, NEW v, NEW charge \in Charges
    PROVE  Recorded(q, v, charge) \in BucketCounts
<1>1. Smaller(q.used + charge, Threshold) \in 0..Threshold
  BY RotationAssumption DEF BucketCounts, Smaller
<1>2. (q.triggered \/ Fires(q, v, charge)) \in BOOLEAN
  OBVIOUS
<1> QED
  BY <1>1, <1>2 DEF Recorded, BucketCounts

-----------------------------------------------------------------------------
(* The rotator's own state *)

(* What RotationTypeOK says beyond the pool.                               *)
RotatorOK ==
    /\ rec \in [Rotatable -> BucketCounts]
    /\ disk \in [Rotatable -> BucketCounts]
    /\ task \in [Rotatable -> TaskState]
    /\ timer \in [Rotatable -> {NoTimer} \cup 0..RetryCooldown]
    /\ dev \in [Buckets -> Device]
    /\ events \in [rollovers: 0..Rollovers, shutdowns: 0..Shutdowns, crashes: 0..Crashes]

LEMMA TaskTypes ==
    /\ NoTask \in TaskState
    /\ NoTask.pc = "none"
    /\ [NoTask EXCEPT !.pc = "created"] \in TaskState
    /\ [NoTask EXCEPT !.pc = "created"].pc = "created"
BY RotationAssumption DEF NoTask, TaskState

LEMMA StartTaskType ==
    ASSUME RotatorOK, NEW b \in Rotatable, NEW q \in BucketCounts, StartTask(b, q)
    PROVE  /\ rec' \in [Rotatable -> BucketCounts]
           /\ disk' \in [Rotatable -> BucketCounts]
           /\ task' \in [Rotatable -> TaskState]
           /\ UNCHANGED <<dev, events>>
<1>1. Attempted(q) \in BucketCounts
  BY CountsTypes
<1> QED
  BY <1>1, TaskTypes DEF StartTask, RotatorOK

LEMMA ReleaseRotatorType ==
    ASSUME RotatorOK, NEW r \in Requests, NEW v \in Verdicts, NEW charge \in Charges,
           ReleaseObserved(r, v, charge)
    PROVE  RotatorOK'
<1> DEFINE b == req[r].bucket
           q == IF Metered(v) THEN Current(rec[b]) ELSE rec[b]
           counted == Recorded(q, v, charge)
<1>1. b \in Rotatable => counted \in BucketCounts
  BY CountsTypes, RecordedType DEF RotatorOK
<1>2. CASE b \in Rotatable /\ StartTask(b, counted) /\ UNCHANGED timer
  BY <1>1, <1>2, StartTaskType DEF RotatorOK
<1>3. CASE /\ rec' = [c \in Rotatable |-> IF c = b THEN counted ELSE rec[c]]
           /\ disk' = (IF v.kind = "ok" THEN rec' ELSE disk)
           /\ UNCHANGED <<task, timer, dev, events>>
  <2>1. rec' \in [Rotatable -> BucketCounts]
    BY <1>1, <1>3 DEF RotatorOK
  <2> QED
    BY <1>3, <2>1 DEF RotatorOK
<1> QED
  BY <1>2, <1>3 DEF ReleaseObserved

LEMMA TriggerRotatorType ==
    ASSUME RotatorOK, NEW b \in Rotatable, AdminRotate(b) \/ RetryFires(b)
    PROVE  RotatorOK'
<1> DEFINE q == Current(rec[b])
<1>1. q \in BucketCounts
  BY CountsTypes DEF RotatorOK
<1>2. CASE StartTask(b, q) /\ UNCHANGED timer
  BY <1>1, <1>2, StartTaskType DEF RotatorOK
<1>3. CASE RetryFires(b)
  <2>1. timer' \in [Rotatable -> {NoTimer} \cup 0..RetryCooldown]
    BY <1>3 DEF RetryFires, RotatorOK
  <2>2. CASE StartTask(b, q)
    BY <1>1, <2>1, <2>2, StartTaskType DEF RotatorOK
  <2>3. CASE /\ rec' = (IF Running(b) THEN rec ELSE [rec EXCEPT ![b] = q])
             /\ UNCHANGED <<disk, task, dev, events>>
    BY <1>1, <2>1, <2>3 DEF RotatorOK
  <2> QED
    BY <1>3, <2>2, <2>3 DEF RetryFires
<1> QED
  BY <1>2, <1>3 DEF AdminRotate

LEMMA TaskRotatorType ==
    ASSUME TypeOK, RotatorOK, NEW b \in Rotatable, TaskStep(b)
    PROVE  RotatorOK'
<1> DEFINE q == Current(rec[b])
<1>1. /\ q \in BucketCounts
      /\ Succeeded(q) \in BucketCounts
      /\ FailedAttempt(q) \in BucketCounts
  BY CountsTypes DEF RotatorOK
<1>2. task[b] \in TaskState /\ st[b].ip \in IPs \cup {NoIp}
  BY ActorAssumption DEF RotatorOK, TypeOK, EgressState
<1>3. CASE TaskBegins(b)
  <2>1. [task[b] EXCEPT !.pc = "posting", !.from = st[b].ip] \in TaskState
    BY <1>2 DEF TaskState
  <2> QED
    BY <1>3, <2>1 DEF TaskBegins, RotatorOK
<1>4. CASE PostAnswered(b)
  <2>1. PollTime \in 0..PollTime
    BY RotationAssumption
  <2>2. [task[b] EXCEPT !.pc = "polling", !.left = PollTime] \in TaskState
    BY <1>2, <2>1, ZenonT(30) DEF TaskState
  <2> QED
    BY <1>4, <2>2 DEF PostAnswered, RotatorOK
<1>5. CASE GiveUp(b)
  <2>1. Armed(b, q) \in {NoTimer} \cup 0..RetryCooldown
    BY RotationAssumption DEF Armed, RotatorOK
  <2> QED
    BY <1>1, <1>5, <2>1, TaskTypes DEF GiveUp, RotatorOK
<1>6. CASE PollSucceeds(b)
  BY <1>1, <1>6, TaskTypes DEF PollSucceeds, RotatorOK
<1> QED
  BY <1>3, <1>4, <1>5, <1>6 DEF TaskStep, PostRefused, PollExpires

LEMMA DeviceRotatorType ==
    ASSUME RotatorOK, NEW b \in Buckets,
           ResetLands(b) \/ Redial(b) \/ AgentProbe(b) \/ PoolProbe(b)
    PROVE  RotatorOK'
<1>1. ASSUME NEW d \in Device, SetDevice(b, d)
      PROVE  RotatorOK'
  BY <1>1 DEF SetDevice, RotatorOK
<1>2. dev[b] \in Device
  BY DEF RotatorOK
<1>3. CASE ResetLands(b)
  <2>1. [dev[b] EXCEPT !.up = FALSE, !.seen = NoIp] \in Device
    BY <1>2 DEF Device
  <2> QED
    BY <1>1, <1>3, <2>1 DEF ResetLands
<1>4. CASE Redial(b)
  <2>1. PICK ip \in IPs : SetDevice(b, [dev[b] EXCEPT !.up = TRUE, !.addr = ip])
    BY <1>4 DEF Redial
  <2>2. [dev[b] EXCEPT !.up = TRUE, !.addr = ip] \in Device
    BY <1>2 DEF Device
  <2> QED
    BY <1>1, <2>1, <2>2
<1>5. CASE AgentProbe(b)
  <2>1. /\ [dev[b] EXCEPT !.seen = dev[b].addr, !.ok = TRUE] \in Device
        /\ [dev[b] EXCEPT !.ok = FALSE] \in Device
    BY <1>2 DEF Device
  <2> QED
    BY <1>1, <1>5, <2>1 DEF AgentProbe
<1>6. CASE UNCHANGED rotVars
  BY <1>6 DEF rotVars, RotatorOK
<1> QED
  BY <1>3, <1>4, <1>5, <1>6 DEF PoolProbe

LEMMA TimeRotatorType ==
    ASSUME RotatorOK, Rollover \/ RotationTick
    PROVE  RotatorOK'
<1>1. ASSUME NEW b \in Rotatable
      PROVE  /\ Older(rec[b]) \in BucketCounts /\ Older(disk[b]) \in BucketCounts
             /\ [rec[b] EXCEPT !.old = TRUE] \in BucketCounts
             /\ [disk[b] EXCEPT !.old = TRUE] \in BucketCounts
             /\ Larger(timer[b] - 1, NoTimer) \in {NoTimer} \cup 0..RetryCooldown
             /\ [task[b] EXCEPT !.left = Larger(@ - 1, 0)] \in TaskState
  <2>1. rec[b] \in BucketCounts /\ disk[b] \in BucketCounts
    BY DEF RotatorOK
  <2>2. Larger(timer[b] - 1, NoTimer) \in {NoTimer} \cup 0..RetryCooldown
    BY RotationAssumption DEF RotatorOK, Larger, NoTimer
  <2>3. [task[b] EXCEPT !.left = Larger(@ - 1, 0)] \in TaskState
    BY RotationAssumption DEF RotatorOK, Larger, TaskState
  <2> QED
    BY <2>1, <2>2, <2>3, CountsTypes
<1>2. CASE Rollover
  <2>1. events' \in [rollovers: 0..Rollovers, shutdowns: 0..Shutdowns, crashes: 0..Crashes]
    BY <1>2, RotationAssumption DEF Rollover, RotatorOK
  <2> QED
    BY <1>1, <1>2, <2>1 DEF Rollover, RotatorOK
<1>3. CASE RotationTick
  BY <1>1, <1>3 DEF RotationTick, RotatorOK
<1> QED
  BY <1>2, <1>3

LEMMA RebornRotatorType ==
    ASSUME RotatorOK, NEW snapshot \in [Rotatable -> BucketCounts], Reborn(snapshot),
           events' \in [rollovers: 0..Rollovers, shutdowns: 0..Shutdowns, crashes: 0..Crashes]
    PROVE  RotatorOK'
<1>1. \A b \in Rotatable : Loaded(snapshot[b]) \in BucketCounts
  BY CountsTypes
<1> QED
  BY <1>1, TaskTypes DEF Reborn, RotatorOK

(* A restart starts from a snapshot of well formed records.                *)
LEMMA RestartIsReborn ==
    ASSUME RotatorOK, Shutdown \/ Crash
    PROVE  /\ \E snapshot \in [Rotatable -> BucketCounts] : Reborn(snapshot)
           /\ events' \in [rollovers: 0..Rollovers, shutdowns: 0..Shutdowns, crashes: 0..Crashes]
<1>1. disk \in [Rotatable -> BucketCounts]
  BY DEF RotatorOK
<1>2. events' \in [rollovers: 0..Rollovers, shutdowns: 0..Shutdowns, crashes: 0..Crashes]
  BY RotationAssumption DEF Shutdown, Crash, RotatorOK
<1>3. CASE Reborn(disk)
  BY <1>1, <1>2, <1>3
<1>4. CASE Shutdown /\ ~Reborn(disk)
  <2> DEFINE noted(recorded) ==
               [b \in Rotatable |-> IF b \in recorded THEN FailedAttempt(Current(rec[b]))
                                    ELSE rec[b]]
  <2>1. PICK recorded \in SUBSET Rotatable : Reborn(noted(recorded))
    BY <1>4 DEF Shutdown
  <2>2. \A b \in Rotatable : rec[b] \in BucketCounts
                             /\ FailedAttempt(Current(rec[b])) \in BucketCounts
    BY CountsTypes DEF RotatorOK
  <2>3. noted(recorded) \in [Rotatable -> BucketCounts]
    BY <2>2
  <2> QED
    BY <1>2, <2>1, <2>3
<1> QED
  BY <1>3, <1>4 DEF Crash

-----------------------------------------------------------------------------
(* The pool under the rotator *)

LEMMA FreshTypes ==
    /\ FreshEgress \in EgressState /\ ~FreshEgress.rotating
    /\ NoRequest \in RequestState /\ NoRequest.pc = "idle"
    /\ Unbound \in Binding
<1>1. FreshEgress \in EgressState /\ ~FreshEgress.rotating
  BY PastType DEF FreshEgress, EgressState, Reasons
<1>2. NoRequest \in RequestState /\ NoRequest.pc = "idle"
  BY DEF NoRequest, RequestState
<1>3. Unbound \in Binding
  BY DEF Unbound, Binding
<1> QED
  BY <1>1, <1>2, <1>3

LEMMA RebornPoolType ==
    ASSUME NEW snapshot, Reborn(snapshot)
    PROVE  TypeOK'
BY FreshTypes DEF Reborn, TypeOK

(* A step of the running gateway is a step of the pool, or leaves it.      *)
LEMMA RunningStepsPool ==
    ASSUME RotationTypeOK, RunningNext
    PROVE  [Next]_vars
<1>1. Rotatable \subseteq Buckets
  BY ActorAssumption
<1>2. CASE \E r \in Requests : ServeStep(r)
  BY <1>2 DEF ServeStep, Next, RequestStep, Finish
<1>3. ASSUME NEW r \in Requests, NEW v \in Verdicts, NEW charge \in Charges,
             ReleaseObserved(r, v, charge)
      PROVE  Next
  <2>1. Release(r, v, TRUE) \/ Release(r, v, FALSE)
    BY <1>3 DEF ReleaseObserved
  <2> QED
    BY <2>1 DEF Next, RequestStep, Finish
<1>4. ASSUME NEW b \in Rotatable, AdminRotate(b) \/ RetryFires(b)
      PROVE  [Next]_vars
  <2>1. StartRotation(b) \/ UNCHANGED vars
    BY <1>4 DEF AdminRotate, RetryFires
  <2> QED
    BY <1>1, <2>1 DEF Next, RotatorStep
<1>5. ASSUME NEW b \in Rotatable, TaskStep(b)
      PROVE  [Next]_vars
  <2>1. CASE PollSucceeds(b)
    <3>1. dev[b] \in Device
      BY <1>1 DEF RotationTypeOK
    <3>2. dev[b].seen \in IPs
      BY <2>1, <3>1 DEF PollSucceeds, Device
    <3> QED
      BY <1>1, <2>1, <3>2 DEF PollSucceeds, Next, RotatorStep
  <2>2. CASE FailRotation(b) \/ UNCHANGED vars
    BY <1>1, <2>2 DEF Next, RotatorStep
  <2> QED
    BY <1>5, <2>1, <2>2
       DEF TaskStep, TaskBegins, PostAnswered, PostRefused, PollExpires, GiveUp
<1>6. ASSUME NEW b \in Buckets, ResetLands(b) \/ Redial(b) \/ AgentProbe(b)
      PROVE  UNCHANGED vars
  BY <1>6 DEF ResetLands, Redial, AgentProbe, SetDevice
<1>7. ASSUME NEW b \in Buckets, PoolProbe(b)
      PROVE  Next
  <2>1. dev[b].seen \in IPs \cup {NoIp}
    BY DEF RotationTypeOK, Device
  <2>2. ProbeStep(b)
    BY <1>7, <2>1 DEF PoolProbe, ProbeStep
  <2> QED
    BY <2>2 DEF Next
<1>8. CASE RotationTick
  BY <1>8 DEF RotationTick, Next
<1> QED
  BY <1>2, <1>3, <1>4, <1>5, <1>6, <1>7, <1>8 DEF RunningNext, ReleaseStep

LEMMA RotationNextType ==
    ASSUME RotationTypeOK, [RotationNext]_allVars
    PROVE  RotationTypeOK'
<1>1. TypeOK /\ RotatorOK
  BY DEF RotationTypeOK, RotatorOK
<1>2. TypeOK' /\ RotatorOK' => RotationTypeOK'
  BY DEF RotationTypeOK, RotatorOK
<1>3. CASE UNCHANGED allVars
  BY <1>1, <1>2, <1>3 DEF allVars, vars, rotVars, TypeOK, RotatorOK
<1>4. CASE RunningNext
  <2>1. TypeOK'
    BY <1>1, <1>4, RunningStepsPool, NextType
  <2>2. ASSUME NEW r \in Requests, ServeStep(r)
        PROVE  RotatorOK'
    BY <1>1, <2>2 DEF ServeStep, rotVars, RotatorOK
  <2>3. RotatorOK'
    BY <1>1, <1>4, <2>2, ReleaseRotatorType, TriggerRotatorType, TaskRotatorType,
       DeviceRotatorType, TimeRotatorType
       DEF RunningNext, ReleaseStep
  <2> QED
    BY <1>2, <2>1, <2>3
<1>5. CASE Rollover
  <2>1. UNCHANGED vars
    BY <1>5 DEF Rollover
  <2> QED
    BY <1>1, <1>2, <1>5, <2>1, TimeRotatorType DEF vars, TypeOK
<1>6. CASE Shutdown \/ Crash
  BY <1>1, <1>2, <1>6, RestartIsReborn, RebornRotatorType, RebornPoolType
<1> QED
  BY <1>3, <1>4, <1>5, <1>6 DEF RotationNext

LEMMA RotationInitType ==
    ASSUME RotationInit
    PROVE  RotationTypeOK
<1>1. TypeOK
  BY InitType DEF RotationInit
<1>2. NoCounts \in BucketCounts
  BY LongestType, RotationAssumption DEF NoCounts, BucketCounts
<1>3. dev \in [Buckets -> Device]
  BY DEF RotationInit, Device
<1>4. events \in [rollovers: 0..Rollovers, shutdowns: 0..Shutdowns, crashes: 0..Crashes]
  BY RotationAssumption DEF RotationInit
<1> QED
  BY <1>1, <1>2, <1>3, <1>4, TaskTypes DEF RotationInit, RotationTypeOK

(* Every reachable state of pool, rotator, counters, snapshot and devices  *)
(* is well formed, across rollovers and restarts.                          *)
THEOREM RotationTypeCorrect == RotationSpec => []RotationTypeOK
<1>1. RotationInit => RotationTypeOK
  BY RotationInitType
<1>2. RotationTypeOK /\ [RotationNext]_allVars => RotationTypeOK'
  BY RotationNextType
<1> QED
  BY <1>1, <1>2, PTL DEF RotationSpec

-----------------------------------------------------------------------------
(* The flag and the task *)

(* No outcome of a request touches the flag by itself.                     *)
LEMMA JudgedFlag ==
    ASSUME NEW s \in EgressState, NEW v \in Verdicts
    PROVE  Judged(Freed(s), v).rotating = s.rotating
<1> DEFINE f == Freed(s)
<1>1. f \in EgressState /\ f.rotating = s.rotating
  BY HelperTypes DEF Freed, EgressState
<1> HIDE DEF f
<1>2. Failed(f) \in EgressState /\ Failed(f).rotating = f.rotating
  BY <1>1, HelperTypes DEF Failed, EgressState
<1>3. EnterCooldown(Failed(f)).rotating = f.rotating
  BY <1>2 DEF EnterCooldown, EgressState
<1>4. ASSUME NEW bench, NEW reason
      PROVE  EnterCordon(Failed(f), bench, reason).rotating = f.rotating
  BY <1>2 DEF EnterCordon, EgressState
<1>5. LiftCordonOnSuccess([f EXCEPT !.failures = 0, !.cooldown = 0]).rotating = f.rotating
  BY <1>1 DEF LiftCordonOnSuccess, EgressState
<1>6. v.kind \in {"ok", "transport", "http_429_soft", "http_429_hard", "free_tier_rejected"}
  BY DEF Verdicts
<1>7. Judged(f, v).rotating = f.rotating
  BY <1>3, <1>4, <1>5, <1>6 DEF Judged
<1> QED
  BY <1>1, <1>7 DEF f

LEMMA ServeFlag ==
    ASSUME TypeOK, NEW r \in Requests,
           AcquireStep(r) \/ Dequeue(r) \/ CancelWait(r) \/ Abandon(r)
    PROVE  \A c \in Buckets : st'[c].rotating = st[c].rotating
<1>1. CASE st' = st
  BY <1>1
<1>2. ASSUME NEW b, NEW key, NEW bound, NEW elapsed, Lease(r, b, key, bound, elapsed)
      PROVE  \A c \in Buckets : st'[c].rotating = st[c].rotating
  BY <1>2 DEF Lease, TypeOK, EgressState
<1>3. CASE AcquireStep(r)
  <2>1. PICK key, exclude : Acquire(r, key, exclude)
    BY <1>3 DEF AcquireStep
  <2>2. \/ \E b : Lease(r, b, key, Kept(key), 0)
        \/ st' = st
    BY <2>1 DEF Acquire, Enqueue
  <2> QED
    BY <1>1, <1>2, <2>2
<1>4. CASE Dequeue(r)
  BY <1>2, <1>4 DEF Dequeue
<1>5. CASE Abandon(r)
  BY <1>1, <1>5 DEF Abandon, vars, Freed, TypeOK, EgressState
<1> QED
  BY <1>1, <1>3, <1>4, <1>5 DEF CancelWait

LEMMA ReleaseFlag ==
    ASSUME TypeOK, NEW r \in Requests, NEW v \in Verdicts, NEW mark \in BOOLEAN,
           req[r].pc = "leased", Release(r, v, mark)
    PROVE  \A c \in Buckets :
             st'[c].rotating = (st[c].rotating \/ (mark /\ c = req[r].bucket))
<1> DEFINE b == req[r].bucket
           j == Judged(Freed(st[b]), v)
<1>1. b \in Buckets /\ st[b] \in EgressState
  BY DEF TypeOK
<1>2. j \in EgressState /\ j.rotating = st[b].rotating
  BY <1>1, HelperTypes, JudgedType, JudgedFlag
<1>3. st' = [st EXCEPT ![b] = Marked(j, mark)]
  BY DEF Release
<1> HIDE DEF j
<1>4. Marked(j, mark).rotating = (st[b].rotating \/ mark)
  BY <1>2 DEF Marked, EgressState
<1>5. \A c \in Buckets : st[c].rotating \in BOOLEAN
  BY DEF TypeOK, EgressState
<1> QED
  BY <1>1, <1>3, <1>4, <1>5 DEF TypeOK

LEMMA ProbeFlag ==
    ASSUME TypeOK, NEW b \in Buckets, ProbeStep(b)
    PROVE  \A c \in Buckets : st'[c].rotating = st[c].rotating
<1>1. st[b] \in EgressState
  BY DEF TypeOK
<1>2. ASSUME NEW s, s.rotating = st[b].rotating, st' = [st EXCEPT ![b] = s]
      PROVE  \A c \in Buckets : st'[c].rotating = st[c].rotating
  BY <1>2 DEF TypeOK
<1>3. ASSUME NEW ip \in IPs \cup {NoIp}
      PROVE  /\ Observed(st[b], ip) \in EgressState
             /\ Observed(st[b], ip).rotating = st[b].rotating
  BY <1>1 DEF Observed, EgressState
<1>4. CASE ProbeUnreachable(b)
  BY <1>4 DEF ProbeUnreachable, TypeOK, EgressState
<1>5. ASSUME NEW ip \in IPs \cup {NoIp}, ProbeNotReady(b, ip)
      PROVE  \A c \in Buckets : st'[c].rotating = st[c].rotating
  <2> DEFINE s == [Observed(st[b], ip) EXCEPT !.streak = Smaller(@ + 1, Tolerance)]
             t == IF s.streak >= Tolerance THEN [s EXCEPT !.healthy = FALSE] ELSE s
  <2>1. t.rotating = st[b].rotating
    BY <1>3 DEF EgressState
  <2>2. st' = [st EXCEPT ![b] = t]
    BY <1>5 DEF ProbeNotReady
  <2> HIDE DEF t
  <2> QED
    BY <1>2, <2>1, <2>2
<1>6. ASSUME NEW ip \in IPs \cup {NoIp}, ProbeReady(b, ip)
      PROVE  \A c \in Buckets : st'[c].rotating = st[c].rotating
  <2> DEFINE up == Recovered(Observed(st[b], ip))
             moved == IF up.ip # st[b].ip THEN LiftIpScopedCordon(up) ELSE up
             t == IF st[b].healthy THEN moved ELSE CleanSlate(moved)
  <2>1. up \in EgressState /\ up.rotating = st[b].rotating
    BY <1>3, HelperTypes DEF Recovered, EgressState
  <2>2. moved \in EgressState /\ moved.rotating = st[b].rotating
    <3> HIDE DEF up
    <3> QED
      BY <2>1, HelperTypes DEF LiftIpScopedCordon, EgressState
  <2>3. t.rotating = st[b].rotating
    <3> HIDE DEF moved
    <3> QED
      BY <2>2 DEF CleanSlate, EgressState
  <2>4. st' = [st EXCEPT ![b] = t]
    BY <1>6 DEF ProbeReady
  <2> HIDE DEF t
  <2> QED
    BY <1>2, <2>3, <2>4
<1> QED
  BY <1>4, <1>5, <1>6 DEF ProbeStep

LEMMA TickFlag ==
    ASSUME TypeOK, Tick
    PROVE  \A c \in Buckets : st'[c].rotating = st[c].rotating
BY DEF Tick, TypeOK, EgressState

(* Steps that move neither the flag nor a task's place keep the agreement. *)
LEMMA FlagKept ==
    ASSUME FlagFollowsTask,
           \A c \in Rotatable : st'[c].rotating = st[c].rotating,
           \A c \in Rotatable : task'[c].pc = task[c].pc
    PROVE  FlagFollowsTask'
BY DEF FlagFollowsTask, Running

(* Steps that move both of them, on one bucket.                            *)
LEMMA FlagMoved ==
    ASSUME RotationTypeOK, FlagFollowsTask, NEW b \in Rotatable,
           NEW t, task' = [task EXCEPT ![b] = t],
           \A c \in Rotatable \ {b} : st'[c].rotating = st[c].rotating,
           st'[b].rotating <=> t.pc # "none"
    PROVE  FlagFollowsTask'
BY DEF RotationTypeOK, FlagFollowsTask, Running

LEMMA ReleaseAgrees ==
    ASSUME RotationSound, NEW r \in Requests, NEW v \in Verdicts, NEW charge \in Charges,
           ReleaseObserved(r, v, charge)
    PROVE  FlagFollowsTask'
<1> DEFINE b == req[r].bucket
           counted == Recorded(IF Metered(v) THEN Current(rec[b]) ELSE rec[b], v, charge)
<1>1. TypeOK /\ Rotatable \subseteq Buckets
  BY ActorAssumption DEF RotationSound, RotationTypeOK
<1>2. req[r].pc = "leased"
  BY DEF ReleaseObserved
<1>3. CASE b \in Rotatable /\ Release(r, v, TRUE) /\ StartTask(b, counted)
  <2>1. \A c \in Buckets : st'[c].rotating = (st[c].rotating \/ c = b)
    BY <1>1, <1>2, <1>3, ReleaseFlag
  <2>2. /\ st'[b].rotating
        /\ \A c \in Rotatable \ {b} : st'[c].rotating = st[c].rotating
    BY <1>1, <1>3, <2>1 DEF TypeOK, EgressState
  <2> QED
    BY <1>3, <2>2, TaskTypes, FlagMoved DEF StartTask, RotationSound
<1>4. CASE Release(r, v, FALSE) /\ UNCHANGED task
  <2>1. \A c \in Buckets : st'[c].rotating = st[c].rotating
    BY <1>1, <1>2, <1>4, ReleaseFlag DEF TypeOK, EgressState
  <2> QED
    BY <1>1, <1>4, <2>1, FlagKept DEF RotationSound
<1> QED
  BY <1>3, <1>4 DEF ReleaseObserved

LEMMA TriggerAgrees ==
    ASSUME RotationSound, NEW b \in Rotatable, AdminRotate(b) \/ RetryFires(b)
    PROVE  FlagFollowsTask'
<1>1. b \in Buckets /\ st \in [Buckets -> EgressState] /\ Rotatable \subseteq Buckets
  BY ActorAssumption DEF RotationSound, RotationTypeOK, TypeOK
<1>2. CASE StartRotation(b) /\ StartTask(b, Current(rec[b]))
  <2>1. /\ st'[b].rotating
        /\ \A c \in Rotatable \ {b} : st'[c].rotating = st[c].rotating
    BY <1>1, <1>2 DEF StartRotation, EgressState
  <2> QED
    BY <1>2, <2>1, TaskTypes, FlagMoved DEF StartTask, RotationSound
<1>3. CASE UNCHANGED <<st, task>>
  BY <1>3, FlagKept DEF RotationSound
<1> QED
  BY <1>2, <1>3 DEF AdminRotate, RetryFires, vars

LEMMA TaskAgrees ==
    ASSUME RotationSound, NEW b \in Rotatable, TaskStep(b)
    PROVE  FlagFollowsTask'
<1>1. /\ b \in Buckets /\ st \in [Buckets -> EgressState] /\ Rotatable \subseteq Buckets
      /\ task[b] \in TaskState
  BY ActorAssumption DEF RotationSound, RotationTypeOK, TypeOK
<1>2. CASE TaskBegins(b)
  <2>1. st'[b].rotating
    BY <1>1, <1>2 DEF TaskBegins, vars, RotationSound, FlagFollowsTask, Running
  <2>2. [task[b] EXCEPT !.pc = "posting", !.from = st[b].ip].pc = "posting"
    BY <1>1 DEF TaskState
  <2> QED
    BY <1>2, <2>1, <2>2, FlagMoved DEF TaskBegins, vars, RotationSound
<1>3. CASE PostAnswered(b)
  <2>1. st'[b].rotating
    BY <1>1, <1>3 DEF PostAnswered, vars, RotationSound, FlagFollowsTask, Running
  <2>2. [task[b] EXCEPT !.pc = "polling", !.left = PollTime].pc = "polling"
    BY <1>1 DEF TaskState
  <2> QED
    BY <1>3, <2>1, <2>2, FlagMoved DEF PostAnswered, vars, RotationSound
<1>4. CASE GiveUp(b)
  <2>1. /\ ~st'[b].rotating
        /\ \A c \in Rotatable \ {b} : st'[c].rotating = st[c].rotating
    BY <1>1, <1>4 DEF GiveUp, FailRotation, EgressState
  <2> QED
    BY <1>4, <2>1, TaskTypes, FlagMoved DEF GiveUp, RotationSound
<1>5. CASE PollSucceeds(b)
  <2>1. /\ ~st'[b].rotating
        /\ \A c \in Rotatable \ {b} : st'[c].rotating = st[c].rotating
    BY <1>1, <1>5 DEF PollSucceeds, SucceedRotation, RotationSucceeded, EgressState
  <2> QED
    BY <1>5, <2>1, TaskTypes, FlagMoved DEF PollSucceeds, RotationSound
<1> QED
  BY <1>2, <1>3, <1>4, <1>5 DEF TaskStep, PostRefused, PollExpires

LEMMA RestartAgrees ==
    ASSUME NEW snapshot, Reborn(snapshot)
    PROVE  FlagFollowsTask'
BY ActorAssumption, FreshTypes, TaskTypes DEF Reborn, FlagFollowsTask, Running

LEMMA OtherAgrees ==
    ASSUME RotationSound,
           \/ \E r \in Requests : ServeStep(r)
           \/ \E b \in Buckets : ResetLands(b) \/ Redial(b) \/ AgentProbe(b) \/ PoolProbe(b)
           \/ RotationTick
           \/ Rollover
           \/ UNCHANGED allVars
    PROVE  FlagFollowsTask'
<1>1. TypeOK /\ FlagFollowsTask /\ Rotatable \subseteq Buckets
  BY ActorAssumption DEF RotationSound, RotationTypeOK
<1>2. CASE UNCHANGED <<st, task>>
  BY <1>1, <1>2, FlagKept
<1>3. ASSUME NEW r \in Requests, ServeStep(r)
      PROVE  FlagFollowsTask'
  BY <1>1, <1>3, ServeFlag, FlagKept DEF ServeStep, rotVars
<1>4. ASSUME NEW b \in Buckets, ResetLands(b) \/ Redial(b) \/ AgentProbe(b)
      PROVE  UNCHANGED <<st, task>>
  BY <1>4 DEF ResetLands, Redial, AgentProbe, SetDevice, vars
<1>5. ASSUME NEW b \in Buckets, PoolProbe(b)
      PROVE  FlagFollowsTask'
  <2>1. dev[b].seen \in IPs \cup {NoIp}
    BY DEF RotationSound, RotationTypeOK, Device
  <2>2. ProbeStep(b) /\ UNCHANGED task
    BY <1>5, <2>1 DEF PoolProbe, ProbeStep, rotVars
  <2> QED
    BY <1>1, <2>2, ProbeFlag, FlagKept
<1>6. CASE RotationTick
  <2>1. \A c \in Rotatable : task'[c].pc = task[c].pc
    BY <1>6 DEF RotationTick, RotationSound, RotationTypeOK, TaskState
  <2>2. Tick
    BY <1>6 DEF RotationTick
  <2> QED
    BY <1>1, <2>1, <2>2, TickFlag, FlagKept
<1> QED
  BY <1>2, <1>3, <1>4, <1>5, <1>6 DEF Rollover, allVars, vars, rotVars

(* Whatever fails, is retried, rolls over or restarts, a bucket is marked  *)
(* as rotating exactly while a task drives its device: none is withheld    *)
(* for ever by a task that is gone, none is served while its ONT reboots.  *)
THEOREM RotationStaysSound == RotationSpec => []RotationSound
<1>1. RotationInit => RotationSound
  <2> SUFFICES ASSUME RotationInit
               PROVE  RotationSound
    OBVIOUS
  <2>1. FlagFollowsTask
    BY ActorAssumption, FreshTypes, TaskTypes DEF RotationInit, Init, FlagFollowsTask, Running
  <2> QED
    BY <2>1, RotationInitType DEF RotationSound
<1>2. RotationSound /\ [RotationNext]_allVars => RotationSound'
  <2> SUFFICES ASSUME RotationSound, [RotationNext]_allVars
               PROVE  RotationSound'
    OBVIOUS
  <2>1. RotationTypeOK'
    BY RotationNextType DEF RotationSound
  <2>2. ASSUME Shutdown \/ Crash
        PROVE  FlagFollowsTask'
    BY <2>2, RestartIsReborn, RestartAgrees DEF RotationSound, RotationTypeOK, RotatorOK
  <2>3. FlagFollowsTask'
    BY <2>2, ReleaseAgrees, TriggerAgrees, TaskAgrees, OtherAgrees
       DEF RotationNext, RunningNext, ReleaseStep
  <2> QED
    BY <2>1, <2>3 DEF RotationSound
<1> QED
  BY <1>1, <1>2, PTL DEF RotationSpec

(* As long as the process lives and the window lasts, the gateway with its *)
(* rotator implements the pool: it starts, fails and finishes rotations    *)
(* only as EgressPool allows an arbitrary rotator to.                      *)
THEOREM PoolRefined == RunningSpec => PoolImplemented
<1>1. RotationInit => RotationTypeOK /\ Init
  BY RotationInitType DEF RotationInit
<1>2. RotationTypeOK /\ [RunningNext]_allVars => RotationTypeOK'
  BY RotationNextType DEF RotationNext
<1>3. RotationTypeOK /\ [RunningNext]_allVars => [Next]_vars
  BY RunningStepsPool DEF allVars
<1> QED
  BY <1>1, <1>2, <1>3, PTL DEF RunningSpec, PoolImplemented, Spec

-----------------------------------------------------------------------------
(* The storm guard *)

(* A completed request leaves no failure streak on its bucket.             *)
LEMMA JudgedOk ==
    ASSUME NEW s \in EgressState, NEW v, v.kind = "ok", NEW mark \in BOOLEAN
    PROVE  Marked(Judged(Freed(s), v), mark).failures = 0
<1> DEFINE f == [Freed(s) EXCEPT !.failures = 0, !.cooldown = 0]
<1>1. Judged(Freed(s), v) = LiftCordonOnSuccess(f)
  BY DEF Judged
<1>2. f \in EgressState /\ f.failures = 0
  BY HelperTypes, ZenonT(60) DEF EgressState
<1> HIDE DEF f
<1>3. LiftCordonOnSuccess(f) \in EgressState /\ LiftCordonOnSuccess(f).failures = 0
  BY <1>2, HelperTypes DEF LiftCordonOnSuccess, EgressState
<1>4. \A t \in EgressState : t.failures = 0 => Marked(t, mark).failures = 0
  BY DEF Marked, EgressState
<1> QED
  BY <1>1, <1>3, <1>4

(* Looking a record up keeps the last result and its age.                  *)
LEMMA CurrentKeepsResult ==
    ASSUME NEW q \in BucketCounts
    PROVE  Current(q).last = q.last /\ Current(q).age = q.age
BY DEF Current, BucketCounts

(* Within MinInterval of a success only the meter fires.                   *)
LEMMA GuardedVerdicts ==
    ASSUME NEW q \in BucketCounts, NEW v, NEW charge,
           q.last = "ok", q.age < MinInterval, Fires(Current(q), v, charge)
    PROVE  v.kind = "ok"
BY CurrentKeepsResult DEF Fires, ShouldRotate

(* Only a release both ends a lease and starts a task.                     *)
LEMMA StartAndRelease ==
    ASSUME RotationTypeOK, [RotationNext]_allVars, NEW b \in Rotatable, NEW r \in Requests,
           ~Running(b), Running(b)', req[r].pc = "leased", req'[r].pc = "released"
    PROVE  \E p \in Requests : ReleaseStep(p)
<1>1. RotatorOK
  BY DEF RotationTypeOK, RotatorOK
<1>2. task'[b].pc # "none" /\ task[b].pc = "none" /\ task' # task /\ req' # req
  BY DEF Running
<1>3. ASSUME NEW c \in Rotatable, AdminRotate(c) \/ RetryFires(c)
      PROVE  req' = req
  BY <1>3 DEF AdminRotate, RetryFires, StartRotation, vars
<1>4. ASSUME NEW c \in Rotatable, TaskStep(c)
      PROVE  req' = req
  BY <1>4 DEF TaskStep, TaskBegins, PostAnswered, PostRefused, PollExpires, GiveUp,
              PollSucceeds, FailRotation, SucceedRotation, vars
<1>5. ASSUME NEW c \in Buckets, ResetLands(c) \/ Redial(c) \/ AgentProbe(c) \/ PoolProbe(c)
      PROVE  task' = task
  BY <1>5 DEF ResetLands, Redial, AgentProbe, PoolProbe, SetDevice, rotVars
<1>6. RotationTick => task'[b].pc = task[b].pc
  BY <1>1 DEF RotationTick, RotatorOK, TaskState
<1>7. Shutdown \/ Crash => task'[b].pc = "none"
  BY <1>1, RestartIsReborn, TaskTypes DEF Reborn
<1>8. \A p \in Requests : ServeStep(p) => task' = task
  BY DEF ServeStep, rotVars
<1>9. Rollover \/ UNCHANGED allVars => task' = task
  BY DEF Rollover, allVars, rotVars
<1> QED
  BY <1>2, <1>3, <1>4, <1>5, <1>6, <1>7, <1>8, <1>9 DEF RotationNext, RunningNext

(* A fresh address is left alone: within MinInterval of a rotation that    *)
(* worked no verdict reboots the ONT again, only the meter may.            *)
THEOREM StormGuarded == RotationSpec => StormGuard
<1>1. RotationTypeOK /\ [RotationNext]_allVars =>
        [\A b \in Rotatable :
           /\ ~Running(b) /\ Running(b)'
           /\ \E r \in Requests : req[r].pc = "leased" /\ req'[r].pc = "released"
           /\ rec[b].last = "ok" /\ rec[b].age < MinInterval
           => st'[b].failures = 0]_allVars
  <2> SUFFICES ASSUME RotationTypeOK, [RotationNext]_allVars, NEW b \in Rotatable,
                      ~Running(b), Running(b)',
                      NEW r \in Requests, req[r].pc = "leased", req'[r].pc = "released",
                      rec[b].last = "ok", rec[b].age < MinInterval
               PROVE  st'[b].failures = 0
    OBVIOUS
  <2>1. PICK p \in Requests, v \in Verdicts, charge \in Charges : ReleaseObserved(p, v, charge)
    BY StartAndRelease DEF ReleaseStep
  <2> DEFINE d == req[p].bucket
             q == IF Metered(v) THEN Current(rec[d]) ELSE rec[d]
             counted == Recorded(q, v, charge)
  <2>2. /\ d \in Rotatable /\ Fires(q, v, charge)
        /\ Release(p, v, TRUE) /\ StartTask(d, counted) /\ req[p].pc = "leased"
    BY <2>1 DEF ReleaseObserved, Running
  <2>3. d = b
    BY <2>2 DEF StartTask, Running, RotationTypeOK
  <2>4. Metered(v)
    BY <2>2 DEF Fires, Metered
  <2>5. v.kind = "ok"
    BY <2>2, <2>3, <2>4, GuardedVerdicts DEF RotationTypeOK
  <2>6. b \in Buckets /\ st[b] \in EgressState /\ st \in [Buckets -> EgressState]
    BY ActorAssumption DEF RotationTypeOK, TypeOK
  <2>7. st' = [st EXCEPT ![b] = Marked(Judged(Freed(st[b]), v), TRUE)]
    BY <2>2, <2>3 DEF Release
  <2> QED
    BY <2>5, <2>6, <2>7, JudgedOk
<1>2. RotationInit => RotationTypeOK
  BY RotationInitType
<1>3. RotationTypeOK /\ [RotationNext]_allVars => RotationTypeOK'
  BY RotationNextType
<1> QED
  BY <1>1, <1>2, <1>3, PTL DEF RotationSpec, StormGuard

-----------------------------------------------------------------------------
(* The reboot budget *)

(* The attempts a record has counted in the window that runs now.          *)
Spent(q) == IF q.old THEN 0 ELSE q.rotations

(* Of the rules of counters.py only the end of a window gives attempts     *)
(* back, and an attempt below the cap is counted in full.                  *)
LEMMA SpentRules ==
    ASSUME NEW q \in BucketCounts
    PROVE  /\ Spent(q) \in 0..MaxRotations
           /\ ~Current(q).old /\ Spent(Current(q)) = Spent(q)
           /\ Current(q).rotations = Spent(q)
           /\ Spent(Loaded(q)) = Spent(q)
           /\ Spent(Succeeded(q)) = Spent(q)
           /\ Spent(FailedAttempt(q)) = Spent(q)
           /\ Spent(Older(q)) = Spent(q)
           /\ ~q.old => Spent(Attempted(q)) = Smaller(q.rotations + 1, MaxRotations)
<1> USE RotationAssumption DEF Spent, BucketCounts
<1>1. Spent(q) \in 0..MaxRotations
  OBVIOUS
<1>2. ~Current(q).old /\ Spent(Current(q)) = Spent(q) /\ Current(q).rotations = Spent(q)
  BY DEF Current
<1>3. Spent(Loaded(q)) = Spent(q)
  BY DEF Loaded, NoCounts
<1>4. Spent(Succeeded(q)) = Spent(q) /\ Spent(FailedAttempt(q)) = Spent(q)
  BY DEF Succeeded, FailedAttempt
<1>5. Spent(Older(q)) = Spent(q)
  BY DEF Older
<1>6. ~q.old => Spent(Attempted(q)) = Smaller(q.rotations + 1, MaxRotations)
  BY DEF Attempted
<1> QED
  BY <1>1, <1>2, <1>3, <1>4, <1>5, <1>6

LEMMA SpentRecorded ==
    ASSUME NEW q \in BucketCounts, NEW v, NEW charge \in Charges
    PROVE  /\ Spent(Recorded(q, v, charge)) = Spent(q)
           /\ Recorded(q, v, charge).old = q.old
           /\ Recorded(q, v, charge).rotations = q.rotations
BY DEF Recorded, Spent, BucketCounts

(* n attempts on b are accounted for in memory and on disk.                *)
Backed(b, n) == n <= Spent(rec[b]) /\ n <= Spent(disk[b])

(* Starting a task saves one attempt more, and forgets none.               *)
LEMMA StartBacked ==
    ASSUME RotatorOK, NEW b \in Rotatable, NEW q \in BucketCounts, ~q.old,
           Spent(rec[b]) <= q.rotations, StartTask(b, q),
           NEW c \in Rotatable, NEW n \in Nat, Backed(c, n)
    PROVE  /\ Backed(c, n)'
           /\ c = b /\ q.rotations < MaxRotations => Backed(c, n + 1)'
<1>1. rec' = [rec EXCEPT ![b] = Attempted(q)] /\ disk' = rec'
  BY DEF StartTask
<1>2. Spent(Attempted(q)) = Smaller(q.rotations + 1, MaxRotations)
  BY SpentRules
<1>3. q.rotations \in 0..MaxRotations /\ MaxRotations \in Nat
  BY RotationAssumption DEF BucketCounts
<1>4. Spent(rec[c]) \in 0..MaxRotations
  BY SpentRules DEF RotatorOK
<1>5. CASE c = b
  <2>1. rec'[c] = Attempted(q) /\ disk'[c] = Attempted(q)
    BY <1>1, <1>5 DEF RotatorOK
  <2>2. n <= q.rotations
    BY <1>3, <1>4, <1>5 DEF Backed
  <2>3. n <= Spent(Attempted(q)) /\ (q.rotations < MaxRotations => n + 1 <= Spent(Attempted(q)))
    BY <1>2, <1>3, <2>2 DEF Smaller
  <2> QED
    BY <2>1, <2>3 DEF Backed
<1>6. CASE c # b
  BY <1>1, <1>6 DEF RotatorOK, Backed
<1> QED
  BY <1>5, <1>6

LEMMA ReleaseBacked ==
    ASSUME RotatorOK, NEW r \in Requests, NEW v \in Verdicts, NEW charge \in Charges,
           ReleaseObserved(r, v, charge),
           NEW c \in Rotatable, NEW n \in Nat, Backed(c, n)
    PROVE  /\ Backed(c, n)'
           /\ c = req[r].bucket /\ ~Running(c) /\ task'[c].pc # "none" => Backed(c, n + 1)'
<1> DEFINE b == req[r].bucket
           q == IF Metered(v) THEN Current(rec[b]) ELSE rec[b]
           counted == Recorded(q, v, charge)
<1>1. ASSUME b \in Rotatable
      PROVE  /\ counted \in BucketCounts /\ Spent(counted) = Spent(rec[b])
             /\ counted.old = q.old /\ counted.rotations = q.rotations
  <2>1. q \in BucketCounts /\ Spent(q) = Spent(rec[b])
    BY <1>1, CountsTypes, SpentRules DEF RotatorOK
  <2> QED
    BY <2>1, RecordedType, SpentRecorded
<1>2. CASE /\ b \in Rotatable /\ Fires(q, v, charge) /\ Granted(b, counted)
           /\ StartTask(b, counted)
  <2>1. Metered(v)
    BY <1>2 DEF Fires, Metered
  <2>2. ~counted.old /\ counted.rotations = Spent(rec[b])
    BY <1>1, <1>2, <2>1, SpentRules DEF RotatorOK
  <2>3. Spent(rec[b]) <= counted.rotations
    BY <1>1, <1>2, <2>2, SMTT(30) DEF BucketCounts
  <2>4. counted.rotations < MaxRotations
    BY <1>2 DEF Granted
  <2> HIDE DEF counted, b
  <2>5. Backed(c, n)' /\ (c = b => Backed(c, n + 1)')
    BY <1>1, <1>2, <2>2, <2>3, <2>4, StartBacked
  <2> QED
    BY <2>5 DEF b
<1>3. CASE /\ rec' = [a \in Rotatable |-> IF a = b THEN counted ELSE rec[a]]
           /\ disk' = (IF v.kind = "ok" THEN rec' ELSE disk)
           /\ UNCHANGED <<task, timer, dev, events>>
  <2>1. Spent(rec'[c]) = Spent(rec[c])
    BY <1>1, <1>3
  <2>2. Spent(disk'[c]) \in {Spent(rec[c]), Spent(disk[c])}
    BY <1>3, <2>1
  <2> QED
    BY <1>3, <2>1, <2>2 DEF Backed, Running
<1> QED
  BY <1>2, <1>3 DEF ReleaseObserved

LEMMA TriggerBacked ==
    ASSUME RotatorOK, NEW b \in Rotatable, AdminRotate(b) \/ RetryFires(b),
           NEW c \in Rotatable, NEW n \in Nat, Backed(c, n)
    PROVE  /\ Backed(c, n)'
           /\ RetryFires(b) /\ c = b /\ ~Running(c) /\ task'[c].pc # "none" => Backed(c, n + 1)'
<1> DEFINE q == Current(rec[b])
<1>1. q \in BucketCounts /\ ~q.old /\ q.rotations = Spent(rec[b]) /\ Spent(q) = Spent(rec[b])
  BY CountsTypes, SpentRules DEF RotatorOK
<1>2. Spent(rec[b]) <= q.rotations
  BY <1>1 DEF BucketCounts
<1> HIDE DEF q
<1>3. CASE StartTask(b, q) /\ AdminRotate(b) /\ ~RetryFires(b)
  BY <1>1, <1>2, <1>3, StartBacked
<1>4. CASE StartTask(b, q) /\ Granted(b, q)
  BY <1>1, <1>2, <1>4, StartBacked DEF Granted
<1>5. CASE /\ rec' = (IF Running(b) THEN rec ELSE [rec EXCEPT ![b] = q])
           /\ UNCHANGED <<vars, disk, task, dev, events>>
  <2>1. Spent(rec'[c]) = Spent(rec[c])
    BY <1>1, <1>5 DEF RotatorOK
  <2> QED
    BY <1>5, <2>1 DEF Backed, Running
<1> QED
  BY <1>3, <1>4, <1>5 DEF AdminRotate, RetryFires, q

LEMMA TaskBacked ==
    ASSUME RotatorOK, NEW b \in Rotatable, TaskStep(b),
           NEW c \in Rotatable, NEW n \in Nat, Backed(c, n)
    PROVE  Backed(c, n)'
<1> DEFINE q == Current(rec[b])
<1>1. q \in BucketCounts /\ Spent(q) = Spent(rec[b])
  BY CountsTypes, SpentRules DEF RotatorOK
<1>2. Spent(Succeeded(q)) = Spent(rec[b]) /\ Spent(FailedAttempt(q)) = Spent(rec[b])
  BY <1>1, SpentRules
<1> HIDE DEF q
<1>3. CASE UNCHANGED <<rec, disk>>
  BY <1>3 DEF Backed
<1>4. ASSUME NEW p, Spent(p) = Spent(rec[b]), rec' = [rec EXCEPT ![b] = p], disk' = rec'
      PROVE  Backed(c, n)'
  BY <1>4 DEF RotatorOK, Backed
<1>5. CASE GiveUp(b)
  BY <1>2, <1>4, <1>5 DEF GiveUp, q
<1>6. CASE PollSucceeds(b)
  BY <1>2, <1>4, <1>6 DEF PollSucceeds, q
<1> QED
  BY <1>3, <1>5, <1>6 DEF TaskStep, TaskBegins, PostAnswered, PostRefused, PollExpires

(* A restart loads what the snapshot has counted, an orderly one after     *)
(* saving the failures of the attempts it cancelled.                       *)
LEMMA RestartBacked ==
    ASSUME RotatorOK, Shutdown \/ Crash,
           NEW c \in Rotatable, NEW n \in Nat, Backed(c, n)
    PROVE  Backed(c, n)'
<1>1. ASSUME NEW snapshot \in [Rotatable -> BucketCounts], Reborn(snapshot),
             Spent(snapshot[c]) \in {Spent(rec[c]), Spent(disk[c])}
      PROVE  Backed(c, n)'
  BY <1>1, SpentRules DEF Reborn, Backed
<1>2. CASE Reborn(disk)
  BY <1>1, <1>2 DEF RotatorOK
<1>3. CASE Shutdown /\ ~Reborn(disk)
  <2> DEFINE noted(recorded) ==
               [b \in Rotatable |-> IF b \in recorded THEN FailedAttempt(Current(rec[b]))
                                    ELSE rec[b]]
  <2>1. PICK recorded \in SUBSET Rotatable : Reborn(noted(recorded))
    BY <1>3 DEF Shutdown
  <2>2. \A b \in Rotatable :
            /\ rec[b] \in BucketCounts /\ FailedAttempt(Current(rec[b])) \in BucketCounts
            /\ Spent(FailedAttempt(Current(rec[b]))) = Spent(rec[b])
    BY CountsTypes, SpentRules DEF RotatorOK
  <2>3. /\ noted(recorded) \in [Rotatable -> BucketCounts]
        /\ Spent(noted(recorded)[c]) = Spent(rec[c])
    BY <2>2
  <2> QED
    BY <1>1, <2>1, <2>3
<1> QED
  BY <1>2, <1>3 DEF Crash

LEMMA OtherBacked ==
    ASSUME RotatorOK,
           \/ \E r \in Requests : ServeStep(r)
           \/ \E b \in Buckets : ResetLands(b) \/ Redial(b) \/ AgentProbe(b) \/ PoolProbe(b)
           \/ RotationTick
           \/ UNCHANGED <<rec, disk>>,
           NEW c \in Rotatable, NEW n \in Nat, Backed(c, n)
    PROVE  Backed(c, n)'
<1>1. CASE UNCHANGED <<rec, disk>>
  BY <1>1 DEF Backed
<1>2. CASE RotationTick
  <2>1. rec'[c] = Older(rec[c]) /\ disk'[c] = Older(disk[c])
    BY <1>2 DEF RotationTick
  <2> QED
    BY <2>1, SpentRules DEF Backed, RotatorOK
<1>3. ASSUME NEW b \in Buckets, ResetLands(b) \/ Redial(b) \/ AgentProbe(b) \/ PoolProbe(b)
      PROVE  UNCHANGED <<rec, disk>>
  BY <1>3 DEF ResetLands, Redial, AgentProbe, PoolProbe, SetDevice, rotVars
<1> QED
  BY <1>1, <1>2, <1>3 DEF ServeStep, rotVars

(* Watching the attempts takes nothing away from the rotator's steps.      *)
LEMMA ObservedSteps ==
    ASSUME [RotationHNext]_<<allVars, rotHistories>>
    PROVE  [RotationNext]_allVars
<1>1. \A r \in Requests : ObservedRelease(r) => ReleaseStep(r)
  BY DEF ObservedRelease, ReleaseStep
<1>2. \A b \in Rotatable : ObservedRetry(b) \/ ObservedEnd(b) => RetryFires(b) \/ TaskStep(b)
  BY DEF ObservedRetry, ObservedEnd, TaskStep
<1>3. RotationHNext => RotationNext
  BY <1>1, <1>2 DEF RotationHNext, RotationNext, RunningNext, TaskStep
<1> QED
  BY <1>3

(* What makes the budget inductive: every attempt the gateway's triggers   *)
(* started is counted, in memory and in the snapshot, before the reboot.   *)
BudgetInv ==
    /\ RotationTypeOK
    /\ attempts \in [Rotatable -> 0..MaxRotations + 1]
    /\ \A b \in Rotatable : Backed(b, attempts[b])

LEMMA BudgetStep ==
    ASSUME BudgetInv, [RotationHNext]_<<allVars, rotHistories>>
    PROVE  BudgetInv'
<1>1. RotatorOK /\ RotationTypeOK' /\ MaxRotations \in Nat
  BY ObservedSteps, RotationNextType, RotationAssumption DEF BudgetInv, RotationTypeOK, RotatorOK
<1>2. \A c \in Rotatable : attempts[c] \in Nat /\ Backed(c, attempts[c])
  BY <1>1 DEF BudgetInv
<1>3. ASSUME UNCHANGED attempts, \A c \in Rotatable, n \in Nat : Backed(c, n) => Backed(c, n)'
      PROVE  BudgetInv'
  BY <1>1, <1>2, <1>3 DEF BudgetInv, Backed
<1>4. ASSUME NEW b \in Rotatable, Counted(b),
             \A c \in Rotatable, n \in Nat :
                Backed(c, n) => Backed(c, n)' /\ (c = b => Backed(c, n + 1)')
      PROVE  BudgetInv'
  <2>1. \A c \in Rotatable : Spent(rec'[c]) \in 0..MaxRotations
    BY <1>1, SpentRules DEF RotationTypeOK
  <2>2. attempts' = [attempts EXCEPT ![b] = Smaller(attempts[b] + 1, MaxRotations + 1)]
    BY <1>4 DEF Counted
  <2>3. /\ attempts' \in [Rotatable -> 0..MaxRotations + 1]
        /\ attempts'[b] <= attempts[b] + 1
    BY <1>1, <2>2 DEF BudgetInv, Smaller
  <2>4. ASSUME NEW c \in Rotatable
        PROVE  attempts'[c] <= Spent(rec'[c]) /\ attempts'[c] <= Spent(disk'[c])
    <3>1. disk'[c] \in BucketCounts
      BY <1>1 DEF RotationTypeOK
    <3>2. Spent(disk'[c]) \in Nat /\ Spent(rec'[c]) \in Nat
      BY <1>1, <2>1, <3>1, SpentRules
    <3>3. CASE c = b
      <4>1. attempts[b] + 1 <= Spent(rec'[b]) /\ attempts[b] + 1 <= Spent(disk'[b])
        BY <1>2, <1>4 DEF Backed
      <4> QED
        BY <1>2, <2>3, <3>2, <3>3, <4>1
    <3>4. CASE c # b
      BY <1>2, <1>4, <2>2, <3>4 DEF BudgetInv, Backed
    <3> QED
      BY <3>3, <3>4
  <2> QED
    BY <1>1, <2>3, <2>4 DEF BudgetInv, Backed
<1>5. ASSUME NEW r \in Requests, ObservedRelease(r)
      PROVE  BudgetInv'
  <2>1. PICK v \in Verdicts, charge \in Charges :
          /\ ReleaseObserved(r, v, charge)
          /\ IF req[r].bucket \in Rotatable /\ ~Running(req[r].bucket)
                /\ task'[req[r].bucket].pc # "none"
             THEN Counted(req[r].bucket)
             ELSE UNCHANGED attempts
    BY <1>5 DEF ObservedRelease, rotHistories
  <2>2. \A c \in Rotatable, n \in Nat : Backed(c, n) =>
           /\ Backed(c, n)'
           /\ c = req[r].bucket /\ ~Running(c) /\ task'[c].pc # "none" => Backed(c, n + 1)'
    BY <1>1, <2>1, ReleaseBacked
  <2>3. CASE /\ req[r].bucket \in Rotatable /\ ~Running(req[r].bucket)
             /\ task'[req[r].bucket].pc # "none"
    BY <1>4, <2>1, <2>2, <2>3
  <2> QED
    BY <1>3, <2>1, <2>2, <2>3
<1>6. ASSUME NEW b \in Rotatable, ObservedRetry(b)
      PROVE  BudgetInv'
  <2>1. RetryFires(b)
    BY <1>6 DEF ObservedRetry
  <2>2. \A c \in Rotatable, n \in Nat : Backed(c, n) =>
           /\ Backed(c, n)'
           /\ c = b /\ ~Running(c) /\ task'[c].pc # "none" => Backed(c, n + 1)'
    BY <1>1, <2>1, TriggerBacked
  <2>3. CASE ~Running(b) /\ task'[b].pc # "none"
    BY <1>4, <1>6, <2>2, <2>3 DEF ObservedRetry
  <2> QED
    BY <1>3, <1>6, <2>2, <2>3 DEF ObservedRetry
<1>7. ASSUME NEW b \in Rotatable,
             ObservedEnd(b) \/ ((AdminRotate(b) \/ TaskBegins(b) \/ PostAnswered(b))
                                /\ UNCHANGED rotHistories)
      PROVE  BudgetInv'
  <2>1. UNCHANGED attempts /\ (AdminRotate(b) \/ TaskStep(b))
    BY <1>7 DEF ObservedEnd, TaskStep, rotHistories
  <2>2. \A c \in Rotatable, n \in Nat : Backed(c, n) => Backed(c, n)'
    BY <1>1, <2>1, TriggerBacked, TaskBacked
  <2> QED
    BY <1>3, <2>1, <2>2
<1>8. CASE /\ \/ \E r \in Requests : ServeStep(r)
              \/ \E b \in Buckets : ResetLands(b) \/ Redial(b) \/ AgentProbe(b) \/ PoolProbe(b)
              \/ RotationTick
              \/ UNCHANGED <<rec, disk>>
           /\ UNCHANGED attempts
  BY <1>1, <1>3, <1>8, OtherBacked
<1>9. CASE (Shutdown \/ Crash) /\ UNCHANGED attempts
  BY <1>1, <1>3, <1>9, RestartBacked
<1>10. CASE Rollover /\ attempts' = [b \in Rotatable |-> 0]
  <2>1. \A b \in Rotatable : Spent(rec'[b]) = 0 /\ Spent(disk'[b]) = 0
    BY <1>1, <1>10 DEF Rollover, Spent, RotatorOK, BucketCounts
  <2> QED
    BY <1>1, <1>10, <2>1 DEF BudgetInv, Backed
<1> QED
  BY <1>5, <1>6, <1>7, <1>8, <1>9, <1>10
     DEF RotationHNext, rotHistories, allVars, rotVars

(* Across retries, restarts and crashes the gateway's own triggers reboot  *)
(* an ONT at most MaxRotations times in a window.                          *)
THEOREM BudgetKept == RotationHSpec => []RebootBudget
<1>1. RotationHInit => BudgetInv
  <2> SUFFICES ASSUME RotationHInit
               PROVE  BudgetInv
    OBVIOUS
  <2>1. RotationTypeOK
    BY RotationInitType DEF RotationHInit
  <2>2. \A b \in Rotatable : Spent(rec[b]) = 0 /\ Spent(disk[b]) = 0
    BY DEF RotationHInit, RotationInit, NoCounts, Spent
  <2> QED
    BY <2>1, <2>2, RotationAssumption DEF RotationHInit, BudgetInv, Backed
<1>2. BudgetInv /\ [RotationHNext]_<<allVars, rotHistories>> => BudgetInv'
  BY BudgetStep
<1>3. BudgetInv => RebootBudget
  <2> SUFFICES ASSUME BudgetInv, NEW b \in Rotatable
               PROVE  attempts[b] <= MaxRotations
    BY DEF RebootBudget
  <2>1. Spent(rec[b]) \in 0..MaxRotations
    BY SpentRules DEF BudgetInv, RotationTypeOK
  <2> QED
    BY <2>1, RotationAssumption DEF BudgetInv, Backed
<1> QED
  BY <1>1, <1>2, <1>3, PTL DEF RotationHSpec

-----------------------------------------------------------------------------
(* The owner of a latch *)

(* A closed latch that nobody needs to reopen: the attempt failed and may  *)
(* be retried, or the window has no attempt left.                          *)
Settled(q) == q.triggered /\ ~q.old => q.last = "failed" \/ q.rotations = MaxRotations

Owned(b, q) == Running(b) \/ Settled(q)

LEMMA SettledRules ==
    ASSUME NEW q \in BucketCounts
    PROVE  /\ Settled(NoCounts)
           /\ Settled(Succeeded(Current(q)))
           /\ Settled(FailedAttempt(Current(q)))
           /\ Settled([q EXCEPT !.old = TRUE])
           /\ Settled(q) => /\ Settled(Current(q)) /\ Settled(Older(q)) /\ Settled(Loaded(q))
<1> USE DEF Settled, BucketCounts
<1>1. Settled(NoCounts)
  BY DEF NoCounts
<1>2. Current(q) \in BucketCounts
  BY CountsTypes
<1>3. Settled(Succeeded(Current(q))) /\ Settled(FailedAttempt(Current(q)))
  BY <1>2 DEF Succeeded, FailedAttempt
<1>4. Settled([q EXCEPT !.old = TRUE])
  OBVIOUS
<1>5. Settled(q) => Settled(Current(q))
  BY DEF Current
<1>6. Settled(q) => Settled(Older(q))
  BY DEF Older
<1>7. Settled(q) => Settled(Loaded(q))
  BY <1>1 DEF Loaded
<1> QED
  BY <1>1, <1>3, <1>4, <1>5, <1>6, <1>7

(* The meter closes a latch without starting an attempt only when one runs *)
(* already or none is left.                                                *)
LEMMA RecordedOwned ==
    ASSUME NEW b, NEW q \in BucketCounts, NEW v, NEW charge \in Charges, Owned(b, q),
           ~(Fires(q, v, charge) /\ Granted(b, Recorded(q, v, charge)))
    PROVE  Owned(b, Recorded(q, v, charge))
<1> DEFINE p == Recorded(q, v, charge)
<1>1. p \in BucketCounts /\ p.rotations = q.rotations /\ p.old = q.old /\ p.last = q.last
  BY RecordedType DEF Recorded, BucketCounts
<1>2. p.triggered => q.triggered \/ Fires(q, v, charge)
  BY DEF Recorded, BucketCounts
<1>3. ~Granted(b, p) => Running(b) \/ p.rotations = MaxRotations
  BY <1>1, RotationAssumption DEF Granted, BucketCounts
<1> HIDE DEF p
<1> QED
  BY <1>1, <1>2, <1>3 DEF Owned, Settled, p

(* Until the window of its row ends the snapshot holds what memory holds:  *)
(* the changes that are not saved are those of a rollover.                 *)
Saved == \A b \in Rotatable : disk[b].old \/ rec[b] = disk[b]

(* A step that takes the owner of no latch.                                *)
Carried == \A b \in Rotatable : Owned(b, rec[b]) => Owned(b, rec[b])'

LEMMA StartKeeps ==
    ASSUME RotatorOK, NEW b \in Rotatable, NEW q, StartTask(b, q)
    PROVE  Saved' /\ Carried
<1>1. Saved'
  BY DEF StartTask, Saved
<1>2. Running(b)'
  BY TaskTypes DEF StartTask, Running, RotatorOK
<1>3. ASSUME NEW c \in Rotatable, c # b
      PROVE  rec'[c] = rec[c] /\ task'[c] = task[c]
  BY <1>3 DEF StartTask, RotatorOK
<1> QED
  BY <1>1, <1>2, <1>3 DEF Carried, Owned, Running

LEMMA ReleaseKeeps ==
    ASSUME RotatorOK, Saved, NEW r \in Requests, ReleaseStep(r)
    PROVE  Saved' /\ Carried
<1>1. PICK v \in Verdicts, charge \in Charges : ReleaseObserved(r, v, charge)
  BY DEF ReleaseStep
<1> DEFINE b == req[r].bucket
           q == IF Metered(v) THEN Current(rec[b]) ELSE rec[b]
           counted == Recorded(q, v, charge)
           granted == b \in Rotatable /\ Fires(q, v, charge) /\ Granted(b, counted)
<1>2. CASE b \in Rotatable /\ StartTask(b, counted)
  BY <1>2, StartKeeps
<1>3. CASE /\ ~granted
           /\ rec' = [c \in Rotatable |-> IF c = b THEN counted ELSE rec[c]]
           /\ disk' = (IF v.kind = "ok" THEN rec' ELSE disk)
           /\ UNCHANGED <<task, timer, dev, events>>
  <2>1. ASSUME b \in Rotatable, Owned(b, rec[b])
        PROVE  Owned(b, counted)
    <3>1. q \in BucketCounts /\ Owned(b, q)
      BY <2>1, CountsTypes, SettledRules DEF RotatorOK, Owned
    <3> QED
      BY <1>3, <2>1, <3>1, RecordedOwned
  <2>2. ASSUME NEW c \in Rotatable, Owned(c, rec[c])
        PROVE  Owned(c, rec'[c])
    BY <1>3, <2>1, <2>2
  <2>3. Carried
    BY <1>3, <2>2 DEF Carried, Owned, Running
  <2>4. ASSUME v.kind # "ok", b \in Rotatable
        PROVE  disk[b].old \/ counted = disk[b]
    BY <2>4 DEF Saved, Recorded, Current
  <2>5. Saved'
    BY <1>3, <2>4 DEF Saved
  <2> QED
    BY <2>3, <2>5
<1> QED
  BY <1>1, <1>2, <1>3 DEF ReleaseObserved

LEMMA TriggerKeeps ==
    ASSUME RotatorOK, Saved, NEW b \in Rotatable, AdminRotate(b) \/ RetryFires(b)
    PROVE  Saved' /\ Carried
<1> DEFINE q == Current(rec[b])
<1>1. CASE StartTask(b, q)
  BY <1>1, StartKeeps
<1>2. CASE /\ rec' = (IF Running(b) THEN rec ELSE [rec EXCEPT ![b] = q])
           /\ UNCHANGED <<vars, disk, task, dev, events>>
  <2>1. Owned(b, rec[b]) => Owned(b, q)
    BY SettledRules DEF Owned, RotatorOK
  <2>2. disk[b].old \/ q = disk[b]
    BY DEF Saved, Current
  <2> HIDE DEF q
  <2>3. \A c \in Rotatable : Owned(c, rec[c]) => Owned(c, rec'[c])
    BY <1>2, <2>1 DEF RotatorOK
  <2>4. Saved'
    BY <1>2, <2>2 DEF Saved, RotatorOK
  <2> QED
    BY <1>2, <2>3, <2>4 DEF Carried, Owned, Running
<1> QED
  BY <1>1, <1>2 DEF AdminRotate, RetryFires

LEMMA TaskKeeps ==
    ASSUME RotatorOK, Saved, NEW b \in Rotatable, TaskStep(b)
    PROVE  Saved' /\ Carried
<1>1. ASSUME UNCHANGED <<rec, disk>>, Running(b), NEW t, t.pc # "none",
             task' = [task EXCEPT ![b] = t]
      PROVE  Saved' /\ Carried
  BY <1>1 DEF Saved, Carried, Owned, Running, RotatorOK
<1>2. ASSUME NEW p, Settled(p), rec' = [rec EXCEPT ![b] = p], disk' = rec',
             task' = [task EXCEPT ![b] = NoTask]
      PROVE  Saved' /\ Carried
  <2>1. \A c \in Rotatable \ {b} : rec'[c] = rec[c] /\ task'[c] = task[c]
    BY <1>2 DEF RotatorOK
  <2>2. rec'[b] = p
    BY <1>2 DEF RotatorOK
  <2> QED
    BY <1>2, <2>1, <2>2 DEF Saved, Carried, Owned, Running
<1>3. task[b] \in TaskState /\ rec[b] \in BucketCounts
  BY DEF RotatorOK
<1>4. CASE TaskBegins(b)
  <2>1. [task[b] EXCEPT !.pc = "posting", !.from = st[b].ip].pc = "posting"
    BY <1>3 DEF TaskState
  <2> QED
    BY <1>1, <1>4, <2>1 DEF TaskBegins, Running
<1>5. CASE PostAnswered(b)
  <2>1. [task[b] EXCEPT !.pc = "polling", !.left = PollTime].pc = "polling"
    BY <1>3 DEF TaskState
  <2> QED
    BY <1>1, <1>5, <2>1 DEF PostAnswered, Running
<1>6. CASE GiveUp(b)
  BY <1>2, <1>3, <1>6, SettledRules DEF GiveUp
<1>7. CASE PollSucceeds(b)
  BY <1>2, <1>3, <1>7, SettledRules DEF PollSucceeds
<1> QED
  BY <1>4, <1>5, <1>6, <1>7 DEF TaskStep, PostRefused, PollExpires

LEMMA OtherKeeps ==
    ASSUME RotatorOK, Saved,
           \/ \E r \in Requests : ServeStep(r)
           \/ \E b \in Buckets : ResetLands(b) \/ Redial(b) \/ AgentProbe(b) \/ PoolProbe(b)
           \/ RotationTick
           \/ Rollover
           \/ UNCHANGED allVars
    PROVE  Saved' /\ Carried
<1>1. CASE UNCHANGED <<rec, disk, task>>
  BY <1>1 DEF Saved, Carried, Owned, Running
<1>2. CASE RotationTick
  <2>1. ASSUME NEW c \in Rotatable
        PROVE  /\ rec'[c] = Older(rec[c]) /\ disk'[c] = Older(disk[c])
               /\ task'[c].pc = task[c].pc
    BY <1>2 DEF RotationTick, RotatorOK, TaskState
  <2>2. ASSUME NEW c \in Rotatable
        PROVE  /\ Settled(rec[c]) => Settled(rec'[c])
               /\ Running(c) => Running(c)'
    BY <2>1, SettledRules DEF Running, RotatorOK
  <2>3. Carried
    BY <2>2, SMTT(30) DEF Carried, Owned, Settled
  <2>4. ASSUME NEW c \in Rotatable
        PROVE  disk'[c].old \/ rec'[c] = disk'[c]
    <3>1. CASE disk[c].old
      BY <2>1, <3>1 DEF Older, RotatorOK, BucketCounts
    <3>2. CASE rec[c] = disk[c]
      BY <2>1, <3>2, Zenon
    <3> QED
      BY <3>1, <3>2 DEF Saved
  <2> QED
    BY <2>3, <2>4 DEF Saved
<1>3. CASE Rollover
  <2>1. ASSUME NEW c \in Rotatable
        PROVE  disk'[c].old /\ Settled(rec'[c])
    <3>1. rec'[c] = [rec[c] EXCEPT !.old = TRUE] /\ disk'[c] = [disk[c] EXCEPT !.old = TRUE]
      BY <1>3 DEF Rollover
    <3>2. rec[c] \in BucketCounts /\ disk[c] \in BucketCounts
      BY DEF RotatorOK
    <3>3. Settled([rec[c] EXCEPT !.old = TRUE])
      BY <3>2, SettledRules
    <3>4. [disk[c] EXCEPT !.old = TRUE].old
      BY <3>2 DEF BucketCounts
    <3> QED
      BY <3>1, <3>3, <3>4
  <2> QED
    BY <2>1 DEF Saved, Carried, Owned, Settled
<1>4. ASSUME NEW b \in Buckets, ResetLands(b) \/ Redial(b) \/ AgentProbe(b) \/ PoolProbe(b)
      PROVE  UNCHANGED <<rec, disk, task>>
  BY <1>4 DEF ResetLands, Redial, AgentProbe, PoolProbe, SetDevice, rotVars
<1> QED
  BY <1>1, <1>2, <1>3, <1>4 DEF ServeStep, rotVars, allVars

(* A new process finds its latches as the snapshot has them.               *)
LEMMA RebornKeeps ==
    ASSUME NEW snapshot \in [Rotatable -> BucketCounts], Reborn(snapshot)
    PROVE  /\ Saved'
           /\ \A b \in Rotatable : Settled(snapshot[b]) => Owned(b, rec[b])'
<1>1. ASSUME NEW b \in Rotatable
      PROVE  /\ disk'[b] = snapshot[b] /\ rec'[b] = Loaded(snapshot[b])
             /\ Settled(snapshot[b]) => Settled(rec'[b])
  BY SettledRules DEF Reborn
<1> QED
  BY <1>1 DEF Saved, Loaded, Owned, Settled

(* A restart without a record of the attempts it cancels takes the owner   *)
(* of no bucket that was at rest.                                          *)
LEMMA RestartFromDisk ==
    ASSUME RotatorOK, Saved, Reborn(disk), NEW b \in Rotatable, Owned(b, rec[b]), ~Running(b)
    PROVE  Owned(b, rec[b])'
<1>1. Settled(disk[b])
  BY DEF Saved, Owned, Settled
<1> QED
  BY <1>1, RebornKeeps DEF RotatorOK

(* What aclose records: every other latch keeps the owner it had.          *)
LEMMA ShutdownKeeps ==
    ASSUME RotatorOK, Saved, Shutdown
    PROVE  /\ Saved'
           /\ \A b \in Rotatable :
                Owned(b, rec[b]) /\ ~Owned(b, rec[b])' =>
                   /\ Running(b)
                   /\ \E c \in Rotatable \ {b} : Running(c) /\ rec'[c].last = "failed"
<1> DEFINE cancelled == {b \in Rotatable : Running(b)}
           noted(recorded) ==
               [b \in Rotatable |-> IF b \in recorded THEN FailedAttempt(Current(rec[b]))
                                    ELSE rec[b]]
<1>1. CASE cancelled = {} /\ Reborn(disk)
  <2>1. Saved'
    BY <1>1, RebornKeeps DEF RotatorOK
  <2> QED
    BY <1>1, <2>1, RestartFromDisk
<1>2. ASSUME NEW recorded \in (SUBSET cancelled) \ {{}}, Reborn(noted(recorded))
      PROVE  /\ Saved'
             /\ \A b \in Rotatable :
                  Owned(b, rec[b]) /\ ~Owned(b, rec[b])' =>
                     /\ Running(b)
                     /\ \E c \in Rotatable \ {b} : Running(c) /\ rec'[c].last = "failed"
  <2>1. ASSUME NEW b \in Rotatable
        PROVE  /\ FailedAttempt(Current(rec[b])) \in BucketCounts
               /\ Settled(FailedAttempt(Current(rec[b])))
               /\ ~FailedAttempt(Current(rec[b])).old
               /\ FailedAttempt(Current(rec[b])).last = "failed"
    <3>1. rec[b] \in BucketCounts /\ Current(rec[b]) \in BucketCounts
      BY CountsTypes DEF RotatorOK
    <3>2. ~Current(rec[b]).old
      BY <3>1 DEF Current, BucketCounts
    <3> QED
      BY <3>1, <3>2, CountsTypes, SettledRules DEF FailedAttempt, BucketCounts
  <2>2. noted(recorded) \in [Rotatable -> BucketCounts]
    BY <2>1 DEF RotatorOK
  <2>3. Saved' /\ \A b \in Rotatable : Settled(noted(recorded)[b]) => Owned(b, rec[b])'
    BY <1>2, <2>2, RebornKeeps
  <2>4. PICK c \in recorded : Running(c) /\ rec'[c].last = "failed"
    <3>1. PICK c \in recorded : c \in Rotatable /\ Running(c)
      OBVIOUS
    <3>2. rec'[c] = Loaded(noted(recorded)[c])
      BY <1>2, <3>1 DEF Reborn
    <3>3. noted(recorded)[c] = FailedAttempt(Current(rec[c]))
      BY <3>1
    <3> QED
      BY <2>1, <3>1, <3>2, <3>3 DEF Loaded
  <2>5. ASSUME NEW b \in Rotatable, Owned(b, rec[b]), ~Owned(b, rec[b])'
        PROVE  b \notin recorded /\ Running(b)
    <3>1. ~Settled(noted(recorded)[b])
      BY <2>3, <2>5
    <3>2. b \notin recorded
      BY <2>1, <3>1
    <3>3. noted(recorded)[b] = rec[b]
      BY <3>2
    <3> QED
      BY <2>5, <3>1, <3>2, <3>3 DEF Owned
  <2> QED
    BY <2>3, <2>4, <2>5
<1> QED
  BY <1>1, <1>2 DEF Shutdown

LEMMA OwnerIsOwned ==
    ASSUME RotatorOK, NEW b \in Rotatable
    PROVE  HasOwner(b) <=> Owned(b, rec[b])
BY DEF HasOwner, Owned, Settled, Current, RotatorOK, BucketCounts

LatchInv == RotationTypeOK /\ Saved

LEMMA LatchStep ==
    ASSUME LatchInv, [RotationNext]_allVars
    PROVE  /\ LatchInv'
           /\ \A b \in Rotatable :
                Owned(b, rec[b]) /\ ~Owned(b, rec[b])' =>
                   /\ Running(b)
                   /\ \/ Crash
                      \/ /\ Shutdown
                         /\ \E c \in Rotatable \ {b} : Running(c) /\ rec'[c].last = "failed"
<1>1. RotatorOK /\ Saved /\ RotationTypeOK'
  BY RotationNextType DEF LatchInv, RotationTypeOK, RotatorOK
<1>2. CASE Crash
  <2>1. Reborn(disk)
    BY <1>2 DEF Crash
  <2>2. Saved'
    BY <1>1, <2>1, RebornKeeps DEF RotatorOK
  <2> QED
    BY <1>1, <1>2, <2>1, <2>2, RestartFromDisk DEF LatchInv
<1>3. CASE Shutdown
  BY <1>1, <1>3, ShutdownKeeps DEF LatchInv
<1>4. CASE ~Crash /\ ~Shutdown
  <2>1. Saved' /\ Carried
    BY <1>1, <1>4, ReleaseKeeps, TriggerKeeps, TaskKeeps, OtherKeeps
       DEF RotationNext, RunningNext
  <2> QED
    BY <1>1, <2>1 DEF LatchInv, Carried
<1> QED
  BY <1>2, <1>3, <1>4

(* The latch loses its owner only in a crash that hits the bucket's own    *)
(* rotation, or in an orderly shutdown that cancels this one and another   *)
(* and records the other: for any number of rotating buckets and restarts. *)
THEOREM LatchKept == RotationSpec => LatchKeepsOwner
<1>1. RotationInit => LatchInv
  BY RotationInitType DEF RotationInit, LatchInv, Saved
<1>2. LatchInv /\ [RotationNext]_allVars => LatchInv'
  BY LatchStep
<1>3. LatchInv /\ [RotationNext]_allVars =>
        [\A b \in Rotatable :
           HasOwner(b) /\ ~HasOwner(b)' =>
              /\ Running(b)
              /\ \/ events'.crashes # events.crashes
                 \/ /\ events'.shutdowns # events.shutdowns
                    /\ \E c \in Rotatable \ {b} : Running(c) /\ rec'[c].last = "failed"]_allVars
  <2> SUFFICES ASSUME LatchInv, [RotationNext]_allVars,
                      NEW b \in Rotatable, HasOwner(b), ~HasOwner(b)'
               PROVE  /\ Running(b)
                      /\ \/ events'.crashes # events.crashes
                         \/ /\ events'.shutdowns # events.shutdowns
                            /\ \E c \in Rotatable \ {b} : Running(c) /\ rec'[c].last = "failed"
    OBVIOUS
  <2>1. RotatorOK /\ RotatorOK'
    BY LatchStep DEF LatchInv, RotationTypeOK, RotatorOK
  <2>2. Owned(b, rec[b])
    BY <2>1, OwnerIsOwned
  <2>3. ~Owned(b, rec[b])'
    BY <2>1 DEF HasOwner, Owned, Settled, Current, RotatorOK, BucketCounts, Running
  <2>4. Crash => events'.crashes # events.crashes
    BY <2>1, RotationAssumption DEF Crash, RotatorOK
  <2>5. Shutdown => events'.shutdowns # events.shutdowns
    BY <2>1, RotationAssumption DEF Shutdown, RotatorOK
  <2> QED
    BY <2>2, <2>3, <2>4, <2>5, LatchStep
<1> QED
  BY <1>1, <1>2, <1>3, PTL DEF RotationSpec, LatchKeepsOwner

=============================================================================
