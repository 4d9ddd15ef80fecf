---------------------------- MODULE EgressRotation ----------------------------
(***************************************************************************)
(* The rotator and its counters (proxy_opencode/egress/rotate.py and       *)
(* counters.py) driving the egress pool: the outcome of a request may      *)
(* decide that the bucket needs a new address, a task asks the device      *)
(* agent for an ONT reboot and polls until a different address shows up, a *)
(* failed attempt is retried by a timer, and the counters survive a        *)
(* restart of the gateway in a snapshot file.                              *)
(*                                                                         *)
(* The module extends EgressPool, so every step here is a step of the pool *)
(* or leaves it alone; property PoolImplemented says so.  The daily window *)
(* is an event, Rollover; a record is refreshed lazily, when it is next    *)
(* looked up.  Requests and estimated tokens are one meter: each completed *)
(* request adds a charge.  The snapshot write succeeds.                    *)
(***************************************************************************)
EXTENDS EgressPool

CONSTANTS
    Threshold,       \* the meter reading that asks for a rotation
    Charges,         \* what one completed request may add to the meter
    MaxRotations,    \* attempts per window, admin requests not counted against it
    RetryCooldown,   \* from a failed attempt to its retry
    MinInterval,     \* from a successful attempt to one asked for by a verdict
    PollTime,        \* how long a task polls for the new address
    RotateOnHard429, \* ZEN_ROTATE_ON_HARD_429
    Rollovers,       \* bound on the window changes explored
    Shutdowns,       \* bound on the orderly restarts explored
    Crashes          \* bound on the abrupt restarts explored

ASSUME RotationAssumption ==
    /\ Threshold \in Nat \ {0}
    /\ Charges \subseteq Nat \ {0}
    /\ MaxRotations \in Nat \ {0}
    /\ RetryCooldown \in Nat \ {0}
    /\ MinInterval \in Nat
    /\ PollTime \in Nat
    /\ RotateOnHard429 \in BOOLEAN
    /\ {Rollovers, Shutdowns, Crashes} \subseteq Nat

VARIABLES
    rec,      \* bucket -> BucketCounts in memory
    disk,     \* bucket -> BucketCounts in the snapshot file
    task,     \* bucket -> the rotation task
    timer,    \* bucket -> what the pending retry still sleeps, NoTimer if none
    dev,      \* bucket -> the device: its address and what its agent reports
    events    \* window changes and restarts so far

rotVars == <<rec, disk, task, timer, dev, events>>
allVars == <<vars, rotVars>>

-----------------------------------------------------------------------------
(* The counters *)

NoTimer == -1

(* Time since the last result, counted as far as a rule looks.             *)
Longest == Larger(RetryCooldown, MinInterval)

(* `old`: the record belongs to a window that has ended.                   *)
BucketCounts ==
    [used: 0..Threshold, triggered: BOOLEAN, rotations: 0..MaxRotations,
     last: {"none", "ok", "failed"}, age: 0..Longest, old: BOOLEAN]

NoCounts ==
    [used |-> 0, triggered |-> FALSE, rotations |-> 0,
     last |-> "none", age |-> 0, old |-> FALSE]

(* _record_for: the rollover clears the meter, the latch and the attempts, *)
(* and keeps the last result.                                              *)
Current(q) ==
    IF q.old THEN [q EXCEPT !.used = 0, !.triggered = FALSE, !.rotations = 0, !.old = FALSE]
    ELSE q

(* load: a row of an earlier window is dropped as a whole.                 *)
Loaded(q) == IF q.old THEN NoCounts ELSE q

(* Fault: a failed attempt keeps the latch until the window ends.          *)
LatchedForGood(q) == ~q.triggered

RotationAvailable(q) ==
    ~q.triggered \/ (q.last = "failed" /\ q.age >= RetryCooldown)

(* Fault: the floor between two rotations is not looked at.                *)
ShouldRotateAtOnce(q) == RotationAvailable(q)

ShouldRotate(q) ==
    RotationAvailable(q) /\ ~(q.last = "ok" /\ q.age < MinInterval)

(* Only these outcomes look the record up at all.                          *)
Metered(v) ==
    \/ v.kind \in {"ok", "free_tier_rejected"}
    \/ v.kind \in {"http_429_soft", "http_429_hard"} /\ RotateOnHard429

Fires(q, v, charge) ==
    \/ v.kind = "ok" /\ RotationAvailable(q) /\ q.used + charge >= Threshold
    \/ v.kind = "http_429_hard" /\ RotateOnHard429 /\ ShouldRotate(q)
    \/ v.kind = "free_tier_rejected" /\ ShouldRotate(q)

(* record: the meter moves, and the latch closes when the threshold fires. *)
Recorded(q, v, charge) ==
    IF v.kind # "ok" THEN q
    ELSE [q EXCEPT !.used = Smaller(@ + charge, Threshold),
                   !.triggered = @ \/ Fires(q, v, charge)]

(* note_rotation_started; only a count below the cap is ever looked at.    *)
Attempted(q) ==
    [q EXCEPT !.rotations = Smaller(@ + 1, MaxRotations), !.triggered = TRUE]

(* reset and note_rotation_result, or the latter alone.                    *)
Succeeded(q) ==
    [q EXCEPT !.used = 0, !.triggered = FALSE, !.last = "ok", !.age = 0]
FailedAttempt(q) == [q EXCEPT !.last = "failed", !.age = 0]

Older(q) == [q EXCEPT !.age = Smaller(@ + 1, Longest)]

-----------------------------------------------------------------------------
(* Tasks and devices *)

TaskState ==
    [pc: {"none", "created", "posting", "polling"}, from: IPs \cup {NoIp}, left: 0..PollTime]

NoTask == [pc |-> "none", from |-> NoIp, left |-> 0]
Running(b) == task[b].pc # "none"

(* The device behind a bucket: the address its uplink has, whether the     *)
(* uplink is up, and what the agent last found out by itself.              *)
Device == [addr: IPs, up: BOOLEAN, seen: IPs \cup {NoIp}, ok: BOOLEAN]

RotationTypeOK ==
    /\ TypeOK
    /\ rec \in [Rotatable -> BucketCounts]
    /\ disk \in [Rotatable -> BucketCounts]
    /\ task \in [Rotatable -> TaskState]
    /\ timer \in [Rotatable -> {NoTimer} \cup 0..RetryCooldown]
    /\ dev \in [Buckets -> Device]
    /\ events \in [rollovers: 0..Rollovers, shutdowns: 0..Shutdowns, crashes: 0..Crashes]

RotationInit ==
    /\ Init
    /\ rec = [b \in Rotatable |-> NoCounts]
    /\ disk = rec
    /\ task = [b \in Rotatable |-> NoTask]
    /\ timer = [b \in Rotatable |-> NoTimer]
    /\ dev \in [Buckets -> [addr: IPs, up: {TRUE}, seen: {NoIp}, ok: {TRUE}]]
    /\ events = [rollovers |-> 0, shutdowns |-> 0, crashes |-> 0]

-----------------------------------------------------------------------------
(* Triggers *)

(* request_rotation's guards, for a bucket whose record reads q.           *)
Granted(b, q) == ~Running(b) /\ q.rotations < MaxRotations

(* Fault: the attempt is counted in memory only.                           *)
StartTaskUnsaved(b, q) ==
    /\ rec' = [rec EXCEPT ![b] = Attempted(q)]
    /\ task' = [task EXCEPT ![b] = [NoTask EXCEPT !.pc = "created"]]
    /\ UNCHANGED <<disk, dev, events>>

(* The rest of request_rotation: count and save the attempt, then create   *)
(* the task.  The caller marks the bucket as rotating in the same step.    *)
StartTask(b, q) ==
    /\ rec' = [rec EXCEPT ![b] = Attempted(q)]
    /\ disk' = rec'
    /\ task' = [task EXCEPT ![b] = [NoTask EXCEPT !.pc = "created"]]
    /\ UNCHANGED <<dev, events>>

(* EgressPool.release with the observer's on_release inside.  Completed    *)
(* requests of any bucket save the records of all of them.                 *)
ReleaseObserved(r, v, charge) ==
    /\ req[r].pc = "leased"
    /\ LET b == req[r].bucket
           q == IF Metered(v) THEN Current(rec[b]) ELSE rec[b]
           counted == Recorded(q, v, charge)
           granted == b \in Rotatable /\ Fires(q, v, charge) /\ Granted(b, counted)
       IN \/ /\ granted
             /\ Release(r, v, TRUE)
             /\ StartTask(b, counted)
             /\ UNCHANGED timer
          \/ /\ ~granted
             /\ Release(r, v, FALSE)
             /\ rec' = [c \in Rotatable |-> IF c = b THEN counted ELSE rec[c]]
             /\ disk' = IF v.kind = "ok" THEN rec' ELSE disk
             /\ UNCHANGED <<task, timer, dev, events>>

(* POST /admin/egresses/{name}/rotate: force bypasses the cap.             *)
AdminRotate(b) ==
    /\ ~Running(b)
    /\ StartRotation(b)
    /\ StartTask(b, Current(rec[b]))
    /\ UNCHANGED timer

(* _retry_later wakes up.                                                  *)
RetryFires(b) ==
    /\ timer[b] = 0
    /\ timer' = [timer EXCEPT ![b] = NoTimer]
    /\ LET q == Current(rec[b])
           due == q.last = "failed" /\ Granted(b, q)
       IN \/ /\ due
             /\ StartRotation(b)
             /\ StartTask(b, q)
          \/ /\ ~due
             /\ rec' = IF Running(b) THEN rec ELSE [rec EXCEPT ![b] = q]
             /\ UNCHANGED <<vars, disk, task, dev, events>>

-----------------------------------------------------------------------------
(* The rotation task *)

(* The task runs for the first time: it notes the address to leave.        *)
TaskBegins(b) ==
    /\ task[b].pc = "created"
    /\ task' = [task EXCEPT ![b] = [@ EXCEPT !.pc = "posting", !.from = st[b].ip]]
    /\ UNCHANGED <<vars, rec, disk, timer, dev, events>>

(* The agent said the reset went out, or could not be reached: poll.       *)
PostAnswered(b) ==
    /\ task[b].pc = "posting"
    /\ task' = [task EXCEPT ![b] = [@ EXCEPT !.pc = "polling", !.left = PollTime]]
    /\ UNCHANGED <<vars, rec, disk, timer, dev, events>>

(* Fault: the retry is armed only when the cap is reached.                 *)
ArmedAtCap(b, q) ==
    IF timer[b] = NoTimer /\ q.rotations = MaxRotations THEN RetryCooldown ELSE timer[b]

(* _schedule_retry: at most one pending retry, none past the cap.          *)
Armed(b, q) ==
    IF timer[b] = NoTimer /\ q.rotations < MaxRotations THEN RetryCooldown ELSE timer[b]

(* Fault: the task forgets to clear the flag when it gives up.             *)
GiveUpMarked(b) ==
    /\ UNCHANGED vars
    /\ LET q == Current(rec[b])
       IN /\ timer' = [timer EXCEPT ![b] = Armed(b, q)]
          /\ rec' = [rec EXCEPT ![b] = FailedAttempt(q)]
    /\ disk' = rec'
    /\ task' = [task EXCEPT ![b] = NoTask]
    /\ UNCHANGED <<dev, events>>

(* The end of _rotate for a failed attempt.                                *)
GiveUp(b) ==
    /\ FailRotation(b)
    /\ LET q == Current(rec[b])
       IN /\ timer' = [timer EXCEPT ![b] = Armed(b, q)]
          /\ rec' = [rec EXCEPT ![b] = FailedAttempt(q)]
    /\ disk' = rec'
    /\ task' = [task EXCEPT ![b] = NoTask]
    /\ UNCHANGED <<dev, events>>

(* An error status or an ok=false body is final.                           *)
PostRefused(b) == task[b].pc = "posting" /\ GiveUp(b)

(* Fault: the deadline starts over when it passes.                         *)
PollRestarts(b) ==
    /\ task[b].pc = "polling" /\ task[b].left = 0
    /\ task' = [task EXCEPT ![b].left = PollTime]
    /\ UNCHANGED <<vars, rec, disk, timer, dev, events>>

(* No different address before the deadline.                               *)
PollExpires(b) == task[b].pc = "polling" /\ task[b].left = 0 /\ GiveUp(b)

(* Fault: an agent without an address counts as one with a new address.    *)
PollSucceedsBlank(b) ==
    /\ task[b].pc = "polling"
    /\ dev[b].ok /\ dev[b].seen # task[b].from
    /\ SucceedRotation(b, dev[b].seen)
    /\ rec' = [rec EXCEPT ![b] = Succeeded(Current(@))]
    /\ disk' = rec'
    /\ task' = [task EXCEPT ![b] = NoTask]
    /\ UNCHANGED <<timer, dev, events>>

(* A poll of /healthz finds the agent ready on an address other than the   *)
(* one noted at the start.                                                 *)
PollSucceeds(b) ==
    /\ task[b].pc = "polling"
    /\ dev[b].ok /\ dev[b].seen \notin {NoIp, task[b].from}
    /\ SucceedRotation(b, dev[b].seen)
    /\ rec' = [rec EXCEPT ![b] = Succeeded(Current(@))]
    /\ disk' = rec'
    /\ task' = [task EXCEPT ![b] = NoTask]
    /\ UNCHANGED <<timer, dev, events>>

-----------------------------------------------------------------------------
(* Devices and their agents *)

SetDevice(b, d) ==
    /\ dev' = [dev EXCEPT ![b] = d]
    /\ UNCHANGED <<vars, rec, disk, task, timer, events>>

(* The POST reaches the agent while the task waits for its answer: the ONT *)
(* reboots and the agent forgets the address.                              *)
ResetLands(b) ==
    /\ b \in Rotatable /\ task[b].pc = "posting"
    /\ SetDevice(b, [dev[b] EXCEPT !.up = FALSE, !.seen = NoIp])

(* The ISP hands out an address, maybe the old one; or replaces it on its  *)
(* own while the link stays up.                                            *)
Redial(b) ==
    \E ip \in IPs :
        /\ ~dev[b].up \/ ip # dev[b].addr
        /\ SetDevice(b, [dev[b] EXCEPT !.up = TRUE, !.addr = ip])

(* egress_probe_loop of the agent.  An answer that was on its way when the *)
(* link went down, and the forgetting with it, still reports the address.  *)
AgentProbe(b) ==
    \/ SetDevice(b, [dev[b] EXCEPT !.seen = dev[b].addr, !.ok = TRUE])
    \/ ~dev[b].up /\ SetDevice(b, [dev[b] EXCEPT !.ok = FALSE])

(* The pool probes the agent: unreachable, an error status, or its report. *)
PoolProbe(b) ==
    /\ \/ ProbeUnreachable(b)
       \/ ProbeNotReady(b, NoIp)
       \/ IF dev[b].ok THEN ProbeReady(b, dev[b].seen) ELSE ProbeNotReady(b, dev[b].seen)
    /\ UNCHANGED rotVars

-----------------------------------------------------------------------------
(* The window, time and restarts *)

Rollover ==
    /\ events.rollovers < Rollovers
    /\ events' = [events EXCEPT !.rollovers = @ + 1]
    /\ rec' = [b \in Rotatable |-> [rec[b] EXCEPT !.old = TRUE]]
    /\ disk' = [b \in Rotatable |-> [disk[b] EXCEPT !.old = TRUE]]
    /\ UNCHANGED <<vars, task, timer, dev>>

RotationTick ==
    /\ \A b \in Rotatable : timer[b] # 0
    /\ Tick
    /\ rec' = [b \in Rotatable |-> Older(rec[b])]
    /\ disk' = [b \in Rotatable |-> Older(disk[b])]
    /\ timer' = [b \in Rotatable |-> Larger(timer[b] - 1, NoTimer)]
    /\ task' = [b \in Rotatable |-> [task[b] EXCEPT !.left = Larger(@ - 1, 0)]]
    /\ UNCHANGED <<dev, events>>

(* A new process: nothing is kept but the snapshot.                        *)
Reborn(snapshot) ==
    /\ st' = [b \in Buckets |-> FreshEgress]
    /\ req' = [r \in Requests |-> NoRequest]
    /\ affinity' = [s \in Sessions |-> Unbound]
    /\ disk' = snapshot
    /\ rec' = [b \in Rotatable |-> Loaded(snapshot[b])]
    /\ task' = [b \in Rotatable |-> NoTask]
    /\ timer' = [b \in Rotatable |-> NoTimer]
    /\ UNCHANGED dev

(* Fault: shutdown cancels the attempts without recording them.            *)
ShutdownUnrecorded ==
    /\ events.shutdowns < Shutdowns
    /\ events' = [events EXCEPT !.shutdowns = @ + 1]
    /\ Reborn(disk)

(* aclose: every attempt is cancelled, then the tasks are awaited one      *)
(* after the other.  Only an attempt whose task is not done yet when its   *)
(* turn comes is recorded as failed: the first one always, the others when *)
(* their cancellation takes longer than waiting for those before them.     *)
Shutdown ==
    /\ events.shutdowns < Shutdowns
    /\ events' = [events EXCEPT !.shutdowns = @ + 1]
    /\ LET cancelled == {b \in Rotatable : Running(b)}
           noted(recorded) ==
               [b \in Rotatable |-> IF b \in recorded THEN FailedAttempt(Current(rec[b]))
                                    ELSE rec[b]]
       IN IF cancelled = {} THEN Reborn(disk)
          ELSE \E recorded \in (SUBSET cancelled) \ {{}} : Reborn(noted(recorded))

Crash ==
    /\ events.crashes < Crashes
    /\ events' = [events EXCEPT !.crashes = @ + 1]
    /\ Reborn(disk)

-----------------------------------------------------------------------------

(* Steps of the pool that do not concern the rotator.                      *)
ServeStep(r) ==
    /\ AcquireStep(r) \/ Dequeue(r) \/ CancelWait(r) \/ Abandon(r)
    /\ UNCHANGED rotVars

ReleaseStep(r) == \E v \in Verdicts, charge \in Charges : ReleaseObserved(r, v, charge)

TaskStep(b) ==
    TaskBegins(b) \/ PostAnswered(b) \/ PostRefused(b) \/ PollSucceeds(b) \/ PollExpires(b)

(* What one process does in one window.                                    *)
RunningNext ==
    \/ \E r \in Requests : ServeStep(r) \/ ReleaseStep(r)
    \/ \E b \in Rotatable : AdminRotate(b) \/ RetryFires(b) \/ TaskStep(b)
    \/ \E b \in Buckets : ResetLands(b) \/ Redial(b) \/ AgentProbe(b) \/ PoolProbe(b)
    \/ RotationTick

RotationNext == RunningNext \/ Rollover \/ Shutdown \/ Crash

RotationSpec == RotationInit /\ [][RotationNext]_allVars

(* Time passes; the loop runs a created task, a timer that is due and a    *)
(* queued request whose wait is over; the POST has a timeout.  Nothing     *)
(* obliges a client, an operator, an ISP or an agent to do anything.       *)
RotationFairness ==
    /\ WF_allVars(RotationTick)
    /\ \A r \in Requests : WF_allVars(Dequeue(r) /\ UNCHANGED rotVars)
    /\ \A b \in Rotatable :
          /\ WF_allVars(RetryFires(b))
          /\ WF_allVars(TaskBegins(b))
          /\ WF_allVars(PostAnswered(b) \/ PostRefused(b))
          /\ WF_allVars(PollExpires(b))

RotationFairSpec == RotationSpec /\ RotationFairness

(* Without a rollover and without a restart.                               *)
RunningSpec == RotationInit /\ [][RunningNext]_allVars /\ RotationFairness

-----------------------------------------------------------------------------
(* Properties *)

(* The composed system implements the pool: the rotator only ever does to  *)
(* the pool what EgressPool lets an arbitrary rotator do (no restarts).    *)
PoolImplemented == Spec

(* A bucket is withheld from selection exactly while a task drives its     *)
(* ONT: no exit of the task, refused, expired or successful, leaves a      *)
(* healthy bucket marked, and no trigger starts one unmarked.              *)
FlagFollowsTask == \A b \in Rotatable : st[b].rotating <=> Running(b)

(* The state is well typed, and pool and rotator agree on what rotates.    *)
RotationSound == RotationTypeOK /\ FlagFollowsTask

(* A closed latch has an owner while an attempt runs, or one failed and    *)
(* may be retried, or no attempt is left in the window.                    *)
HasOwner(b) ==
    LET q == Current(rec[b])
    IN q.triggered => Running(b) \/ q.last = "failed" \/ q.rotations = MaxRotations

(* The latch that makes a trigger fire once per window loses its owner     *)
(* only with the process, and only if the bucket was rotating then: in a   *)
(* crash, or in an orderly shutdown that cancelled another attempt too and *)
(* recorded that one.  No end of an attempt, no refused trigger, no window *)
(* change and no restart with the bucket at rest leaves it closed for      *)
(* nothing, whatever the snapshot file held at that moment.                *)
LatchKeepsOwner ==
    [][\A b \in Rotatable :
         HasOwner(b) /\ ~HasOwner(b)' =>
            /\ Running(b)
            /\ \/ events'.crashes # events.crashes
               \/ /\ events'.shutdowns # events.shutdowns
                  /\ \E c \in Rotatable \ {b} : Running(c) /\ rec'[c].last = "failed"]_allVars

(* "the flag stays latched until the result lands": with orderly restarts  *)
(* only, every closed latch has an owner.  This is what the code says of   *)
(* itself; a shutdown that cancels two attempts breaks it.                 *)
LatchHasOwner ==
    events.crashes = 0 => \A b \in Rotatable : HasOwner(b)

(* Storm guard: within MinInterval of a rotation that worked, no verdict   *)
(* on a request reboots the ONT again; a rotation that a release starts    *)
(* then was asked for by the meter, that is by a completed request.        *)
StormGuard ==
    [][\A b \in Rotatable :
         /\ ~Running(b) /\ Running(b)'
         /\ \E r \in Requests : req[r].pc = "leased" /\ req'[r].pc = "released"
         /\ rec[b].last = "ok" /\ rec[b].age < MinInterval
         => st'[b].failures = 0]_allVars

(* "a window rollover means there is nothing to retry": the timer starts   *)
(* no attempt for a failure of a window that has ended.                    *)
RetryInItsWindow ==
    [][\A b \in Rotatable :
         timer[b] = 0 /\ timer'[b] = NoTimer /\ ~Running(b) /\ Running(b)'
            => ~rec[b].old]_allVars

(* An attempt always ends, so a bucket does not stay withheld for ever.    *)
RotationEnds == \A b \in Rotatable : st[b].rotating ~> ~st[b].rotating

(* "The retry must not depend on traffic": below the cap a failed attempt  *)
(* is followed by another attempt although no request is ever released.    *)
FailedRetried ==
    \A b \in Rotatable :
        rec[b].last = "failed" /\ rec[b].rotations < MaxRotations ~> Running(b)
=============================================================================
