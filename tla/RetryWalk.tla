------------------------------ MODULE RetryWalk ------------------------------
(***************************************************************************)
(* One chat completion of the zen adapter over the egress pool             *)
(* (proxy_opencode/upstreams/zen/client.py): lease a bucket, send the      *)
(* request through it, classify the outcome and return the lease with it,  *)
(* walk to a sibling that this request has not failed on yet, and hand     *)
(* over to the backup chain when the walk is spent.  Several requests walk *)
(* at the same time over one pool; clients hang up, and the deadlines of   *)
(* the failover wrapper (failover.py) run out, at any await.               *)
(*                                                                         *)
(* The module extends EgressPool: `req` and `st` are the pool's, `walk` is *)
(* what the running chat() of a request knows.  An attempt's verdict and   *)
(* the next acquire are two steps, because the response is closed between  *)
(* them; where nothing is awaited there, one of the interleavings is meant.*)
(***************************************************************************)
EXTENDS EgressPool

CONSTANTS
    MaxAttempts,   \* FAILOVER_MAX_ATTEMPTS
    MaxLost        \* bound on the broken error answers of a bucket; 0 with bun

ASSUME WalkAssumption ==
    /\ IsFiniteSet(Buckets)
    /\ Buckets # {}
    /\ MaxAttempts \in Nat \ {0}
    /\ MaxLost \in Nat

VARIABLES
    walk,   \* request -> the state of its chat()
    lost    \* history: bucket -> how many of its leases were forgotten

walkVars == <<vars, walk, lost>>

-----------------------------------------------------------------------------

Attempts == Smaller(Cardinality(Buckets), MaxAttempts)

(* Why the failover wrapper goes to the backup chain when chat() is over:  *)
(* a quota relay or an outage (a 5xx, the 503 for the free-tier gate, a    *)
(* transport error), which are verdicts of the walk; or "wrapper", what it *)
(* decides by itself: for a 4xx it does not pass through, for any other    *)
(* exception, at a deadline of its own.  "none": the client has its answer *)
(* or is gone.                                                             *)
Handoffs == {"none", "quota", "outage", "wrapper"}

(* "resting": no request, or its answer was given; "walking": it waits for *)
(* a lease or for its attempt; "between": the attempt failed, the next     *)
(* lease is not asked for yet; "streaming": the relay owns the lease.      *)
Walk ==
    [pc: {"resting", "walking", "between", "streaming"},
     tried: SUBSET Buckets, left: 0..Attempts, handoff: Handoffs]

Rested(handoff) == [pc |-> "resting", tried |-> {}, left |-> 0, handoff |-> handoff]

WalkTypeOK ==
    /\ TypeOK
    /\ walk \in [Requests -> Walk]
    /\ lost \in [Buckets -> 0..MaxLost]

WalkInit ==
    /\ Init
    /\ walk = [r \in Requests |-> Rested("none")]
    /\ lost = [b \in Buckets |-> 0]

End(r, handoff) == walk' = [walk EXCEPT ![r] = Rested(handoff)]

(* What a walk hands over when this verdict is its last one.               *)
Final(v) == IF v.kind \in {"http_429_soft", "http_429_hard"} THEN "quota" ELSE "outage"

-----------------------------------------------------------------------------

(* chat() up to the await of its first acquire: with a session key, and    *)
(* with a quota relay when every bucket is on the bench.                   *)
Begin(r, key) ==
    /\ walk[r].pc = "resting"
    /\ \/ /\ Acquire(r, key, {})
          /\ walk' = [walk EXCEPT ![r] = [pc |-> "walking", tried |-> {},
                                          left |-> Attempts, handoff |-> "none"]]
       \/ /\ Exhausted({})
          /\ req[r].pc # "leased"
          /\ End(r, "quota")
          /\ UNCHANGED vars

(* The queued acquire gets its slot.                                       *)
Served(r) == Dequeue(r) /\ UNCHANGED walk

(* A 200 without streaming, or a 4xx about the request: released as good.  *)
(* The wrapper passes some 4xx through (_PASSTHROUGH_STATUSES), not all.   *)
AttemptSucceeds(r) ==
    /\ walk[r].pc = "walking" /\ req[r].pc = "leased"
    /\ \E v \in Verdicts, mark \in BOOLEAN : v.kind = "ok" /\ Release(r, v, mark)
    /\ \E handoff \in {"none", "wrapper"} : End(r, handoff)

(* A 200 for a streaming client: the relay takes the lease over.           *)
StreamStarts(r) ==
    /\ walk[r].pc = "walking" /\ req[r].pc = "leased"
    /\ walk' = [walk EXCEPT ![r].pc = "streaming"]
    /\ UNCHANGED vars

(* The close hook of the relay, with what STREAM_OUTCOMES says about it.   *)
StreamEnds(r) ==
    /\ walk[r].pc = "streaming"
    /\ \E v \in Verdicts, mark \in BOOLEAN :
          v.kind \in {"ok", "transport"} /\ Release(r, v, mark)
    /\ End(r, "none")

(* The first chunk is late: the wrapper closes the stream it prefetched,   *)
(* which releases the lease as disconnected, and turns to the backup chain *)
(* (_prefetch).                                                            *)
FirstChunkLate(r) ==
    /\ walk[r].pc = "streaming"
    /\ \E v \in Verdicts, mark \in BOOLEAN : v.kind = "ok" /\ Release(r, v, mark)
    /\ End(r, "wrapper")

(* Fault: the first failure is final.                                      *)
SpentAtOnce(r, handoff) == End(r, handoff)

(* One attempt less; the walk goes on while some are left.                 *)
Spent(r, handoff) ==
    walk' = [walk EXCEPT ![r] =
        IF walk[r].left = 1 THEN Rested(handoff)
        ELSE [walk[r] EXCEPT !.pc = "between", !.left = @ - 1, !.handoff = handoff,
                             !.tried = @ \cup {req[r].bucket}]]

(* Fault: a failed exchange leaves the lease to the caller.                *)
AttemptFailsHeld(r) ==
    /\ walk[r].pc = "walking" /\ req[r].pc = "leased"
    /\ req' = [req EXCEPT ![r].pc = "released"]
    /\ \E v \in Verdicts : v.kind # "ok" /\ Spent(r, Final(v))
    /\ UNCHANGED <<st, affinity>>

(* A bucket-scoped failure: no answer, a stalled aggregate, a 5xx, a 429   *)
(* or the free-tier gate.                                                  *)
AttemptFails(r) ==
    /\ walk[r].pc = "walking" /\ req[r].pc = "leased"
    /\ \E v \in Verdicts, mark \in BOOLEAN :
          v.kind # "ok" /\ Release(r, v, mark) /\ Spent(r, Final(v))

(* The body of the answer broke the aggregation: released, and raised out  *)
(* of chat(), where the wrapper takes any exception for the backup chain's *)
(* business.                                                               *)
AttemptBreaks(r) ==
    /\ walk[r].pc = "walking" /\ req[r].pc = "leased"
    /\ \E v \in Verdicts, mark \in BOOLEAN : v.kind = "transport" /\ Release(r, v, mark)
    /\ End(r, "wrapper")

(* Without bun, reading the body of an error answer may fail.  The error   *)
(* leaves _exchange before the lease was released, and chat() takes it for *)
(* one of those whose lease was: the walk goes on, the slot stays taken.   *)
BodyLost(r) ==
    /\ walk[r].pc = "walking" /\ req[r].pc = "leased"
    /\ lost[req[r].bucket] < MaxLost
    /\ lost' = [lost EXCEPT ![req[r].bucket] = @ + 1]
    /\ req' = [req EXCEPT ![r].pc = "released"]
    /\ Spent(r, "outage")
    /\ UNCHANGED <<st, affinity>>

(* Fault: the next acquire may pick a bucket that was tried.               *)
TryNextAnywhere(r) ==
    /\ walk[r].pc = "between"
    /\ \/ /\ Acquire(r, NoKey, {})
          /\ walk' = [walk EXCEPT ![r].pc = "walking"]
       \/ /\ Exhausted({})
          /\ End(r, walk[r].handoff)
          /\ UNCHANGED vars

(* The next acquire, without the session key and without the buckets this  *)
(* request has failed on; the last verdict is handed over if none is left. *)
TryNext(r) ==
    /\ walk[r].pc = "between"
    /\ \/ /\ Acquire(r, NoKey, walk[r].tried)
          /\ walk' = [walk EXCEPT ![r].pc = "walking"]
       \/ /\ Exhausted(walk[r].tried)
          /\ End(r, walk[r].handoff)
          /\ UNCHANGED vars

(* chat() is cancelled: in the queue, during an attempt, or between two of *)
(* them.  abandon is a no-op on a lease that was released.                 *)
Cancelled(r, handoff) ==
    /\ walk[r].pc \in {"walking", "between"}
    /\ CancelWait(r) \/ Abandon(r)
    /\ End(r, handoff)

(* The client hangs up.                                                    *)
HangUp(r) == Cancelled(r, "none")

(* ZEN_FALLBACK_PRIMARY_TIMEOUT_S runs out (_call_primary).                *)
PrimaryLate(r) == Cancelled(r, "wrapper")

AttemptEnds(r) == AttemptSucceeds(r) \/ StreamStarts(r) \/ AttemptFails(r) \/ AttemptBreaks(r)

WalkStep(r) ==
    \/ \E key \in Sessions \cup {NoKey} : Begin(r, key)
    \/ Served(r)
    \/ AttemptEnds(r)
    \/ StreamEnds(r)
    \/ FirstChunkLate(r)
    \/ TryNext(r)
    \/ HangUp(r)
    \/ PrimaryLate(r)

WalkNext ==
    \/ \E r \in Requests : WalkStep(r) /\ UNCHANGED lost
    \/ \E r \in Requests : BodyLost(r)
    \/ \E b \in Buckets : (ProbeStep(b) \/ RotatorStep(b)) /\ UNCHANGED <<walk, lost>>
    \/ Tick /\ UNCHANGED <<walk, lost>>

WalkSpec == WalkInit /\ [][WalkNext]_walkVars

-----------------------------------------------------------------------------
(* Properties *)

(* Who is still on a bucket, in an attempt or a stream.                    *)
Riders(b) == {r \in Requests : /\ walk[r].pc \in {"walking", "streaming"}
                               /\ req[r].pc = "leased" /\ req[r].bucket = b}

(* Whatever path chat() leaves by, the slot it took is given back exactly  *)
(* once (_exchange's releases, abandon, the close hook): the in-flight     *)
(* count of a bucket is the number of requests still on it, apart from the *)
(* leases that a broken error answer made it forget.                       *)
SlotsReturned ==
    \A b \in Buckets : st[b].inflight = Cardinality(Riders(b)) + lost[b]

(* "_exchange already released the lease as a transport failure" when chat *)
(* catches its error: no lease is forgotten.                               *)
ErrorsReleased == \A b \in Buckets : st[b].inflight = Cardinality(Riders(b))

(* "Every bucket is tried at most once per request": a walk never leases   *)
(* a bucket it has failed on, even when it queued at the cap in between.   *)
NoBucketTwice ==
    [][\A r \in Requests, b \in Buckets :
         walk[r].pc # "resting" /\ r \in Holders(b)' \ Holders(b) =>
            b \notin walk[r].tried]_walkVars

(* No walk ends for one of these reasons while a sibling could serve it.   *)
Earned(reasons) ==
    \A r \in Requests :
       /\ walk[r].pc # "resting"
       /\ walk'[r].pc = "resting"
       /\ walk'[r].handoff \in reasons
       => \/ Cardinality(walk[r].tried) = Attempts - 1
          \/ \A b \in Buckets \ walk[r].tried : ~(st[b].healthy /\ Available(b))

(* When the walk itself gives up (a 429, a 5xx, a transport error, the     *)
(* gate), its attempts are spent or no sibling that it has not tried is    *)
(* up, unbenched and in rotation.  What the wrapper decides by itself is   *)
(* not in the promise: it knows nothing of siblings (SiblingAlwaysFirst).  *)
SiblingsFirst == [][Earned({"quota", "outage"})]_walkVars

(* Documented: "This is the last resort" and "a healthy sibling is always  *)
(* tried first"; "The backup chain engages only after the pool's attempts  *)
(* are spent (or in a pool-wide blackout)" (client.py).                    *)
SiblingAlwaysFirst == [][Earned(Handoffs \ {"none"})]_walkVars
=============================================================================
