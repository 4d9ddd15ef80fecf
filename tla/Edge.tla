-------------------------------- MODULE Edge --------------------------------
(***************************************************************************)
(* The public port (edge/app.py, edge/policy.py): each request goes to the *)
(* gateway (the primary) and, when that cannot serve it, to the backup     *)
(* relay, before the first byte is sent.  A probe and an admin call change *)
(* what later requests see while earlier ones are under way.  An answer is *)
(* known by what the policy makes of it; the retry window after a dead     *)
(* backup is counted in attempts.                                          *)
(***************************************************************************)
EXTENDS Naturals, FiniteSets

CONSTANTS
    Requests,     \* requests, each served once
    Configured,   \* a fallback_base_url is set
    OnQuota,      \* failover_on_quota
    MaxTries      \* attempts that fit in fallback_dead_retry_s, at least one

ASSUME EdgeAssumption ==
    /\ IsFiniteSet(Requests)
    /\ Configured \in BOOLEAN
    /\ OnQuota \in BOOLEAN
    /\ MaxTries \in Nat \ {0}

VARIABLES
    mode,    \* _mode
    alive,   \* _primary_alive
    req,     \* request -> where it stands and what it knows
    stats    \* the counters of /healthz

edgeVars == <<mode, alive, req, stats>>

-----------------------------------------------------------------------------

Modes == {"auto", "primary", "fallback"}

(* The answers of the primary: "client" is a 4xx about the request,        *)
(* "throttle" a short 429, "quota" a daily one, "outage" a status in       *)
(* failover_statuses, "fault" another 5xx, "down" none at all.             *)
PrimaryAnswers == {"ok", "client", "throttle", "quota", "outage", "fault", "down"}

(* Those of the backup: "billing" is its own account's death.              *)
BackupAnswers == {"ok", "client", "throttle", "fault", "billing", "down"}

(* What the edge answers itself: too_large is a 413, bad_gateway a 502,    *)
(* unavailable a 503 and crash the server's 500 for an exception.          *)
OwnAnswers == {"too_large", "bad_gateway", "unavailable", "crash"}

(* A chat request can be replayed on the backup, one with a body that is   *)
(* no JSON object, or on another path, cannot.                             *)
Kinds == {"chat", "opaque", "other"}

Request ==
    [pc: {"idle", "primary", "backup", "retry", "deliver", "stream", "done"},
     kind: Kinds, can: BOOLEAN, allow: BOOLEAN, forced: BOOLEAN,
     route: {"none", "primary", "fallback", "edge"},
     answer: {"none"} \cup PrimaryAnswers \cup BackupAnswers \cup OwnAnswers,
     tries: 0..MaxTries,
     starts: 0..1,        \* http.response.start messages sent
     dead: BOOLEAN,       \* counted in fallback_failed
     said: {"none"} \cup PrimaryAnswers]  \* what the primary answered at first

Counter == 0..Cardinality(Requests)

EdgeTypeOK ==
    /\ mode \in Modes
    /\ alive \in BOOLEAN
    /\ req \in [Requests -> Request]
    /\ stats \in [requests: Counter, primary: Counter, fallback: Counter,
                  fallback_failed: Counter]

EdgeInit ==
    /\ mode \in Modes
    /\ alive = TRUE
    /\ req = [r \in Requests |->
                [pc |-> "idle", kind |-> "other", can |-> FALSE, allow |-> FALSE,
                 forced |-> FALSE, route |-> "none", answer |-> "none", tries |-> 0,
                 starts |-> 0, dead |-> FALSE, said |-> "none"]]
    /\ stats = [requests |-> 0, primary |-> 0, fallback |-> 0, fallback_failed |-> 0]

-----------------------------------------------------------------------------
(* The judgement calls of policy.py.                                       *)

(* Fault: every error is a reason.                                         *)
FailoverReasonAny(answer) == answer # "ok"

(* failover_reason: why the primary's answer should be replaced.           *)
FailoverReason(answer) == answer = "outage" \/ (OnQuota /\ answer = "quota")

(* Fault: the backup's answer is passed on whatever it says.               *)
OutOfQuotaNever(answer) == FALSE

(* fallback_out_of_quota: the relay itself is dead.                        *)
OutOfQuota(answer) == answer = "billing"

(* What the second chance may deliver: no 5xx and no quota verdict.        *)
Deliverable(answer) == answer \in {"ok", "client", "throttle"}

-----------------------------------------------------------------------------
(* The steps of one request.                                               *)

Step(r, q, counted) ==
    /\ req' = [req EXCEPT ![r] = q]
    /\ stats' = [c \in DOMAIN stats |-> stats[c] + (IF c \in counted THEN 1 ELSE 0)]

(* An answer of the edge's own is sent whole.                              *)
Answered(q, answer) ==
    [q EXCEPT !.pc = "done", !.route = "edge", !.answer = answer, !.starts = @ + 1]

(* _deliver begins: the route is counted before a byte is sent.            *)
Deliver(r, q, route, answer) ==
    Step(r, [q EXCEPT !.pc = "deliver", !.route = route, !.answer = answer], {route})

(* _serve_fallback up to its request: the body must be replayable.         *)
ServeFallback(r, q, counted) ==
    IF q.can /\ q.kind = "chat"
    THEN Step(r, [q EXCEPT !.pc = "backup"], counted)
    ELSE Step(r, Answered([q EXCEPT !.dead = TRUE], "bad_gateway"),
              counted \cup {"fallback_failed"})

(* _forward up to its first request: the mode is read here, once; a body   *)
(* over the limit is refused and a client that left gets nothing.          *)
Begin(r) ==
    /\ req[r].pc = "idle"
    /\ \/ \E kind \in Kinds :
             LET can == Configured /\ kind # "other"
                 q == [req[r] EXCEPT !.kind = kind, !.can = can,
                                     !.allow = can /\ mode \in {"auto", "fallback"},
                                     !.forced = can /\ mode = "fallback"]
             IN IF q.forced THEN ServeFallback(r, q, {"requests"})
                ELSE Step(r, [q EXCEPT !.pc = "primary"], {"requests"})
       \/ Step(r, Answered(req[r], "too_large"), {})
       \/ Step(r, [req[r] EXCEPT !.pc = "done"], {})
    /\ UNCHANGED <<mode, alive>>

(* The primary's answer, with its body when it is an error.                *)
PrimaryReplies(r) ==
    /\ req[r].pc = "primary"
    /\ \E answer \in PrimaryAnswers :
         LET q == [req[r] EXCEPT !.said = answer]
         IN IF answer = "down"
            THEN IF q.allow THEN ServeFallback(r, q, {})
                 ELSE Step(r, Answered(q, "bad_gateway"), {})
            ELSE IF FailoverReason(answer) /\ q.allow THEN ServeFallback(r, q, {})
            ELSE Deliver(r, q, "primary", answer)
    /\ UNCHANGED <<mode, alive>>

(* The backup's answer.  Its billing answer is swallowed and the primary   *)
(* gets a second chance, in every mode.                                    *)
BackupReplies(r) ==
    /\ req[r].pc = "backup"
    /\ \E answer \in BackupAnswers :
         CASE answer = "down" ->
                Step(r, Answered([req[r] EXCEPT !.dead = TRUE], "bad_gateway"),
                     {"fallback_failed"})
           [] answer # "down" /\ OutOfQuota(answer) ->
                Step(r, [req[r] EXCEPT !.pc = "retry", !.dead = TRUE], {"fallback_failed"})
           [] OTHER -> Deliver(r, req[r], "fallback", answer)
    /\ UNCHANGED <<mode, alive>>

(* Fault: the second chance counts as another request.                     *)
RetryRepliesCounted(r) ==
    /\ req[r].pc = "retry"
    /\ \E answer \in PrimaryAnswers :
         LET q == [req[r] EXCEPT !.tries = @ + 1]
         IN IF Deliverable(answer)
            THEN Step(r, [q EXCEPT !.pc = "deliver", !.route = "primary", !.answer = answer],
                      {"requests", "primary"})
            ELSE \/ Step(r, Answered(q, "unavailable"), {})
                 \/ q.tries < MaxTries /\ Step(r, q, {})
    /\ UNCHANGED <<mode, alive>>

(* _retry_primary_or_503: one attempt; after a failed one the deadline may *)
(* have passed, and 503 is sent.                                           *)
RetryReplies(r) ==
    /\ req[r].pc = "retry"
    /\ \E answer \in PrimaryAnswers :
         LET q == [req[r] EXCEPT !.tries = @ + 1]
         IN IF Deliverable(answer) THEN Deliver(r, q, "primary", answer)
            ELSE \/ Step(r, Answered(q, "unavailable"), {})
                 \/ q.tries < MaxTries /\ Step(r, q, {})
    /\ UNCHANGED <<mode, alive>>

(* The head goes out: with the whole body for an error or the backup's     *)
(* JSON, read before and perhaps in vain; ahead of the chunks otherwise.   *)
SendHead(r) ==
    /\ req[r].pc = "deliver"
    /\ LET sent == [req[r] EXCEPT !.starts = @ + 1]
       IN \/ req[r].answer # "ok" /\ Step(r, [sent EXCEPT !.pc = "done"], {})
          \/ /\ req[r].answer = "ok" /\ req[r].route = "fallback"
             /\ \/ Step(r, [sent EXCEPT !.pc = "done"], {})
                \/ Step(r, [sent EXCEPT !.pc = "done", !.answer = "crash"], {})
          \/ req[r].answer = "ok" /\ Step(r, [sent EXCEPT !.pc = "stream"], {})
    /\ UNCHANGED <<mode, alive>>

(* The stream ends, or breaks off: nothing else is tried.                  *)
StreamEnds(r) ==
    /\ req[r].pc = "stream"
    /\ Step(r, [req[r] EXCEPT !.pc = "done"], {})
    /\ UNCHANGED <<mode, alive>>

(* _probe_once: any answer below 500 counts as alive, one failure as down. *)
Probe ==
    /\ \E answer \in PrimaryAnswers : alive' = (answer \in {"ok", "client", "throttle", "quota"})
    /\ UNCHANGED <<mode, req, stats>>

(* POST /edge/mode; an unknown mode changes nothing.                       *)
SetMode ==
    /\ mode' \in Modes
    /\ UNCHANGED <<alive, req, stats>>

EdgeNext ==
    \/ \E r \in Requests :
          \/ Begin(r) \/ PrimaryReplies(r) \/ BackupReplies(r) \/ RetryReplies(r)
          \/ SendHead(r) \/ StreamEnds(r)
    \/ Probe \/ SetMode

EdgeSpec == EdgeInit /\ [][EdgeNext]_edgeVars

-----------------------------------------------------------------------------

(* "The switch happens before the first byte": once a head is out the      *)
(* request asks nobody else, never starts a second answer, and the answer  *)
(* stays that of the route it names (_forward, _deliver).                  *)
Committed ==
    \A r \in Requests :
       /\ req[r].starts = 1 => req[r].pc \in {"stream", "done"}
       /\ req[r].pc \in {"primary", "backup", "retry"} => req[r].route = "none"

(* An answer about the request is never covered up: what the primary said  *)
(* when it was asked reaches the client unless it was an outage, a quota   *)
(* verdict or silence, and only after one of these, or when the mode at    *)
(* its arrival forced it, does a request reach the backup, whatever the    *)
(* mode and the probe have become meanwhile (_forward, failover_reason).   *)
AnswerKept ==
    \A r \in Requests :
       /\ req[r].said \in {"ok", "client", "throttle", "fault"} =>
             req[r].route = "primary" /\ req[r].answer = req[r].said
       /\ req[r].pc \in {"backup", "retry"} \/ req[r].route = "fallback" \/ req[r].dead =>
             req[r].forced \/ (req[r].allow /\ req[r].said \in {"outage", "quota", "down"})

(* The billing death of the backup reaches no client, nor, after it, a     *)
(* quota verdict of the primary: clients take both for the end of the      *)
(* provider (fallback_out_of_quota, _retry_primary_or_503).                *)
BillingSwallowed ==
    \A r \in Requests :
       /\ req[r].answer # "billing"
       /\ req[r].dead => req[r].answer \notin {"quota", "outage", "fault"}

(* /healthz adds up: every counted request is under way, delivered on the  *)
(* route it is counted for, or answered by the edge itself; a request can  *)
(* be both failed on the backup and delivered by the primary.              *)
StatsBalance ==
    LET Which(P(_)) == Cardinality({r \in Requests : P(req[r])})
    IN /\ stats.primary = Which(LAMBDA q : q.route = "primary")
       /\ stats.fallback = Which(LAMBDA q : q.route = "fallback")
       /\ stats.fallback_failed = Which(LAMBDA q : q.dead)
       /\ stats.requests =
            stats.primary + stats.fallback
              + Which(LAMBDA q : q.answer \in {"bad_gateway", "unavailable"})
              + Which(LAMBDA q : q.pc \in {"primary", "backup", "retry"})

(* The state is well typed, and its counters say what became of the        *)
(* requests (/healthz).                                                    *)
EdgeSound == EdgeTypeOK /\ StatsBalance

(* Documented: while the probe fails requests go straight to the backup.   *)
ProbeRoutes ==
    [][\A r \in Requests :
         req[r].pc = "idle" /\ req'[r].pc = "primary" =>
            ~(mode = "auto" /\ req'[r].allow /\ ~alive)]_edgeVars

(* Tested: in mode "fallback" the primary is drained and sees no request.  *)
DrainKept == \A r \in Requests : req[r].forced => req[r].pc \notin {"primary", "retry"}
=============================================================================
