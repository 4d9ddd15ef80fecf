----------------------------- MODULE EdgeProofs -----------------------------
(***************************************************************************)
(* Theorems about Edge: what a request was told, and what the counters of  *)
(* /healthz say of all of them, for every number of requests, with and     *)
(* without a backup, under any mode and probe changes.                     *)
(***************************************************************************)
EXTENDS Edge, FiniteSetTheorems, TLAPS

(* A request is on the backup because the mode at its arrival forced it,   *)
(* or because of what the primary said.                                    *)
Justified(q) ==
    (q.forced /\ q.said = "none") \/ (q.allow /\ q.said \in {"outage", "quota", "down"})

Blank(q) == q.route = "none" /\ q.answer = "none" /\ q.starts = 0

Standing(q) ==
    /\ q.pc \in {"idle", "primary"} => Blank(q) /\ ~q.dead /\ q.said = "none" /\ q.tries = 0
    /\ q.pc = "backup" => Blank(q) /\ ~q.dead /\ Justified(q) /\ q.tries = 0
    /\ q.pc = "retry" => Blank(q) /\ q.dead /\ Justified(q) /\ q.tries < MaxTries
    /\ q.pc = "deliver" => q.starts = 0
    /\ q.said \in {"ok", "client", "throttle", "fault"} =>
          q.route = "primary" /\ q.answer = q.said
    /\ q.route = "fallback" \/ q.dead => Justified(q)
    /\ q.answer # "billing"
    /\ q.dead => q.answer \notin {"quota", "outage", "fault"}
    /\ q.answer \in {"bad_gateway", "unavailable"} => q.route = "edge"

EdgeInv ==
    /\ req \in [Requests -> Request]
    /\ \A r \in Requests : Standing(req[r])

(* A step of a request leaves the others alone and the request in order.   *)
Moves(r) == \E q \in Request : Standing(q) /\ req' = [req EXCEPT ![r] = q]

-----------------------------------------------------------------------------

LEMMA EdgeInitHolds == EdgeInit => EdgeInv
<1> DEFINE new == [pc |-> "idle", kind |-> "other", can |-> FALSE, allow |-> FALSE,
                   forced |-> FALSE, route |-> "none", answer |-> "none", tries |-> 0,
                   starts |-> 0, dead |-> FALSE, said |-> "none"]
<1>1. new \in Request
  BY EdgeAssumption DEF Request, Kinds
<1>2. Standing(new)
  BY EdgeAssumption DEF Standing, Blank, Justified
<1>3. EdgeInit => req = [r \in Requests |-> new]
  BY DEF EdgeInit
<1> HIDE DEF new
<1> QED
  BY <1>1, <1>2, <1>3 DEF EdgeInv

LEMMA MoveHolds ==
    ASSUME EdgeInv, NEW r \in Requests, Moves(r)
    PROVE  EdgeInv'
BY DEF EdgeInv, Moves

(* An answer of the edge's own is whole.                                   *)
LEMMA AnsweredFields ==
    ASSUME NEW q \in Request, q.starts = 0, NEW a \in OwnAnswers
    PROVE  /\ Answered(q, a) \in Request
           /\ Answered(q, a).pc = "done" /\ Answered(q, a).route = "edge"
           /\ Answered(q, a).answer = a
           /\ Answered(q, a).dead = q.dead /\ Answered(q, a).said = q.said
           /\ Answered(q, a).forced = q.forced /\ Answered(q, a).allow = q.allow
<1>1. Answered(q, a) \in Request
  <2>1. /\ q.starts + 1 \in 0..1
        /\ a \in {"none"} \cup PrimaryAnswers \cup BackupAnswers \cup OwnAnswers
    OBVIOUS
  <2>2. \A x \in 0..1 :
          [q EXCEPT !.pc = "done", !.route = "edge", !.answer = a, !.starts = x] \in Request
    BY <2>1, ZenonT(60) DEF Request
  <2> QED
    BY <2>1, <2>2 DEF Answered
<1>2. /\ Answered(q, a).pc = "done" /\ Answered(q, a).route = "edge"
      /\ Answered(q, a).answer = a
  BY DEF Request, Answered
<1>3. Answered(q, a).dead = q.dead /\ Answered(q, a).said = q.said
  BY DEF Request, Answered
<1>4. Answered(q, a).forced = q.forced /\ Answered(q, a).allow = q.allow
  BY DEF Request, Answered
<1> QED
  BY <1>1, <1>2, <1>3, <1>4

(* It is given to a request that asked nobody, or was told of an outage,   *)
(* or whose backup is dead.                                                *)
LEMMA AnsweredStands ==
    ASSUME NEW q \in Request, q.starts = 0, q.dead => Justified(q), NEW a \in OwnAnswers,
           q.said \notin {"ok", "client", "throttle", "fault"}
    PROVE  Answered(q, a) \in Request /\ Standing(Answered(q, a))
<1> DEFINE n == Answered(q, a)
<1>1. /\ n \in Request /\ n.pc = "done" /\ n.route = "edge" /\ n.answer = a
      /\ n.dead = q.dead /\ n.said = q.said /\ n.forced = q.forced /\ n.allow = q.allow
  BY AnsweredFields
<1> HIDE DEF n
<1>2. Standing(n)
  BY <1>1 DEF Standing, Justified, OwnAnswers
<1> QED
  BY <1>1, <1>2 DEF n

(* _serve_fallback, from a request that may go there.                      *)
LEMMA ServeFallbackMoves ==
    ASSUME NEW r \in Requests, NEW q \in Request, NEW counted,
           Blank(q), ~q.dead, Justified(q), q.tries = 0,
           ServeFallback(r, q, counted)
    PROVE  Moves(r)
<1> USE EdgeAssumption DEF Blank, Justified, Standing, Moves, Step
<1>1. CASE q.can /\ q.kind = "chat"
  <2> DEFINE n == [q EXCEPT !.pc = "backup"]
  <2>1. n \in Request
    BY DEF Request
  <2>2. /\ n.pc = "backup" /\ n.dead = q.dead /\ n.said = q.said /\ n.tries = q.tries
        /\ n.route = q.route /\ n.answer = q.answer /\ n.starts = q.starts
        /\ n.forced = q.forced /\ n.allow = q.allow
    BY DEF Request
  <2>3. req' = [req EXCEPT ![r] = n]
    BY <1>1 DEF ServeFallback
  <2> HIDE DEF n
  <2>4. Standing(n)
    BY <2>2
  <2> QED
    BY <2>1, <2>3, <2>4
<1>2. CASE ~(q.can /\ q.kind = "chat")
  <2> DEFINE d == [q EXCEPT !.dead = TRUE]
  <2>1. /\ d \in Request /\ d.starts = 0 /\ d.said = q.said
        /\ d.forced = q.forced /\ d.allow = q.allow
    BY DEF Request
  <2>2. req' = [req EXCEPT ![r] = Answered(d, "bad_gateway")]
    BY <1>2 DEF ServeFallback
  <2> HIDE DEF d
  <2>3. Answered(d, "bad_gateway") \in Request /\ Standing(Answered(d, "bad_gateway"))
    <3> HIDE DEF Standing
    <3> QED
      BY <2>1, AnsweredStands DEF OwnAnswers
  <2> QED
    BY <2>2, <2>3
<1> QED
  BY <1>1, <1>2

LEMMA BeginMoves ==
    ASSUME EdgeInv, NEW r \in Requests, Begin(r)
    PROVE  Moves(r)
<1>1. req[r] \in Request /\ Standing(req[r]) /\ req[r].pc = "idle"
  BY DEF EdgeInv, Begin
<1>2. CASE \E kind \in Kinds :
             LET can == Configured /\ kind # "other"
                 q == [req[r] EXCEPT !.kind = kind, !.can = can,
                                     !.allow = can /\ mode \in {"auto", "fallback"},
                                     !.forced = can /\ mode = "fallback"]
             IN IF q.forced THEN ServeFallback(r, q, {"requests"})
                ELSE Step(r, [q EXCEPT !.pc = "primary"], {"requests"})
  <2>1. PICK kind \in Kinds :
             LET can == Configured /\ kind # "other"
                 q == [req[r] EXCEPT !.kind = kind, !.can = can,
                                     !.allow = can /\ mode \in {"auto", "fallback"},
                                     !.forced = can /\ mode = "fallback"]
             IN IF q.forced THEN ServeFallback(r, q, {"requests"})
                ELSE Step(r, [q EXCEPT !.pc = "primary"], {"requests"})
    BY <1>2
  <2> DEFINE can == Configured /\ kind # "other"
             q == [req[r] EXCEPT !.kind = kind, !.can = can,
                                 !.allow = can /\ mode \in {"auto", "fallback"},
                                 !.forced = can /\ mode = "fallback"]
             n == [q EXCEPT !.pc = "primary"]
  <2>2. can \in BOOLEAN /\ (can /\ mode \in {"auto", "fallback"}) \in BOOLEAN
        /\ (can /\ mode = "fallback") \in BOOLEAN
    BY EdgeAssumption
  <2>3. q \in Request /\ Blank(q) /\ ~q.dead /\ q.tries = 0 /\ q.said = "none" /\ n \in Request
    <3>1. q \in Request /\ n \in Request
      BY <1>1, <2>2, ZenonT(60) DEF Request
    <3>2. Blank(q) /\ ~q.dead /\ q.tries = 0 /\ q.said = "none"
      BY <1>1 DEF Request, Standing, Blank
    <3> QED
      BY <3>1, <3>2
  <2>4. CASE q.forced
    <3>1. ServeFallback(r, q, {"requests"})
      BY <2>1, <2>4
    <3> HIDE DEF q
    <3> QED
      BY <2>3, <2>4, <3>1, ServeFallbackMoves DEF Justified
  <2>5. CASE ~q.forced
    <3>1. req' = [req EXCEPT ![r] = n]
      BY <2>1, <2>5 DEF Step
    <3>2. n.pc = "primary" /\ Blank(n) /\ ~n.dead /\ n.tries = 0 /\ n.said = "none"
      BY <1>1, <2>3 DEF Request, Standing, Blank
    <3> HIDE DEF n
    <3>3. Standing(n)
      BY <3>2 DEF Standing, Blank
    <3> QED
      BY <2>3, <3>1, <3>3 DEF Moves
  <2> QED
    BY <2>4, <2>5
<1>3. CASE Step(r, Answered(req[r], "too_large"), {})
  <2>1. /\ req[r].starts = 0 /\ ~req[r].dead /\ req[r].said = "none"
        /\ req' = [req EXCEPT ![r] = Answered(req[r], "too_large")]
    BY <1>1, <1>3 DEF Standing, Blank, Step
  <2>2. "too_large" \in OwnAnswers
    BY DEF OwnAnswers
  <2> QED
    BY <1>1, <2>1, <2>2, AnsweredStands DEF Moves
<1>4. CASE Step(r, [req[r] EXCEPT !.pc = "done"], {})
  <2>1. [req[r] EXCEPT !.pc = "done"] \in Request /\ Standing([req[r] EXCEPT !.pc = "done"])
    BY <1>1 DEF Request, Standing, Blank, Justified
  <2> QED
    BY <1>4, <2>1 DEF Step, Moves
<1> QED
  BY <1>2, <1>3, <1>4 DEF Begin

(* _deliver begins, with an answer that may be passed on.                  *)
LEMMA DeliverMoves ==
    ASSUME EdgeInv, NEW r \in Requests, NEW q \in Request, q.starts = 0,
           NEW route \in {"primary", "fallback"},
           NEW answer \in PrimaryAnswers \cup BackupAnswers, answer # "billing",
           q.said \in {"ok", "client", "throttle", "fault"} =>
              route = "primary" /\ answer = q.said,
           route = "fallback" \/ q.dead => Justified(q),
           q.dead => answer \notin {"quota", "outage", "fault"},
           Deliver(r, q, route, answer)
    PROVE  Moves(r)
<1> DEFINE n == [q EXCEPT !.pc = "deliver", !.route = route, !.answer = answer]
<1>1. n \in Request
  BY DEF Request
<1>2. /\ n.pc = "deliver" /\ n.route = route /\ n.answer = answer /\ n.starts = 0
      /\ n.dead = q.dead /\ n.said = q.said /\ n.forced = q.forced /\ n.allow = q.allow
  BY DEF Request
<1>3. req' = [req EXCEPT ![r] = n]
  BY DEF Deliver, Step
<1> HIDE DEF n
<1>4. answer \notin {"bad_gateway", "unavailable"}
  BY DEF PrimaryAnswers, BackupAnswers
<1>5. Standing(n)
  BY <1>2, <1>4 DEF Standing, Justified
<1> QED
  BY <1>1, <1>3, <1>5 DEF Moves

LEMMA PrimaryRepliesMoves ==
    ASSUME EdgeInv, NEW r \in Requests, PrimaryReplies(r)
    PROVE  Moves(r)
<1>1. /\ req[r] \in Request /\ Standing(req[r]) /\ req[r].pc = "primary"
  BY DEF EdgeInv, PrimaryReplies
<1>2. PICK answer \in PrimaryAnswers :
         LET q == [req[r] EXCEPT !.said = answer]
         IN IF answer = "down"
            THEN IF q.allow THEN ServeFallback(r, q, {})
                 ELSE Step(r, Answered(q, "bad_gateway"), {})
            ELSE IF FailoverReason(answer) /\ q.allow THEN ServeFallback(r, q, {})
            ELSE Deliver(r, q, "primary", answer)
  BY DEF PrimaryReplies
<1> DEFINE q == [req[r] EXCEPT !.said = answer]
<1>3. /\ q \in Request /\ q.said = answer /\ q.route = "none" /\ q.answer = "none"
      /\ q.starts = 0 /\ ~q.dead /\ q.tries = 0
  BY <1>1 DEF Request, Standing, Blank
<1>4. IF answer = "down"
      THEN IF q.allow THEN ServeFallback(r, q, {})
           ELSE Step(r, Answered(q, "bad_gateway"), {})
      ELSE IF FailoverReason(answer) /\ q.allow THEN ServeFallback(r, q, {})
      ELSE Deliver(r, q, "primary", answer)
  BY <1>2
<1> HIDE DEF q
<1>5. CASE ServeFallback(r, q, {}) /\ q.allow /\ (answer = "down" \/ FailoverReason(answer))
  <2>1. Blank(q) /\ Justified(q)
    BY <1>3, <1>5 DEF Blank, Justified, FailoverReason
  <2> QED
    BY <1>3, <1>5, <2>1, ServeFallbackMoves
<1>6. CASE answer = "down" /\ Step(r, Answered(q, "bad_gateway"), {})
  <2>1. "bad_gateway" \in OwnAnswers
    BY DEF OwnAnswers
  <2> QED
    BY <1>3, <1>6, <2>1, AnsweredStands DEF Moves, Step
<1>7. CASE Deliver(r, q, "primary", answer)
  <2>1. answer \in PrimaryAnswers \cup BackupAnswers /\ answer # "billing"
    BY DEF PrimaryAnswers
  <2> QED
    BY <1>3, <1>7, <2>1, DeliverMoves
<1> QED
  BY <1>4, <1>5, <1>6, <1>7

LEMMA BackupRepliesMoves ==
    ASSUME EdgeInv, NEW r \in Requests, BackupReplies(r)
    PROVE  Moves(r)
<1> DEFINE q == req[r]
<1>1. /\ q \in Request /\ Standing(q) /\ q.pc = "backup"
  BY DEF EdgeInv, BackupReplies
<1>2. /\ q.route = "none" /\ q.answer = "none" /\ q.starts = 0 /\ ~q.dead /\ q.tries = 0
      /\ Justified(q) /\ q.said \notin {"ok", "client", "throttle", "fault"}
  BY <1>1 DEF Standing, Blank, Justified
<1>3. PICK answer \in BackupAnswers :
         CASE answer = "down" ->
                Step(r, Answered([q EXCEPT !.dead = TRUE], "bad_gateway"),
                     {"fallback_failed"})
           [] answer # "down" /\ OutOfQuota(answer) ->
                Step(r, [q EXCEPT !.pc = "retry", !.dead = TRUE], {"fallback_failed"})
           [] OTHER -> Deliver(r, q, "fallback", answer)
  BY DEF BackupReplies
<1>4. CASE answer = "down"
  <2> DEFINE d == [q EXCEPT !.dead = TRUE]
  <2>1. /\ d \in Request /\ d.starts = 0 /\ d.said = q.said
        /\ d.forced = q.forced /\ d.allow = q.allow
    BY <1>1, <1>2 DEF Request
  <2>2. req' = [req EXCEPT ![r] = Answered(d, "bad_gateway")]
    BY <1>3, <1>4 DEF Step
  <2> HIDE DEF d, q
  <2>3. d.dead => Justified(d)
    BY <1>2, <2>1 DEF Justified
  <2>4. "bad_gateway" \in OwnAnswers
    BY DEF OwnAnswers
  <2> QED
    BY <1>2, <2>1, <2>2, <2>3, <2>4, AnsweredStands DEF Moves
<1>5. CASE answer # "down" /\ OutOfQuota(answer)
  <2> DEFINE n == [q EXCEPT !.pc = "retry", !.dead = TRUE]
  <2>1. n \in Request
    BY <1>1 DEF Request
  <2>2. /\ n.pc = "retry" /\ n.dead = TRUE /\ n.said = q.said /\ n.tries = 0
        /\ n.route = "none" /\ n.answer = "none" /\ n.starts = 0
        /\ n.forced = q.forced /\ n.allow = q.allow
    BY <1>1, <1>2 DEF Request
  <2>3. req' = [req EXCEPT ![r] = n]
    BY <1>3, <1>5 DEF Step
  <2> HIDE DEF n, q
  <2>4. Standing(n)
    BY EdgeAssumption, <1>2, <2>2 DEF Standing, Blank, Justified
  <2> QED
    BY <2>1, <2>3, <2>4 DEF Moves
<1>6. CASE answer # "down" /\ ~OutOfQuota(answer)
  <2>1. Deliver(r, q, "fallback", answer)
    BY <1>3, <1>6
  <2>2. answer \in PrimaryAnswers \cup BackupAnswers /\ answer # "billing"
    BY <1>6 DEF OutOfQuota
  <2> HIDE DEF q
  <2> QED
    BY <1>1, <1>2, <2>1, <2>2, DeliverMoves
<1> QED
  BY <1>4, <1>5, <1>6

LEMMA RetryRepliesMoves ==
    ASSUME EdgeInv, NEW r \in Requests, RetryReplies(r)
    PROVE  Moves(r)
<1>1. /\ req[r] \in Request /\ Standing(req[r]) /\ req[r].pc = "retry"
  BY DEF EdgeInv, RetryReplies
<1>2. PICK answer \in PrimaryAnswers :
         LET q == [req[r] EXCEPT !.tries = @ + 1]
         IN IF Deliverable(answer) THEN Deliver(r, q, "primary", answer)
            ELSE \/ Step(r, Answered(q, "unavailable"), {})
                 \/ q.tries < MaxTries /\ Step(r, q, {})
  BY DEF RetryReplies
<1> DEFINE q == [req[r] EXCEPT !.tries = @ + 1]
<1>3. req[r].tries \in 0..MaxTries /\ req[r].tries < MaxTries
  BY <1>1 DEF Request, Standing
<1>4. req[r].tries + 1 \in 0..MaxTries
  BY <1>3, EdgeAssumption
<1>5. q \in Request
  BY <1>1, <1>4 DEF Request
<1>6. /\ q.pc = "retry" /\ q.route = "none" /\ q.answer = "none" /\ q.starts = 0 /\ q.dead
      /\ Justified(q) /\ q.said \notin {"ok", "client", "throttle", "fault"}
  BY <1>1 DEF Request, Standing, Blank, Justified
<1>7. IF Deliverable(answer) THEN Deliver(r, q, "primary", answer)
      ELSE \/ Step(r, Answered(q, "unavailable"), {})
           \/ q.tries < MaxTries /\ Step(r, q, {})
  BY <1>2
<1> HIDE DEF q
<1>8. CASE Deliverable(answer)
  <2>1. /\ answer \in PrimaryAnswers \cup BackupAnswers /\ answer # "billing"
        /\ answer \notin {"quota", "outage", "fault"}
    BY <1>8 DEF Deliverable
  <2> QED
    BY <1>5, <1>6, <1>7, <1>8, <2>1, DeliverMoves
<1>9. CASE Step(r, Answered(q, "unavailable"), {})
  <2>1. "unavailable" \in OwnAnswers
    BY DEF OwnAnswers
  <2> QED
    BY <1>5, <1>6, <1>9, <2>1, AnsweredStands DEF Moves, Step
<1>10. CASE q.tries < MaxTries /\ Step(r, q, {})
  BY <1>5, <1>6, <1>10 DEF Moves, Step, Standing, Blank
<1> QED
  BY <1>7, <1>8, <1>9, <1>10

(* The head, and the end of a stream.                                      *)
LEMMA DeliveryMoves ==
    ASSUME EdgeInv, NEW r \in Requests, SendHead(r) \/ StreamEnds(r)
    PROVE  Moves(r)
<1> DEFINE q == req[r]
<1>1. q \in Request /\ Standing(q)
  BY DEF EdgeInv
<1>2. CASE SendHead(r)
  <2>1. q.pc = "deliver" /\ q.starts = 0
    BY <1>1, <1>2 DEF SendHead, Standing
  <2>2. PICK pc \in {"done", "stream"}, answer \in {q.answer, "crash"} :
           /\ req' = [req EXCEPT ![r] = [q EXCEPT !.starts = @ + 1, !.pc = pc, !.answer = answer]]
           /\ answer = "crash" => q.answer = "crash" \/ q.route = "fallback"
    <3>1. \/ Step(r, [[q EXCEPT !.starts = @ + 1] EXCEPT !.pc = "done"], {})
          \/ /\ q.route = "fallback"
             /\ Step(r, [[q EXCEPT !.starts = @ + 1] EXCEPT !.pc = "done", !.answer = "crash"], {})
          \/ Step(r, [[q EXCEPT !.starts = @ + 1] EXCEPT !.pc = "stream"], {})
      BY <1>2 DEF SendHead
    <3>2. \A pc \in {"done", "stream"} :
             [[q EXCEPT !.starts = @ + 1] EXCEPT !.pc = pc]
               = [q EXCEPT !.starts = @ + 1, !.pc = pc, !.answer = q.answer]
      BY <1>1 DEF Request
    <3> QED
      BY <3>1, <3>2 DEF Step
  <2> DEFINE n == [q EXCEPT !.starts = @ + 1, !.pc = pc, !.answer = answer]
  <2>3. q.starts + 1 \in 0..1 /\ answer \in {"none"} \cup PrimaryAnswers \cup BackupAnswers \cup OwnAnswers
    BY <1>1, <2>1 DEF Request, OwnAnswers
  <2>4. n \in Request
    BY <1>1, <2>3 DEF Request
  <2>5. /\ n.pc = pc /\ n.answer = answer /\ n.route = q.route /\ n.dead = q.dead
        /\ n.said = q.said /\ n.forced = q.forced /\ n.allow = q.allow
    BY <1>1 DEF Request
  <2> HIDE DEF n, q
  <2>6. Standing(n)
    BY <1>1, <2>2, <2>5 DEF Standing, Justified
  <2> QED
    BY <2>2, <2>4, <2>6 DEF Moves, n
<1>3. CASE StreamEnds(r)
  <2> DEFINE n == [q EXCEPT !.pc = "done"]
  <2>1. n \in Request
    BY <1>1 DEF Request
  <2>2. /\ n.pc = "done" /\ n.answer = q.answer /\ n.route = q.route /\ n.dead = q.dead
        /\ n.said = q.said /\ n.forced = q.forced /\ n.allow = q.allow
    BY <1>1 DEF Request
  <2>3. req' = [req EXCEPT ![r] = n]
    BY <1>3 DEF StreamEnds, Step
  <2> HIDE DEF n, q
  <2>4. Standing(n)
    BY <1>1, <2>2 DEF Standing, Justified
  <2> QED
    BY <2>1, <2>3, <2>4 DEF Moves
<1> QED
  BY <1>2, <1>3

LEMMA OthersHold ==
    ASSUME EdgeInv, Probe \/ SetMode \/ UNCHANGED edgeVars
    PROVE  EdgeInv'
BY DEF EdgeInv, Probe, SetMode, edgeVars

(* The invariant behind the theorems: where a request may stand with what  *)
(* it was told and by whom (edge/app.py).                                  *)
THEOREM RequestsStand == EdgeSpec => []EdgeInv
<1>1. EdgeInit => EdgeInv
  BY EdgeInitHolds
<1>2. ASSUME EdgeInv, [EdgeNext]_edgeVars
      PROVE  EdgeInv'
  BY <1>2, MoveHolds, BeginMoves, PrimaryRepliesMoves, BackupRepliesMoves, RetryRepliesMoves,
     DeliveryMoves, OthersHold DEF EdgeNext
<1> QED
  BY <1>1, <1>2, PTL DEF EdgeSpec

(* The switch happens before the first byte, once.                         *)
THEOREM SwitchBeforeFirstByte == EdgeSpec => []Committed
<1>1. EdgeInv => Committed
  BY DEF EdgeInv, Committed, Standing, Blank, Request
<1> QED
  BY <1>1, RequestsStand, PTL

(* What the primary said about a request reaches its client, and only an   *)
(* outage, a quota verdict, silence or the forced mode brings it to the    *)
(* backup, whatever the probe and the admin do meanwhile.                  *)
THEOREM PrimaryAnswersKept == EdgeSpec => []AnswerKept
<1>1. EdgeInv => AnswerKept
  BY DEF EdgeInv, AnswerKept, Standing, Justified, Request
<1> QED
  BY <1>1, RequestsStand, PTL

(* The backup's billing death reaches no client.                           *)
THEOREM BillingNeverShown == EdgeSpec => []BillingSwallowed
<1>1. EdgeInv => BillingSwallowed
  BY DEF EdgeInv, BillingSwallowed, Standing
<1> QED
  BY <1>1, RequestsStand, PTL

-----------------------------------------------------------------------------
(* The counters of /healthz.  Each is the number of the requests it tells  *)
(* of: a step of a request counts it exactly where it enters the tally,    *)
(* and no request leaves one.                                              *)

Counters == {"requests", "primary", "fallback", "fallback_failed"}

UnderWay(q) == q.pc \in {"primary", "backup", "retry"}
Refused(q) == q.answer \in {"bad_gateway", "unavailable"}

Tells(c, q) ==
    \/ c = "primary" /\ q.route = "primary"
    \/ c = "fallback" /\ q.route = "fallback"
    \/ c = "fallback_failed" /\ q.dead
    \/ c = "requests" /\ (q.route \in {"primary", "fallback"} \/ Refused(q) \/ UnderWay(q))

Tally(c) == {r \in Requests : Tells(c, req[r])}

CountersTell ==
    /\ stats \in [Counters -> Nat]
    /\ \A c \in Counters : stats[c] = Cardinality(Tally(c))

EdgeCounts ==
    /\ EdgeInv
    /\ mode \in Modes /\ alive \in BOOLEAN
    /\ CountersTell

(* `counted` names the tallies the request enters.                         *)
Enters(r, q, counted) ==
    \A c \in Counters :
       /\ c \in counted => ~Tells(c, req[r])
       /\ Tells(c, q) <=> Tells(c, req[r]) \/ c \in counted

Counts(r) == \E q \in Request, counted \in SUBSET Counters :
                Step(r, q, counted) /\ Enters(r, q, counted)

LEMMA CountsHold ==
    ASSUME EdgeCounts, NEW r \in Requests, Counts(r)
    PROVE  CountersTell'
<1> PICK q \in Request, counted \in SUBSET Counters : Step(r, q, counted) /\ Enters(r, q, counted)
  BY DEF Counts
<1> USE DEF EdgeCounts, CountersTell
<1>1. /\ stats' = [c \in Counters |-> stats[c] + (IF c \in counted THEN 1 ELSE 0)]
      /\ req' = [req EXCEPT ![r] = q] /\ req \in [Requests -> Request]
  BY DEF Step, EdgeInv
<1>2. stats' \in [Counters -> Nat]
  BY <1>1
<1>3. ASSUME NEW c \in Counters
      PROVE  stats'[c] = Cardinality(Tally(c)')
  <2>1. IsFiniteSet(Tally(c)) /\ stats[c] = Cardinality(Tally(c))
    BY EdgeAssumption, FS_Subset DEF Tally
  <2>2. CASE c \in counted
    <3>1. Tally(c)' = Tally(c) \cup {r} /\ r \notin Tally(c)
      BY <1>1, <2>2 DEF Tally, Enters
    <3>2. Cardinality(Tally(c) \cup {r}) = Cardinality(Tally(c)) + 1
      BY <2>1, <3>1, FS_AddElement
    <3> QED
      BY <1>1, <2>1, <2>2, <3>1, <3>2
  <2>3. CASE c \notin counted
    <3>1. Tally(c)' = Tally(c)
      BY <1>1, <2>3 DEF Tally, Enters
    <3> QED
      BY <1>1, <2>1, <2>3, <3>1
  <2> QED
    BY <2>2, <2>3
<1> QED
  BY <1>2, <1>3

(* What a request that is under way is counted for, and what it will be.   *)
LEMMA UnderWayTells ==
    ASSUME NEW q \in Request, Blank(q), UnderWay(q), NEW c \in Counters
    PROVE  Tells(c, q) <=> c = "requests" \/ (c = "fallback_failed" /\ q.dead)
BY DEF Tells, Blank, Counters, UnderWay

LEMMA DeliverCounts ==
    ASSUME NEW r \in Requests, NEW q \in Request, req[r] \in Request,
           Blank(req[r]), UnderWay(req[r]), q.dead = req[r].dead,
           NEW route \in {"primary", "fallback"},
           NEW answer \in PrimaryAnswers \cup BackupAnswers,
           Deliver(r, q, route, answer)
    PROVE  Counts(r)
<1> DEFINE n == [q EXCEPT !.pc = "deliver", !.route = route, !.answer = answer]
<1>1. n \in Request /\ n.pc = "deliver" /\ n.route = route /\ n.dead = q.dead /\ n.answer = answer
  BY DEF Request
<1>2. Step(r, n, {route})
  BY DEF Deliver
<1> HIDE DEF n
<1>3. Enters(r, n, {route})
  BY <1>1 DEF Enters, Tells, Blank, UnderWay, Refused, Counters, PrimaryAnswers, BackupAnswers
<1> QED
  BY <1>1, <1>2, <1>3 DEF Counts, Counters

(* The edge refuses a request: one that was under way, or one that begins. *)
LEMMA RefusalCounts ==
    ASSUME NEW r \in Requests, req[r] \in Request, Blank(req[r]), ~req[r].dead \/ req[r].pc = "retry",
           NEW q \in Request, q.starts = 0,
           NEW answer \in {"bad_gateway", "unavailable"},
           NEW counted \in SUBSET Counters,
           counted = (IF UnderWay(req[r]) THEN {} ELSE {"requests"})
                       \cup (IF q.dead /\ ~req[r].dead THEN {"fallback_failed"} ELSE {}),
           req[r].dead => q.dead,
           Step(r, Answered(q, answer), counted)
    PROVE  Counts(r)
<1> DEFINE n == Answered(q, answer)
<1>1. n \in Request /\ n.pc = "done" /\ n.route = "edge" /\ n.answer = answer /\ n.dead = q.dead
  BY AnsweredFields DEF OwnAnswers
<1> HIDE DEF n
<1>2. Enters(r, n, counted)
  BY <1>1 DEF Enters, Tells, Blank, UnderWay, Refused, Counters
<1> QED
  BY <1>1, <1>2 DEF Counts, n

LEMMA ServeFallbackCounts ==
    ASSUME NEW r \in Requests, req[r] \in Request, Blank(req[r]), ~req[r].dead,
           NEW q \in Request, Blank(q), ~q.dead,
           NEW counted \in SUBSET Counters,
           counted = IF UnderWay(req[r]) THEN {} ELSE {"requests"},
           ServeFallback(r, q, counted)
    PROVE  Counts(r)
<1>1. CASE q.can /\ q.kind = "chat"
  <2> DEFINE n == [q EXCEPT !.pc = "backup"]
  <2>1. /\ n \in Request /\ n.pc = "backup" /\ n.route = q.route /\ n.dead = q.dead
        /\ n.answer = q.answer
    BY DEF Request
  <2>2. Step(r, n, counted)
    BY <1>1 DEF ServeFallback
  <2> HIDE DEF n
  <2>3. Enters(r, n, counted)
    BY <2>1 DEF Enters, Tells, Blank, UnderWay, Refused, Counters
  <2> QED
    BY <2>1, <2>2, <2>3 DEF Counts
<1>2. CASE ~(q.can /\ q.kind = "chat")
  <2> DEFINE d == [q EXCEPT !.dead = TRUE]
             both == counted \cup {"fallback_failed"}
  <2>1. d \in Request /\ d.starts = 0 /\ d.dead
    BY DEF Request, Blank
  <2>2. Step(r, Answered(d, "bad_gateway"), both)
    BY <1>2 DEF ServeFallback
  <2>3. both \in SUBSET Counters
    BY DEF Counters
  <2>4. both = (IF UnderWay(req[r]) THEN {} ELSE {"requests"})
                 \cup (IF d.dead /\ ~req[r].dead THEN {"fallback_failed"} ELSE {})
    BY <2>1
  <2> HIDE DEF d, both
  <2> QED
    BY <2>1, <2>2, <2>3, <2>4, RefusalCounts
<1> QED
  BY <1>1, <1>2

(* A step that enters no tally.                                            *)
LEMMA PassesUncounted ==
    ASSUME NEW r \in Requests, req[r] \in Request, NEW q \in Request, Step(r, q, {}),
           q.route = req[r].route, q.dead = req[r].dead,
           Refused(q) <=> Refused(req[r]), UnderWay(q) <=> UnderWay(req[r])
    PROVE  Counts(r)
<1>1. Enters(r, q, {})
  BY DEF Enters, Tells, Counters
<1> QED
  BY <1>1 DEF Counts

LEMMA BeginCounts ==
    ASSUME EdgeInv, NEW r \in Requests, Begin(r)
    PROVE  Counts(r)
<1>1. /\ req[r] \in Request /\ Blank(req[r]) /\ ~req[r].dead /\ ~UnderWay(req[r])
      /\ req[r].pc = "idle"
  BY DEF EdgeInv, Begin, Standing, UnderWay
<1>2. ASSUME NEW kind \in Kinds, NEW can \in BOOLEAN, NEW allow \in BOOLEAN, NEW forced \in BOOLEAN,
             NEW q, q = [req[r] EXCEPT !.kind = kind, !.can = can, !.allow = allow, !.forced = forced],
             IF q.forced THEN ServeFallback(r, q, {"requests"})
             ELSE Step(r, [q EXCEPT !.pc = "primary"], {"requests"})
      PROVE  Counts(r)
  <2>1. q \in Request /\ Blank(q) /\ ~q.dead
    BY <1>1, <1>2, ZenonT(60) DEF Request, Blank
  <2>2. CASE q.forced
    <3>1. {"requests"} \in SUBSET Counters
      BY DEF Counters
    <3>2. {"requests"} = IF UnderWay(req[r]) THEN {} ELSE {"requests"}
      BY <1>1
    <3>3. ServeFallback(r, q, {"requests"})
      BY <1>2, <2>2
    <3> QED
      BY <1>1, <2>1, <3>1, <3>2, <3>3, ServeFallbackCounts
  <2>3. CASE ~q.forced
    <3> DEFINE n == [q EXCEPT !.pc = "primary"]
    <3>1. Step(r, n, {"requests"})
      BY <1>2, <2>3
    <3>2. n \in Request /\ n.pc = "primary" /\ Blank(n) /\ ~n.dead
      BY <2>1 DEF Request, Blank
    <3> HIDE DEF n
    <3>3. Enters(r, n, {"requests"})
      BY <1>1, <3>2 DEF Enters, Tells, Blank, UnderWay, Refused, Counters
    <3> QED
      BY <3>1, <3>2, <3>3 DEF Counts, Counters
  <2> QED
    BY <2>2, <2>3
<1>3. CASE \E kind \in Kinds :
             LET can == Configured /\ kind # "other"
                 q == [req[r] EXCEPT !.kind = kind, !.can = can,
                                     !.allow = can /\ mode \in {"auto", "fallback"},
                                     !.forced = can /\ mode = "fallback"]
             IN IF q.forced THEN ServeFallback(r, q, {"requests"})
                ELSE Step(r, [q EXCEPT !.pc = "primary"], {"requests"})
  BY <1>2, <1>3
<1>4. CASE Step(r, Answered(req[r], "too_large"), {})
  <2> DEFINE n == Answered(req[r], "too_large")
  <2>1. /\ n \in Request /\ n.pc = "done" /\ n.route = "edge" /\ n.answer = "too_large"
        /\ n.dead = req[r].dead
    BY <1>1, AnsweredFields DEF OwnAnswers, Blank
  <2> HIDE DEF n
  <2>2. Enters(r, n, {})
    BY <1>1, <2>1 DEF Enters, Tells, Blank, UnderWay, Refused, Counters
  <2> QED
    BY <1>4, <2>1, <2>2 DEF Counts, n
<1>5. CASE Step(r, [req[r] EXCEPT !.pc = "done"], {})
  <2> DEFINE n == [req[r] EXCEPT !.pc = "done"]
  <2>1. /\ n \in Request /\ n.pc = "done" /\ n.route = req[r].route /\ n.dead = req[r].dead
        /\ n.answer = req[r].answer
    BY <1>1 DEF Request
  <2> HIDE DEF n
  <2> QED
    BY <1>1, <1>5, <2>1, PassesUncounted DEF n, UnderWay, Refused
<1> QED
  BY <1>3, <1>4, <1>5 DEF Begin

LEMMA PrimaryRepliesCounts ==
    ASSUME EdgeInv, NEW r \in Requests, PrimaryReplies(r)
    PROVE  Counts(r)
<1>1. req[r] \in Request /\ Blank(req[r]) /\ ~req[r].dead /\ UnderWay(req[r])
  BY DEF EdgeInv, PrimaryReplies, Standing, UnderWay
<1>2. PICK answer \in PrimaryAnswers :
         LET q == [req[r] EXCEPT !.said = answer]
         IN IF answer = "down"
            THEN IF q.allow THEN ServeFallback(r, q, {})
                 ELSE Step(r, Answered(q, "bad_gateway"), {})
            ELSE IF FailoverReason(answer) /\ q.allow THEN ServeFallback(r, q, {})
            ELSE Deliver(r, q, "primary", answer)
  BY DEF PrimaryReplies
<1> DEFINE q == [req[r] EXCEPT !.said = answer]
<1>3. q \in Request /\ Blank(q) /\ ~q.dead /\ q.dead = req[r].dead /\ q.starts = 0
  BY <1>1 DEF Request, Blank
<1>4. \/ ServeFallback(r, q, {})
      \/ Step(r, Answered(q, "bad_gateway"), {})
      \/ Deliver(r, q, "primary", answer)
  BY <1>2
<1> HIDE DEF q
<1>5. {} \in SUBSET Counters
  OBVIOUS
<1>6. CASE ServeFallback(r, q, {})
  <2>1. {} = IF UnderWay(req[r]) THEN {} ELSE {"requests"}
    BY <1>1
  <2> QED
    BY <1>1, <1>3, <1>5, <1>6, <2>1, ServeFallbackCounts
<1>7. CASE Step(r, Answered(q, "bad_gateway"), {})
  <2>1. {} = (IF UnderWay(req[r]) THEN {} ELSE {"requests"})
               \cup (IF q.dead /\ ~req[r].dead THEN {"fallback_failed"} ELSE {})
    BY <1>1, <1>3
  <2> QED
    BY <1>1, <1>3, <1>5, <1>7, <2>1, RefusalCounts
<1>8. CASE Deliver(r, q, "primary", answer)
  <2>1. answer \in PrimaryAnswers \cup BackupAnswers
    OBVIOUS
  <2> QED
    BY <1>1, <1>3, <1>8, <2>1, DeliverCounts
<1> QED
  BY <1>4, <1>6, <1>7, <1>8

LEMMA BackupRepliesCounts ==
    ASSUME EdgeInv, NEW r \in Requests, BackupReplies(r)
    PROVE  Counts(r)
<1> DEFINE q == req[r]
<1>1. q \in Request /\ Blank(q) /\ ~q.dead /\ UnderWay(q)
  BY DEF EdgeInv, BackupReplies, Standing, UnderWay
<1>2. PICK answer \in BackupAnswers :
         CASE answer = "down" ->
                Step(r, Answered([q EXCEPT !.dead = TRUE], "bad_gateway"),
                     {"fallback_failed"})
           [] answer # "down" /\ OutOfQuota(answer) ->
                Step(r, [q EXCEPT !.pc = "retry", !.dead = TRUE], {"fallback_failed"})
           [] OTHER -> Deliver(r, q, "fallback", answer)
  BY DEF BackupReplies
<1>3. {"fallback_failed"} \in SUBSET Counters
  BY DEF Counters
<1>4. CASE answer = "down"
  <2> DEFINE d == [q EXCEPT !.dead = TRUE]
  <2>1. d \in Request /\ d.starts = 0 /\ d.dead
    BY <1>1 DEF Request, Blank
  <2>2. Step(r, Answered(d, "bad_gateway"), {"fallback_failed"})
    BY <1>2, <1>4
  <2>3. {"fallback_failed"} = (IF UnderWay(q) THEN {} ELSE {"requests"})
                                \cup (IF d.dead /\ ~q.dead THEN {"fallback_failed"} ELSE {})
    BY <1>1, <2>1
  <2> HIDE DEF d
  <2> QED
    BY <1>1, <1>3, <2>1, <2>2, <2>3, RefusalCounts
<1>5. CASE answer # "down" /\ OutOfQuota(answer)
  <2> DEFINE n == [q EXCEPT !.pc = "retry", !.dead = TRUE]
  <2>1. /\ n \in Request /\ n.pc = "retry" /\ n.dead = TRUE /\ n.route = q.route
        /\ n.answer = q.answer
    BY <1>1 DEF Request
  <2>2. Step(r, n, {"fallback_failed"})
    BY <1>2, <1>5
  <2> HIDE DEF n
  <2>3. Enters(r, n, {"fallback_failed"})
    BY <1>1, <2>1 DEF Enters, Tells, Blank, UnderWay, Refused, Counters
  <2> QED
    BY <1>3, <2>1, <2>2, <2>3 DEF Counts
<1>6. CASE answer # "down" /\ ~OutOfQuota(answer)
  <2>1. Deliver(r, q, "fallback", answer)
    BY <1>2, <1>6
  <2> QED
    BY <1>1, <2>1, DeliverCounts
<1> QED
  BY <1>4, <1>5, <1>6

LEMMA RetryRepliesCounts ==
    ASSUME EdgeInv, NEW r \in Requests, RetryReplies(r)
    PROVE  Counts(r)
<1>1. /\ req[r] \in Request /\ Blank(req[r]) /\ req[r].dead /\ req[r].pc = "retry"
      /\ req[r].tries < MaxTries /\ UnderWay(req[r])
  BY DEF EdgeInv, RetryReplies, Standing, UnderWay
<1>2. PICK answer \in PrimaryAnswers :
         LET q == [req[r] EXCEPT !.tries = @ + 1]
         IN IF Deliverable(answer) THEN Deliver(r, q, "primary", answer)
            ELSE \/ Step(r, Answered(q, "unavailable"), {})
                 \/ q.tries < MaxTries /\ Step(r, q, {})
  BY DEF RetryReplies
<1> DEFINE q == [req[r] EXCEPT !.tries = @ + 1]
<1>3. req[r].tries + 1 \in 0..MaxTries
  BY <1>1, EdgeAssumption DEF Request
<1>4. /\ q \in Request /\ q.starts = 0 /\ q.dead /\ q.pc = "retry" /\ q.route = req[r].route
      /\ q.answer = req[r].answer /\ q.dead = req[r].dead
  BY <1>1, <1>3 DEF Request, Blank
<1>5. \/ Deliver(r, q, "primary", answer)
      \/ Step(r, Answered(q, "unavailable"), {})
      \/ Step(r, q, {})
  BY <1>2
<1> HIDE DEF q
<1>6. CASE Deliver(r, q, "primary", answer)
  BY <1>1, <1>4, <1>6, DeliverCounts
<1>7. CASE Step(r, Answered(q, "unavailable"), {})
  <2>1. {} = (IF UnderWay(req[r]) THEN {} ELSE {"requests"})
               \cup (IF q.dead /\ ~req[r].dead THEN {"fallback_failed"} ELSE {})
    BY <1>1
  <2>2. {} \in SUBSET Counters
    OBVIOUS
  <2> QED
    BY <1>1, <1>4, <1>7, <2>1, <2>2, RefusalCounts
<1>8. CASE Step(r, q, {})
  BY <1>1, <1>4, <1>8, PassesUncounted DEF UnderWay, Refused
<1> QED
  BY <1>5, <1>6, <1>7, <1>8

LEMMA DeliveryCounts ==
    ASSUME EdgeInv, NEW r \in Requests, SendHead(r) \/ StreamEnds(r)
    PROVE  Counts(r)
<1> DEFINE q == req[r]
<1>1. q \in Request /\ ~UnderWay(q)
  <2>1. req[r].pc \in {"deliver", "stream"}
    BY DEF SendHead, StreamEnds
  <2> QED
    BY <2>1 DEF EdgeInv, UnderWay
<1>2. CASE SendHead(r)
  <2>1. q.starts = 0
    BY <1>2 DEF SendHead, EdgeInv, Standing
  <2>2. \/ Step(r, [[q EXCEPT !.starts = @ + 1] EXCEPT !.pc = "done"], {})
        \/ /\ q.answer = "ok"
           /\ Step(r, [[q EXCEPT !.starts = @ + 1] EXCEPT !.pc = "done", !.answer = "crash"], {})
        \/ Step(r, [[q EXCEPT !.starts = @ + 1] EXCEPT !.pc = "stream"], {})
    BY <1>2 DEF SendHead
  <2>3. ASSUME NEW pc \in {"done", "stream"}, NEW answer \in {q.answer, "crash"},
               answer = "crash" => q.answer \in {"ok", "crash"},
               Step(r, [q EXCEPT !.starts = @ + 1, !.pc = pc, !.answer = answer], {})
        PROVE  Counts(r)
    <3> DEFINE n == [q EXCEPT !.starts = @ + 1, !.pc = pc, !.answer = answer]
    <3>1. q.starts + 1 \in 0..1 /\ answer \in {"none"} \cup PrimaryAnswers \cup BackupAnswers \cup OwnAnswers
      BY <1>1, <2>1 DEF Request, OwnAnswers
    <3>2. n \in Request
      BY <1>1, <3>1 DEF Request
    <3>3. n.pc = pc /\ n.answer = answer /\ n.route = q.route /\ n.dead = q.dead
      BY <1>1 DEF Request
    <3>4. Step(r, n, {})
      BY <2>3
    <3> HIDE DEF n
    <3>5. (Refused(n) <=> Refused(q)) /\ ~UnderWay(n)
      BY <2>3, <3>3 DEF Refused, UnderWay
    <3> QED
      BY <1>1, <3>2, <3>3, <3>4, <3>5, PassesUncounted
  <2>4. \A pc \in {"done", "stream"} :
           /\ [[q EXCEPT !.starts = @ + 1] EXCEPT !.pc = pc]
                = [q EXCEPT !.starts = @ + 1, !.pc = pc, !.answer = q.answer]
           /\ [[q EXCEPT !.starts = @ + 1] EXCEPT !.pc = pc, !.answer = "crash"]
                = [q EXCEPT !.starts = @ + 1, !.pc = pc, !.answer = "crash"]
    BY <1>1 DEF Request
  <2> HIDE DEF q
  <2> QED
    BY <2>2, <2>3, <2>4
<1>3. CASE StreamEnds(r)
  <2> DEFINE n == [q EXCEPT !.pc = "done"]
  <2>1. /\ n \in Request /\ n.pc = "done" /\ n.route = q.route /\ n.dead = q.dead
        /\ n.answer = q.answer
    BY <1>1 DEF Request
  <2>2. Step(r, n, {})
    BY <1>3 DEF StreamEnds
  <2> HIDE DEF n
  <2> QED
    BY <1>1, <2>1, <2>2, PassesUncounted DEF UnderWay, Refused
<1> QED
  BY <1>2, <1>3

LEMMA CountsInitHold == EdgeInit => EdgeCounts
<1> SUFFICES ASSUME EdgeInit
             PROVE  EdgeCounts
  OBVIOUS
<1>1. ASSUME NEW c \in Counters
      PROVE  Tally(c) = {} /\ stats[c] = 0
  BY DEF EdgeInit, Tally, Tells, Refused, UnderWay, Counters
<1>2. stats \in [Counters -> Nat]
  BY DEF EdgeInit, Counters
<1>3. CountersTell
  BY <1>1, <1>2, FS_EmptySet DEF CountersTell
<1> QED
  BY <1>3, EdgeInitHolds DEF EdgeCounts, EdgeInit

(* The steps of the others leave the requests and the counters alone.      *)
LEMMA OthersKeepCounts ==
    ASSUME EdgeCounts, Probe \/ SetMode \/ UNCHANGED edgeVars
    PROVE  EdgeCounts'
<1>1. UNCHANGED <<req, stats>> /\ mode' \in Modes
  BY DEF EdgeCounts, Probe, SetMode, edgeVars
<1>2. alive' \in BOOLEAN
  <2>1. ASSUME Probe
        PROVE  alive' \in BOOLEAN
    <3>1. PICK answer \in PrimaryAnswers :
             alive' = (answer \in {"ok", "client", "throttle", "quota"})
      BY <2>1 DEF Probe
    <3> QED
      BY <3>1
  <2>2. SetMode \/ UNCHANGED edgeVars => alive' = alive
    BY DEF SetMode, edgeVars
  <2> QED
    BY <2>1, <2>2, Zenon DEF EdgeCounts
<1>3. CountersTell'
  BY <1>1 DEF EdgeCounts, CountersTell, Tally
<1> QED
  BY <1>1, <1>2, <1>3, OthersHold DEF EdgeCounts

(* Every step of a request keeps it in order and counts it where it goes.  *)
LEMMA RequestKeepsCounts ==
    ASSUME EdgeCounts, NEW r \in Requests,
           \/ Begin(r) \/ PrimaryReplies(r) \/ BackupReplies(r) \/ RetryReplies(r)
           \/ SendHead(r) \/ StreamEnds(r)
    PROVE  EdgeCounts'
<1>1. Moves(r)
  BY BeginMoves, PrimaryRepliesMoves, BackupRepliesMoves, RetryRepliesMoves, DeliveryMoves
     DEF EdgeCounts
<1>2. Counts(r)
  BY BeginCounts, PrimaryRepliesCounts, BackupRepliesCounts, RetryRepliesCounts, DeliveryCounts
     DEF EdgeCounts
<1>3. UNCHANGED <<mode, alive>>
  BY DEF Begin, PrimaryReplies, BackupReplies, RetryReplies, SendHead, StreamEnds
<1> QED
  BY <1>1, <1>2, <1>3, MoveHolds, CountsHold DEF EdgeCounts

(* The invariant behind the balance: each counter is the number of the     *)
(* requests it tells of (edge/app.py, the stats of _forward and _deliver). *)
THEOREM CountersTellTrue == EdgeSpec => []EdgeCounts
<1>1. EdgeInit => EdgeCounts
  BY CountsInitHold
<1>2. EdgeCounts /\ [EdgeNext]_edgeVars => EdgeCounts'
  BY OthersKeepCounts, RequestKeepsCounts DEF EdgeNext
<1> QED
  BY <1>1, <1>2, PTL DEF EdgeSpec

(* The requests counted are those of four tallies no two of which share a  *)
(* request.                                                                *)
LEMMA CountedApart ==
    ASSUME EdgeInv
    PROVE  LET refused == {r \in Requests : Refused(req[r])}
               busy == {r \in Requests : UnderWay(req[r])}
           IN Cardinality(Tally("requests"))
                = Cardinality(Tally("primary")) + Cardinality(Tally("fallback"))
                    + Cardinality(refused) + Cardinality(busy)
<1> DEFINE p == Tally("primary")
           f == Tally("fallback")
           e == {r \in Requests : Refused(req[r])}
           b == {r \in Requests : UnderWay(req[r])}
<1>1. /\ IsFiniteSet(p) /\ IsFiniteSet(f) /\ IsFiniteSet(e) /\ IsFiniteSet(b)
      /\ IsFiniteSet(p \cup f) /\ IsFiniteSet(p \cup f \cup e)
  BY EdgeAssumption, FS_Subset, FS_Union DEF Tally
<1>2. Tally("requests") = p \cup f \cup e \cup b
  BY DEF Tally, Tells
<1>3. p \cap f = {} /\ (p \cup f) \cap e = {} /\ (p \cup f \cup e) \cap b = {}
  BY DEF EdgeInv, Standing, Blank, Tally, Tells, Refused, UnderWay
<1> HIDE DEF p, f, e, b
<1>4. /\ Cardinality(p \cup f) = Cardinality(p) + Cardinality(f)
      /\ Cardinality(p \cup f \cup e) = Cardinality(p \cup f) + Cardinality(e)
      /\ Cardinality(p \cup f \cup e \cup b) = Cardinality(p \cup f \cup e) + Cardinality(b)
  <2>1. ASSUME NEW s, NEW t, IsFiniteSet(s), IsFiniteSet(t), s \cap t = {}
        PROVE  Cardinality(s \cup t) = Cardinality(s) + Cardinality(t)
    <3>1. Cardinality(s) \in Nat /\ Cardinality(t) \in Nat /\ Cardinality({}) = 0
      BY <2>1, FS_CardinalityType, FS_EmptySet
    <3>2. Cardinality(s \cup t) = Cardinality(s) + Cardinality(t) - Cardinality(s \cap t)
      BY <2>1, FS_Union
    <3>3. Cardinality(s \cap t) = 0
      BY <2>1, <3>1, Zenon
    <3> QED
      BY <3>1, <3>2, <3>3
  <2> QED
    BY <1>1, <1>3, <2>1
<1> QED
  BY <1>2, <1>4 DEF p, f, e, b

(* /healthz adds up in every state, for any number of requests: each one   *)
(* counted is under way, delivered on the route it is counted for, or      *)
(* refused, and the state is well typed (_forward, _deliver,               *)
(* _serve_fallback, _retry_primary_or_503).                                *)
THEOREM EdgeStaysSound == EdgeSpec => []EdgeSound
<1>1. ASSUME EdgeCounts
      PROVE  StatsBalance
  <2>1. /\ stats.requests = Cardinality(Tally("requests"))
        /\ stats.primary = Cardinality(Tally("primary"))
        /\ stats.fallback = Cardinality(Tally("fallback"))
        /\ stats.fallback_failed = Cardinality(Tally("fallback_failed"))
    BY <1>1 DEF EdgeCounts, CountersTell, Counters
  <2>2. /\ Tally("primary") = {r \in Requests : req[r].route = "primary"}
        /\ Tally("fallback") = {r \in Requests : req[r].route = "fallback"}
        /\ Tally("fallback_failed") = {r \in Requests : req[r].dead}
    BY DEF Tally, Tells
  <2> QED
    BY <1>1, <2>1, <2>2, CountedApart DEF EdgeCounts, StatsBalance, Refused, UnderWay
<1>2. ASSUME EdgeCounts
      PROVE  EdgeTypeOK
  <2>1. \A c \in Counters : stats[c] \in Counter
    <3> SUFFICES ASSUME NEW c \in Counters
                 PROVE  stats[c] \in Counter
      OBVIOUS
    <3>1. Tally(c) \in SUBSET Requests
      BY DEF Tally
    <3>2. Cardinality(Tally(c)) \in Nat /\ Cardinality(Tally(c)) <= Cardinality(Requests)
          /\ Cardinality(Requests) \in Nat
      BY <3>1, EdgeAssumption, FS_Subset, FS_CardinalityType
    <3> QED
      BY <1>2, <3>2 DEF EdgeCounts, CountersTell, Counter
  <2>2. stats \in [requests: Counter, primary: Counter, fallback: Counter,
                   fallback_failed: Counter]
    BY <1>2, <2>1 DEF EdgeCounts, CountersTell, Counters
  <2> QED
    BY <1>2, <2>2 DEF EdgeCounts, EdgeInv, EdgeTypeOK
<1> QED
  BY <1>1, <1>2, CountersTellTrue, PTL DEF EdgeSound

=============================================================================
