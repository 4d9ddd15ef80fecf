------------------------------ MODULE Failover ------------------------------
(***************************************************************************)
(* The failover adapter (proxy_opencode/upstreams/failover.py): requests   *)
(* go to the primary chain unless a hold is running, a failed one is       *)
(* answered by the paid backup chain, and a daily budget caps the backup.  *)
(* chat() awaits in two places, in the primary (its own deadline and the   *)
(* prefetch of the first chunk included) and in the backup; everything     *)
(* between them is one step.                                               *)
(***************************************************************************)
EXTENDS Naturals, Integers, FiniteSets

CONSTANTS
    Requests,       \* concurrent calls of chat()
    HoldTime,       \* zen_fallback_hold_s, in units of the tick
    RecoverAfter,   \* zen_fallback_recover_after
    DailyMax,       \* zen_fallback_daily_max; 0 is no limit
    Scopes,         \* the values zen_fallback_request_scoped may have
    LastDay         \* bound on the days that pass

ASSUME FailoverAssumption ==
    /\ IsFiniteSet(Requests)
    /\ HoldTime \in Nat \ {0}
    /\ RecoverAfter \in Nat \ {0}
    /\ DailyMax \in Nat
    /\ Scopes \subseteq BOOLEAN
    /\ LastDay \in Nat

VARIABLES
    until,    \* _fallback_until as time still to run; NoHold is 0.0
    streak,   \* _primary_streak, counted up to RecoverAfter
    budget,   \* _budget_day and _budget_used
    today,    \* the UTC day
    scoped,   \* _request_scoped
    place     \* request -> where its chat() is

failVars == <<until, streak, budget, today, scoped, place>>

-----------------------------------------------------------------------------

NoHold == -1

Holding == until > 0

Places == {"away", "primary", "backup"}

(* The calls the backup is working on.                                     *)
AtBackup == {r \in Requests : place[r] = "backup"}

FailoverTypeOK ==
    /\ until \in NoHold..HoldTime
    /\ streak \in 0..RecoverAfter
    /\ budget \in [day: 0..LastDay, used: Nat]
    /\ today \in 0..LastDay
    /\ scoped \in BOOLEAN
    /\ place \in [Requests -> Places]

FailoverInit ==
    /\ until = NoHold
    /\ streak = 0
    /\ budget = [day |-> 0, used |-> 0]
    /\ today = 0
    /\ scoped \in Scopes
    /\ place = [r \in Requests |-> "away"]

Goes(r, to) == place' = [place EXCEPT ![r] = to]

-----------------------------------------------------------------------------

(* The counter of today: yesterday's starts over at zero.                  *)
TodaysBudget == IF budget.day = today THEN budget ELSE [day |-> today, used |-> 0]

Spent == DailyMax > 0 /\ TodaysBudget.used >= DailyMax

(* What looking at the budget leaves behind.                               *)
Looked == budget' = IF DailyMax > 0 THEN TodaysBudget ELSE budget

(* Fault: an open breaker does not spare the primary.                      *)
CallPrimaryAnyway(r) ==
    /\ place[r] = "away"
    /\ Goes(r, "primary")
    /\ UNCHANGED <<until, streak, budget, today, scoped>>

CallPrimary(r) ==
    /\ place[r] = "away"
    /\ ~Holding
    /\ Goes(r, "primary")
    /\ UNCHANGED <<until, streak, budget, today, scoped>>

(* Fault: the open breaker does not look at the budget.                    *)
DivertUnchecked(r) ==
    /\ place[r] = "away"
    /\ Holding
    /\ Goes(r, "backup")
    /\ UNCHANGED <<until, streak, budget, today, scoped>>

(* While the hold runs, the backup answers, or a 503 when it is spent.     *)
Divert(r) ==
    /\ place[r] = "away"
    /\ Holding
    /\ Looked
    /\ IF Spent THEN UNCHANGED place ELSE Goes(r, "backup")
    /\ UNCHANGED <<until, streak, today, scoped>>

(* Fault: any success closes the breaker.                                  *)
PrimaryAnswersCloses(r) ==
    /\ place[r] = "primary"
    /\ Goes(r, "away")
    /\ until' = NoHold
    /\ streak' = 0
    /\ UNCHANGED <<budget, today, scoped>>

(* A success counts, whenever its request started.                         *)
PrimaryAnswers(r) ==
    /\ place[r] = "primary"
    /\ Goes(r, "away")
    /\ IF until # NoHold /\ streak + 1 >= RecoverAfter
       THEN until' = NoHold /\ streak' = 0
       ELSE /\ streak' = IF streak < RecoverAfter THEN streak + 1 ELSE streak
            /\ UNCHANGED until
    /\ UNCHANGED <<budget, today, scoped>>

(* A fault of the client's own (400, 401, 404, 422, an invalid request) is *)
(* relayed, and so is one that hangs up; neither touches the breaker.      *)
RequestEnds(r) ==
    /\ place[r] # "away"
    /\ Goes(r, "away")
    /\ UNCHANGED <<until, streak, budget, today, scoped>>

(* Any other answer, an exception and both deadlines: _trip, unless the    *)
(* budget is spent and the primary's own error is relayed.                 *)
PrimaryFails(r) ==
    /\ place[r] = "primary"
    /\ Looked
    /\ IF Spent
       THEN Goes(r, "away") /\ UNCHANGED <<until, streak>>
       ELSE /\ Goes(r, "backup")
            /\ until' = IF scoped THEN until ELSE HoldTime
            /\ streak' = 0
    /\ UNCHANGED <<today, scoped>>

(* A served backup answer is charged to the day it arrives on.             *)
BackupAnswers(r) ==
    /\ place[r] = "backup"
    /\ Goes(r, "away")
    /\ budget' = IF DailyMax > 0
                 THEN [TodaysBudget EXCEPT !.used = @ + 1] ELSE budget
    /\ UNCHANGED <<until, streak, today, scoped>>

(* An error answer of the backup releases the hold; an unreachable backup  *)
(* (RequestEnds) does not.                                                 *)
BackupErrors(r) ==
    /\ place[r] = "backup"
    /\ Goes(r, "away")
    /\ until' = NoHold
    /\ UNCHANGED <<streak, budget, today, scoped>>

Tick ==
    /\ Holding
    /\ until' = until - 1
    /\ UNCHANGED <<streak, budget, today, scoped, place>>

Midnight ==
    /\ today < LastDay
    /\ today' = today + 1
    /\ UNCHANGED <<until, streak, budget, scoped, place>>

FailoverNext ==
    \/ Tick
    \/ Midnight
    \/ \E r \in Requests :
          \/ CallPrimary(r) \/ Divert(r) \/ RequestEnds(r)
          \/ PrimaryAnswers(r) \/ PrimaryFails(r)
          \/ BackupAnswers(r) \/ BackupErrors(r)

FailoverSpec == FailoverInit /\ [][FailoverNext]_failVars

(* The clock of the hold does not stop.                                    *)
FailoverFairSpec == FailoverSpec /\ WF_failVars(Tick)

-----------------------------------------------------------------------------

(* The refinement mapping: a hold that ran out is a half-open breaker.     *)
Guard == INSTANCE Breaker WITH
    Probes <- RecoverAfter,
    mode <- IF until = NoHold THEN "closed" ELSE IF Holding THEN "open" ELSE "halfopen",
    good <- streak,
    place <- place

(* The adapter is a circuit breaker, with any number of requests under way:*)
(* only a running hold keeps a request from the primary, only a failure of *)
(* the primary opens one, and only enough successes after the last failure *)
(* or a backup that cannot serve close it (FailoverAdapter.chat).          *)
BreakerImplemented == Guard!BreakerSpec

(* The budget is looked at before the await and charged after it, so       *)
(* requests that are at the backup together may pass the cap of the day.   *)
(* They pass it by less than their number, because nothing is sent to a    *)
(* spent backup, through a hold or after a failure (_budget_blocked,       *)
(* _note_backup_served).                                                   *)
OverrunBounded ==
    DailyMax > 0 /\ budget.used >= DailyMax =>
       budget.used + Cardinality(AtBackup) < DailyMax + Cardinality(Requests)

(* A hold ends: during it nothing new reaches the primary, so only the     *)
(* requests that were already there can extend it (chat, _trip).           *)
HoldEnds == Holding ~> ~Holding

(* Documented: "the breaker only closes once _recover_after consecutive    *)
(* probes have succeeded", probes being requests "past the hold window".   *)
(* A request that started before the trip may end inside the window and    *)
(* count, which a backup that answered with an error is not needed for.    *)
ClosedByProbes ==
    [][Holding /\ until' = NoHold => \E r \in Requests : BackupErrors(r)]_failVars

(* Documented: the budget is a "daily cap on requests the backup chain may *)
(* serve".                                                                 *)
CapNotPassed == DailyMax > 0 => budget.used <= DailyMax
=============================================================================
