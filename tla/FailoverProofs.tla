--------------------------- MODULE FailoverProofs ---------------------------
(***************************************************************************)
(* Theorems about Failover: typing, the bound on how far the daily budget  *)
(* is passed, and the refinement of the abstract Breaker.                  *)
(***************************************************************************)
EXTENDS Failover, FiniteSetTheorems, TLAPS

(* What one step of one request may be.                                    *)
RequestStep(r) ==
    \/ CallPrimary(r) \/ Divert(r) \/ RequestEnds(r)
    \/ PrimaryAnswers(r) \/ PrimaryFails(r)
    \/ BackupAnswers(r) \/ BackupErrors(r)

-----------------------------------------------------------------------------

(* The counter of today is a well-formed counter.                          *)
LEMMA TodaysBudgetTyped ==
    ASSUME FailoverTypeOK
    PROVE  TodaysBudget \in [day: 0..LastDay, used: Nat]
BY DEF FailoverTypeOK, TodaysBudget

LEMMA InitTyped == FailoverInit => FailoverTypeOK
BY FailoverAssumption DEF FailoverInit, FailoverTypeOK, NoHold, Places

LEMMA RequestStepTyped ==
    ASSUME FailoverTypeOK, NEW r \in Requests, RequestStep(r)
    PROVE  FailoverTypeOK'
<1> USE FailoverAssumption, TodaysBudgetTyped
<1> USE DEF FailoverTypeOK, Goes, Places, NoHold, Looked
<1>1. CASE CallPrimary(r)
  BY <1>1 DEF CallPrimary
<1>2. CASE Divert(r)
  <2>1. budget' \in [day: 0..LastDay, used: Nat]
    BY <1>2 DEF Divert
  <2>2. place' \in [Requests -> Places]
    BY <1>2 DEF Divert
  <2> QED
    BY <1>2, <2>1, <2>2 DEF Divert
<1>3. CASE RequestEnds(r)
  BY <1>3 DEF RequestEnds
<1>4. CASE PrimaryAnswers(r)
  <2>1. streak' \in 0..RecoverAfter /\ until' \in NoHold..HoldTime
    BY <1>4 DEF PrimaryAnswers
  <2>2. place' \in [Requests -> Places]
    BY <1>4 DEF PrimaryAnswers
  <2> QED
    BY <1>4, <2>1, <2>2 DEF PrimaryAnswers
<1>5. CASE PrimaryFails(r)
  <2>1. budget' \in [day: 0..LastDay, used: Nat]
    BY <1>5 DEF PrimaryFails
  <2>2. place' \in [Requests -> Places]
    BY <1>5 DEF PrimaryFails
  <2>3. streak' \in 0..RecoverAfter /\ until' \in NoHold..HoldTime
    BY <1>5 DEF PrimaryFails
  <2> QED
    BY <1>5, <2>1, <2>2, <2>3 DEF PrimaryFails
<1>6. CASE BackupAnswers(r)
  <2>1. budget' \in [day: 0..LastDay, used: Nat]
    BY <1>6 DEF BackupAnswers
  <2>2. place' \in [Requests -> Places]
    BY <1>6 DEF BackupAnswers
  <2> QED
    BY <1>6, <2>1, <2>2 DEF BackupAnswers
<1>7. CASE BackupErrors(r)
  BY <1>7 DEF BackupErrors
<1> QED
  BY <1>1, <1>2, <1>3, <1>4, <1>5, <1>6, <1>7 DEF RequestStep

LEMMA StepTyped == FailoverTypeOK /\ [FailoverNext]_failVars => FailoverTypeOK'
<1> SUFFICES ASSUME FailoverTypeOK, [FailoverNext]_failVars
             PROVE  FailoverTypeOK'
  OBVIOUS
<1>1. CASE Tick
  BY <1>1, FailoverAssumption DEF Tick, Holding, FailoverTypeOK, NoHold
<1>2. CASE Midnight
  BY <1>2, FailoverAssumption DEF Midnight, FailoverTypeOK
<1>3. CASE \E r \in Requests : RequestStep(r)
  BY <1>3, RequestStepTyped
<1>4. CASE UNCHANGED failVars
  BY <1>4 DEF failVars, FailoverTypeOK
<1> QED
  BY <1>1, <1>2, <1>3, <1>4 DEF FailoverNext, RequestStep

(* Every reachable state of the failover adapter is well typed: the hold   *)
(* never runs longer than configured and the streak stays in its range.    *)
THEOREM FailoverTypeCorrect == FailoverSpec => []FailoverTypeOK
<1>1. FailoverInit => FailoverTypeOK
  BY InitTyped
<1>2. FailoverTypeOK /\ [FailoverNext]_failVars => FailoverTypeOK'
  BY StepTyped
<1> QED
  BY <1>1, <1>2, PTL DEF FailoverSpec

-----------------------------------------------------------------------------

LEMMA AtBackupFinite == IsFiniteSet(AtBackup) /\ Cardinality(AtBackup) \in Nat
BY FailoverAssumption, FS_Subset, FS_CardinalityType DEF AtBackup

LEMMA RequestsCounted == Cardinality(Requests) \in Nat
BY FailoverAssumption, FS_CardinalityType

(* A request that is not at the backup leaves room there.                  *)
LEMMA RoomWhileAway ==
    ASSUME NEW r \in Requests, place[r] # "backup"
    PROVE  Cardinality(AtBackup) < Cardinality(Requests)
<1>1. AtBackup \subseteq Requests \ {r}
  BY DEF AtBackup
<1>2. Cardinality(Requests \ {r}) = Cardinality(Requests) - 1
  BY FailoverAssumption, FS_RemoveElement
<1>3. Cardinality(AtBackup) <= Cardinality(Requests \ {r})
  BY <1>1, FailoverAssumption, FS_RemoveElement, FS_Subset
<1> QED
  BY <1>2, <1>3, AtBackupFinite, RequestsCounted

(* Leaving the backup frees one place there.                               *)
LEMMA LeavesBackup ==
    ASSUME FailoverTypeOK, NEW r \in Requests, place[r] = "backup", Goes(r, "away")
    PROVE  /\ Cardinality(AtBackup') = Cardinality(AtBackup) - 1
           /\ Cardinality(AtBackup) <= Cardinality(Requests)
<1>1. AtBackup' = AtBackup \ {r} /\ r \in AtBackup
  BY DEF AtBackup, Goes, FailoverTypeOK
<1>2. AtBackup \subseteq Requests
  BY DEF AtBackup
<1> QED
  BY <1>1, <1>2, AtBackupFinite, FailoverAssumption, FS_RemoveElement, FS_Subset

(* A step that sends nobody to the backup does not make it fuller.         *)
LEMMA NobodyEnters ==
    ASSUME NEW r \in Requests, FailoverTypeOK,
           Goes(r, "away") \/ Goes(r, "primary") \/ UNCHANGED place
    PROVE  Cardinality(AtBackup') <= Cardinality(AtBackup) /\ Cardinality(AtBackup') \in Nat
<1>1. AtBackup' \subseteq AtBackup
  BY DEF AtBackup, Goes, FailoverTypeOK
<1> QED
  BY <1>1, AtBackupFinite, FS_Subset, FS_CardinalityType

LEMMA RequestStepBounded ==
    ASSUME FailoverTypeOK, OverrunBounded, NEW r \in Requests, RequestStep(r)
    PROVE  OverrunBounded'
<1> SUFFICES ASSUME DailyMax > 0, budget'.used >= DailyMax
             PROVE  budget'.used + Cardinality(AtBackup') < DailyMax + Cardinality(Requests)
  BY DEF OverrunBounded
<1> USE FailoverAssumption, AtBackupFinite, RequestsCounted
<1>a. TodaysBudget.used \in Nat /\ (TodaysBudget.used = budget.used \/ TodaysBudget.used = 0)
  BY DEF TodaysBudget, FailoverTypeOK
<1>b. budget.used \in Nat
  BY DEF FailoverTypeOK
<1>1. ASSUME budget'.used <= budget.used, budget'.used \in Nat,
             Goes(r, "away") \/ Goes(r, "primary") \/ UNCHANGED place
      PROVE  budget'.used + Cardinality(AtBackup') < DailyMax + Cardinality(Requests)
  <2>1. Cardinality(AtBackup') <= Cardinality(AtBackup) /\ Cardinality(AtBackup') \in Nat
    BY <1>1, NobodyEnters
  <2>2. budget.used + Cardinality(AtBackup) < DailyMax + Cardinality(Requests)
    BY <1>1, <1>b DEF OverrunBounded
  <2> QED
    BY <1>1, <1>b, <2>1, <2>2
<1>2. CASE CallPrimary(r)
  BY <1>1, <1>2, <1>b DEF CallPrimary
<1>3. CASE RequestEnds(r)
  BY <1>1, <1>3, <1>b DEF RequestEnds
<1>4. CASE PrimaryAnswers(r)
  BY <1>1, <1>4, <1>b DEF PrimaryAnswers
<1>5. CASE BackupErrors(r)
  BY <1>1, <1>5, <1>b DEF BackupErrors
<1>6. CASE Divert(r)
  <2>1. Spent /\ UNCHANGED place /\ budget' = TodaysBudget
    BY <1>6, <1>a DEF Divert, Looked, Spent
  <2> QED
    BY <1>1, <1>a, <1>b, <2>1
<1>7. CASE PrimaryFails(r)
  <2>1. Spent /\ Goes(r, "away") /\ budget' = TodaysBudget
    BY <1>7, <1>a DEF PrimaryFails, Looked, Spent
  <2> QED
    BY <1>1, <1>a, <1>b, <2>1
<1>8. CASE BackupAnswers(r)
  <2>1. budget'.used = TodaysBudget.used + 1 /\ place[r] = "backup" /\ Goes(r, "away")
    BY <1>8, TodaysBudgetTyped DEF BackupAnswers
  <2>2. Cardinality(AtBackup') = Cardinality(AtBackup) - 1
        /\ Cardinality(AtBackup) <= Cardinality(Requests)
    BY <2>1, LeavesBackup
  <2>3. CASE budget.used >= DailyMax /\ TodaysBudget.used = budget.used
    BY <2>1, <2>2, <2>3, <1>b DEF OverrunBounded
  <2>4. CASE TodaysBudget.used < DailyMax
    BY <2>1, <2>2, <2>4, <1>a
  <2> QED
    BY <2>3, <2>4, <1>a, <1>b
<1> QED
  BY <1>2, <1>3, <1>4, <1>5, <1>6, <1>7, <1>8 DEF RequestStep

LEMMA StepBounded ==
    FailoverTypeOK /\ OverrunBounded /\ [FailoverNext]_failVars => OverrunBounded'
<1> SUFFICES ASSUME FailoverTypeOK, OverrunBounded, [FailoverNext]_failVars
             PROVE  OverrunBounded'
  OBVIOUS
<1>1. CASE Tick \/ Midnight \/ UNCHANGED failVars
  <2>1. budget' = budget /\ AtBackup' = AtBackup
    BY <1>1 DEF Tick, Midnight, failVars, AtBackup
  <2> QED
    BY <2>1 DEF OverrunBounded
<1>2. CASE \E r \in Requests : RequestStep(r)
  BY <1>2, RequestStepBounded
<1> QED
  BY <1>1, <1>2 DEF FailoverNext, RequestStep

(* The daily budget is passed by less than the number of concurrent        *)
(* requests, for any number of requests, days and any budget.              *)
THEOREM BudgetOverrun == FailoverSpec => []OverrunBounded
<1>1. FailoverInit => OverrunBounded
  BY FailoverAssumption DEF FailoverInit, OverrunBounded
<1>2. FailoverTypeOK /\ OverrunBounded /\ [FailoverNext]_failVars => OverrunBounded'
  BY StepBounded
<1> QED
  BY <1>1, <1>2, FailoverTypeCorrect, PTL DEF FailoverSpec

-----------------------------------------------------------------------------

LEMMA StepRefines ==
    FailoverTypeOK /\ [FailoverNext]_failVars => [Guard!BreakerNext]_(Guard!breakerVars)
<1> SUFFICES ASSUME FailoverTypeOK, [FailoverNext]_failVars
             PROVE  Guard!BreakerNext \/ UNCHANGED Guard!breakerVars
  OBVIOUS
<1> USE FailoverAssumption DEF Holding, NoHold, FailoverTypeOK, Goes, Guard!Move
<1>1. CASE Tick
  <2>1. Guard!Expire \/ UNCHANGED Guard!breakerVars
    BY <1>1 DEF Tick, Guard!Expire, Guard!breakerVars
  <2> QED
    BY <2>1 DEF Guard!BreakerNext
<1>2. CASE Midnight \/ UNCHANGED failVars
  BY <1>2 DEF Midnight, failVars, Guard!breakerVars
<1>3. ASSUME NEW r \in Requests, RequestStep(r)
      PROVE  Guard!BreakerNext \/ UNCHANGED Guard!breakerVars
  <2>1. CASE CallPrimary(r)
    <3>1. Guard!Call(r)
      BY <2>1 DEF CallPrimary, Guard!Call
    <3> QED
      BY <3>1 DEF Guard!BreakerNext
  <2>2. CASE Divert(r)
    <3>1. Guard!Divert(r) \/ UNCHANGED Guard!breakerVars
      BY <2>2 DEF Divert, Guard!Divert, Guard!breakerVars
    <3> QED
      BY <3>1 DEF Guard!BreakerNext
  <2>3. CASE RequestEnds(r)
    <3>1. Guard!Leave(r)
      BY <2>3 DEF RequestEnds, Guard!Leave
    <3> QED
      BY <3>1 DEF Guard!BreakerNext
  <2>4. CASE PrimaryAnswers(r)
    <3>1. Guard!Succeed(r)
      BY <2>4 DEF PrimaryAnswers, Guard!Succeed
    <3> QED
      BY <3>1 DEF Guard!BreakerNext
  <2>5. CASE PrimaryFails(r)
    <3>1. Guard!Trip(r) \/ Guard!Leave(r)
      BY <2>5 DEF PrimaryFails, Guard!Trip, Guard!Leave
    <3> QED
      BY <3>1 DEF Guard!BreakerNext
  <2>6. CASE BackupAnswers(r)
    <3>1. Guard!Leave(r)
      BY <2>6 DEF BackupAnswers, Guard!Leave
    <3> QED
      BY <3>1 DEF Guard!BreakerNext
  <2>7. CASE BackupErrors(r)
    <3>1. Guard!Yield(r)
      BY <2>7 DEF BackupErrors, Guard!Yield
    <3> QED
      BY <3>1 DEF Guard!BreakerNext
  <2> QED
    BY <1>3, <2>1, <2>2, <2>3, <2>4, <2>5, <2>6, <2>7 DEF RequestStep
<1> QED
  BY <1>1, <1>2, <1>3 DEF FailoverNext, RequestStep

(* The failover adapter implements the abstract breaker, for any number of *)
(* concurrent requests and any settings.                                   *)
THEOREM BreakerRefined == FailoverSpec => BreakerImplemented
<1>1. FailoverInit => Guard!BreakerInit
  BY DEF FailoverInit, Guard!BreakerInit, NoHold
<1>2. FailoverTypeOK /\ [FailoverNext]_failVars => [Guard!BreakerNext]_(Guard!breakerVars)
  BY StepRefines
<1> QED
  BY <1>1, <1>2, FailoverTypeCorrect, PTL
     DEF FailoverSpec, BreakerImplemented, Guard!BreakerSpec
=============================================================================
