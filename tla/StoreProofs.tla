---------------------------- MODULE StoreProofs ----------------------------
(***************************************************************************)
(* Theorems about the stores: a key that is over stays over and one that   *)
(* was handed out is kept (KeyStore), a list that is not marked stale is   *)
(* recent (FreeCatalog), and the log keeps its latest events through       *)
(* shifts that fail in part (EventLog), for every set of keys, every       *)
(* period and every size of file; and of the three together (Stores).      *)
(***************************************************************************)
EXTENDS Stores, Integers, TLAPS

(* What was answered holds of the memory and of the file alike, and the    *)
(* file equals the memory from the write to the answer.                    *)
Holds(rec, k) ==
    /\ told[k].said = "revoked" => ~rec.here \/ rec.revoked
    /\ told[k].expires # 0 => ~rec.here \/ rec.expires = told[k].expires

Has(rec, k) == rec.here /\ rec.expires = told[k].expires

AnswersHold ==
    \A k \in Keys :
       /\ Holds(memory[k], k) /\ Holds(disk[k], k)
       /\ told[k].said = "nothing" => told[k].expires = 0
       /\ intact /\ told[k].said = "minted" =>
             Has(disk[k], k) /\ (running => Has(memory[k], k))

RequestUnderWay ==
    /\ ~running => request.pc = "idle"
    /\ request.pc = "answering" => disk = memory
    /\ request.pc # "idle" => memory[request.key].here
    /\ request.pc # "idle" /\ request.kind = "revoke" => memory[request.key].revoked

KeyInv == KeyTypeOK /\ AnswersHold /\ RequestUnderWay

-----------------------------------------------------------------------------

LEMMA NothingTyped == Nothing \in [Keys -> Records]
BY DEF Nothing, Absent, Records

LEMMA KeyInitHolds == KeyInit => KeyInv
BY KeyAssumption
   DEF KeyInit, KeyInv, KeyTypeOK, AnswersHold, RequestUnderWay, Holds, Has, Nothing, Absent,
       Records, Requests, Idle

(* A step of a route that is about one key.                                *)
LEMMA KeyStepHolds ==
    ASSUME KeyInv, NEW k \in Keys, KeyStep(k)
    PROVE  KeyInv'
<1> USE KeyAssumption DEF KeyInv, Free, Idle
<1>1. ASSUME NEW ttl \in Ttls, CreateBegins(k, ttl)
      PROVE  KeyInv'
  <2>1. ttl \in Nat
    OBVIOUS
  <2>2. KeyTypeOK'
    BY <1>1, <2>1 DEF CreateBegins, KeyTypeOK, Records, Requests
  <2>3. AnswersHold'
    BY <1>1 DEF CreateBegins, KeyTypeOK, AnswersHold, Holds, Has, Absent, Records
  <2>4. RequestUnderWay'
    BY <1>1 DEF CreateBegins, KeyTypeOK, RequestUnderWay
  <2> QED
    BY <2>2, <2>3, <2>4
<1>2. CASE RevokeBegins(k)
  <2>1. KeyTypeOK'
    BY <1>2, ZenonT(60) DEF RevokeBegins, KeyTypeOK, Records, Requests
  <2>2. AnswersHold'
    BY <1>2 DEF RevokeBegins, KeyTypeOK, AnswersHold, Holds, Has, Records
  <2>3. RequestUnderWay'
    BY <1>2 DEF RevokeBegins, KeyTypeOK, RequestUnderWay, Records
  <2> QED
    BY <2>1, <2>2, <2>3
<1>3. CASE RevokeAgain(k)
  <2>1. KeyTypeOK'
    BY <1>3 DEF RevokeAgain, KeyTypeOK
  <2>2. AnswersHold'
    BY <1>3 DEF RevokeAgain, KeyTypeOK, AnswersHold, Holds, Has
  <2>3. RequestUnderWay'
    BY <1>3 DEF RevokeAgain, RequestUnderWay
  <2> QED
    BY <2>1, <2>2, <2>3
<1> QED
  BY <1>1, <1>2, <1>3 DEF KeyStep

(* The file, the answer, the process and the clock.                        *)
LEMMA KeyProcessHolds ==
    ASSUME KeyInv, Saved \/ SaveFails \/ Answered \/ Killed \/ Started \/ KeyTick
    PROVE  KeyInv'
<1> USE KeyAssumption DEF KeyInv, Idle
<1>1. CASE Saved
  <2>1. KeyTypeOK'
    BY <1>1 DEF Saved, KeyTypeOK, Requests
  <2>2. AnswersHold'
    BY <1>1 DEF Saved, AnswersHold, Holds, Has
  <2>3. RequestUnderWay'
    BY <1>1 DEF Saved, KeyTypeOK, Requests, RequestUnderWay
  <2> QED
    BY <2>1, <2>2, <2>3
<1>2. CASE SaveFails
  BY <1>2 DEF SaveFails, KeyTypeOK, Requests, AnswersHold, Holds, Has, RequestUnderWay
<1>3. CASE Answered
  <2> DEFINE key == request.key
  <2>1. /\ key \in Keys /\ disk = memory /\ memory[key].here
        /\ request.kind = "revoke" => memory[key].revoked
        /\ request.kind \in {"create", "revoke"}
    BY <1>3 DEF Answered, KeyTypeOK, Requests, RequestUnderWay
  <2>2. KeyTypeOK'
    BY <1>3, <2>1 DEF Answered, KeyTypeOK, Requests, Records
  <2>3. AnswersHold'
    <3> SUFFICES ASSUME NEW k \in Keys
                 PROVE  /\ Holds(memory[k], k)' /\ Holds(disk[k], k)'
                        /\ told'[k].said = "nothing" => told'[k].expires = 0
                        /\ intact' /\ told'[k].said = "minted" =>
                              Has(disk[k], k)' /\ (running' => Has(memory[k], k)')
      BY DEF AnswersHold
    <3>1. CASE k = key
      BY <1>3, <2>1, <3>1 DEF Answered, KeyTypeOK, AnswersHold, Holds, Has, Records
    <3>2. CASE k # key
      BY <1>3, <3>2 DEF Answered, KeyTypeOK, AnswersHold, Holds, Has
    <3> QED
      BY <3>1, <3>2
  <2>4. RequestUnderWay'
    BY <1>3 DEF Answered, RequestUnderWay
  <2> QED
    BY <2>2, <2>3, <2>4
<1>4. CASE Killed
  BY <1>4 DEF Killed, KeyTypeOK, Requests, Records, AnswersHold, Holds, Has, RequestUnderWay,
              Nothing, Absent
<1>5. CASE Started
  <2>1. KeyTypeOK'
    BY <1>5, NothingTyped DEF Started, KeyTypeOK
  <2>2. AnswersHold'
    BY <1>5 DEF Started, KeyTypeOK, AnswersHold, Holds, Has, Nothing, Absent
  <2>3. RequestUnderWay'
    BY <1>5 DEF Started, KeyTypeOK, RequestUnderWay
  <2> QED
    BY <2>1, <2>2, <2>3
<1>6. CASE KeyTick
  BY <1>6 DEF KeyTick, KeyTypeOK, AnswersHold, Holds, Has, RequestUnderWay
<1> QED
  BY <1>1, <1>2, <1>3, <1>4, <1>5, <1>6

LEMMA KeyStutters ==
    ASSUME KeyInv, UNCHANGED keyVars
    PROVE  KeyInv'
BY DEF KeyInv, KeyTypeOK, AnswersHold, Holds, Has, RequestUnderWay, keyVars

(* The invariant behind the two theorems: what an admin was answered is    *)
(* true of the memory and of the file (keystore.py, create and revoke).    *)
THEOREM AnswersAreTrue == KeySpec => []KeyInv
<1>1. KeyInit => KeyInv
  BY KeyInitHolds
<1>2. KeyInv /\ [KeyNext]_keyVars => KeyInv'
  BY KeyStepHolds, KeyProcessHolds, KeyStutters DEF KeyNext
<1> QED
  BY <1>1, <1>2, PTL DEF KeySpec

(* A key whose revocation was answered or that has expired is never let in *)
(* again, through failed writes, kills and restarts.                       *)
THEOREM DeadKeysStayDead == KeySpec => []DeadStaysDead
<1>1. KeyInv => DeadStaysDead
  BY DEF KeyInv, KeyTypeOK, Records, AnswersHold, Holds, DeadStaysDead, Accepted, Over
<1> QED
  BY <1>1, AnswersAreTrue, PTL

(* A key that was handed out is in the store, with its expiry, after every *)
(* start that could read the file.                                         *)
THEOREM MintedKeysAreKept == KeySpec => []MintedIsKept
<1>1. KeyInv => MintedIsKept
  BY DEF KeyInv, AnswersHold, Has, MintedIsKept
<1> QED
  BY <1>1, AnswersAreTrue, PTL

(* Together: what a caller was told of a key holds from then on.           *)
THEOREM KeysKeepTheirWord == KeySpec => []WordKept
BY DeadKeysStayDead, MintedKeysAreKept, PTL DEF WordKept

-----------------------------------------------------------------------------
(* The catalog.                                                            *)

(* A list that is not marked stale is as old as the loop has slept since,  *)
(* and as the operations of the fetch under way have lasted.               *)
CatalogInv ==
    /\ CatalogTypeOK
    /\ task.pc = "sleeping" => task.timer <= Ttl
    /\ task.pc = "fetching" => task.timer <= Fetching /\ task.left >= 1
    /\ stale = "no" /\ task.pc = "sleeping" => answer + task.timer <= Ttl
    /\ stale = "no" /\ task.pc = "fetching" =>
          (answer + task.timer) + (task.left - 1) * Fetching <= Ttl + Operations * Fetching

(* The sums of timeouts are natural numbers, and one operation less takes  *)
(* one timeout less.                                                       *)
LEMMA Timeouts ==
    ASSUME NEW l \in Nat \ {0}
    PROVE  /\ l * Fetching \in Nat /\ (l - 1) * Fetching \in Nat
           /\ l * Fetching = (l - 1) * Fetching + Fetching
BY CatalogAssumption

LEMMA CatalogInitHolds == CatalogInit => CatalogInv
<1>1. Operations * Fetching \in Nat
  BY CatalogAssumption, Timeouts
<1> QED
  BY <1>1, CatalogAssumption DEF CatalogInit, CatalogInv, CatalogTypeOK, Fetch, Seed, AgeCap

LEMMA CatalogStepHolds ==
    ASSUME CatalogInv, CatalogNext
    PROVE  CatalogInv'
<1> USE CatalogAssumption DEF CatalogInv, CatalogTypeOK, AgeCap
<1> DEFINE all == Operations * Fetching
<1>0. all \in Nat /\ (Operations - 1) * Fetching \in Nat /\ all = (Operations - 1) * Fetching + Fetching
  BY Timeouts
<1>1. CASE Fetched
  <2>1. /\ UNCHANGED offer /\ stale' = "no" /\ answer' = 0 /\ again' = TRUE
        /\ listed' \subseteq Relay
        /\ task' = [pc |-> "sleeping", timer |-> Ttl, left |-> 0]
    BY <1>1 DEF Fetched, Sleep, Delay
  <2> HIDE DEF all
  <2> QED
    BY <1>0, <2>1 DEF all
<1>2. CASE FetchFails
  <2>1. PICK d \in {Ttl, Backoff} :
           /\ UNCHANGED <<offer, listed, answer>> /\ stale' = "yes" /\ again' = FALSE
           /\ task' = [pc |-> "sleeping", timer |-> d, left |-> 0]
    BY <1>2 DEF FetchFails, Sleep, Delay
  <2>2. d \in 0..(Ttl + Fetching) /\ d <= Ttl
    OBVIOUS
  <2>3. task'.pc = "sleeping" /\ task'.timer = d /\ task'.left = 0
    BY <2>1
  <2>4. task' \in [pc: {"fetching", "sleeping"}, timer: 0..(Ttl + Fetching), left: 0..Operations]
    BY <2>1, <2>2
  <2> QED
    BY <2>1, <2>2, <2>3, <2>4
<1>3. CASE FetchBegins
  <2>1. /\ UNCHANGED <<offer, listed, stale, answer, again>> /\ task.pc = "sleeping" /\ task.timer = 0
        /\ task' = [pc |-> "fetching", timer |-> Fetching, left |-> Operations]
    BY <1>3 DEF FetchBegins, Fetch
  <2>2. stale = "no" => (answer + Fetching) + (Operations - 1) * Fetching <= Ttl + all
    BY <1>0, <2>1
  <2>3. task'.pc = "fetching" /\ task'.timer = Fetching /\ task'.left = Operations
    BY <2>1
  <2>4. task' \in [pc: {"fetching", "sleeping"}, timer: 0..(Ttl + Fetching), left: 0..Operations]
    BY <2>1
  <2> QED
    BY <2>1, <2>2, <2>3, <2>4
<1>4. CASE OperationEnds
  <2>1. /\ UNCHANGED <<offer, listed, stale, answer, again>> /\ task.pc = "fetching"
        /\ task.left > 1 /\ task' = [task EXCEPT !.timer = Fetching, !.left = task.left - 1]
    BY <1>4, Zenon DEF OperationEnds
  <2>2. (task.left - 1) * Fetching = ((task.left - 1) - 1) * Fetching + Fetching
    BY <2>1, Timeouts
  <2>3. PICK p \in Int : p = ((task.left - 1) - 1) * Fetching
    BY <2>1
  <2>4. stale = "no" => (answer + Fetching) + ((task.left - 1) - 1) * Fetching <= Ttl + all
    BY <1>0, <2>1, <2>2, <2>3
  <2>5. task'.pc = "fetching" /\ task'.timer = Fetching /\ task'.left = task.left - 1
    BY <2>1
  <2>6. task' \in [pc: {"fetching", "sleeping"}, timer: 0..(Ttl + Fetching), left: 0..Operations]
    <3>1. Fetching \in 0..(Ttl + Fetching) /\ task.left - 1 \in 0..Operations
      BY <2>1
    <3> QED
      BY <2>1, <3>1
  <2> QED
    BY <2>1, <2>4, <2>5, <2>6
<1>5. CASE CatalogTick
  <2>1. /\ UNCHANGED <<offer, listed, stale, again>> /\ task.timer > 0
        /\ task' = [task EXCEPT !.timer = @ - 1]
        /\ answer' \in {answer, answer + 1} /\ answer' \in 0..AgeCap
    BY <1>0, <1>5 DEF CatalogTick
  <2>2. (task.left - 1) * Fetching \in Int
    OBVIOUS
  <2> QED
    BY <1>0, <2>1, <2>2
<1>6. CASE OfferChanges
  BY <1>6 DEF OfferChanges
<1> QED
  BY <1>1, <1>2, <1>3, <1>4, <1>5, <1>6 DEF CatalogNext, Looping

LEMMA CatalogStutters ==
    ASSUME CatalogInv, UNCHANGED catalogVars
    PROVE  CatalogInv'
BY DEF CatalogInv, CatalogTypeOK, catalogVars

LEMMA FreshIsRecent ==
    ASSUME CatalogInv
    PROVE  FreshMeansRecent
<1>1. CASE task.pc = "sleeping"
  <2>1. Operations * Fetching \in Nat
    BY CatalogAssumption, Timeouts
  <2> QED
    BY <1>1, <2>1, CatalogAssumption DEF CatalogInv, CatalogTypeOK, FreshMeansRecent
<1>2. CASE task.pc = "fetching"
  <2>1. (task.left - 1) * Fetching \in Nat
    BY <1>2, CatalogAssumption, Timeouts DEF CatalogInv, CatalogTypeOK
  <2>2. Operations * Fetching \in Nat /\ Ttl \in Nat
    BY CatalogAssumption, Timeouts
  <2> QED
    BY <1>2, <2>1, <2>2 DEF CatalogInv, CatalogTypeOK, FreshMeansRecent
<1> QED
  BY <1>1, <1>2 DEF CatalogInv, CatalogTypeOK

-----------------------------------------------------------------------------
(* The event log.                                                          *)

In(fs, k, e) == \E j \in 1..Len(fs[k]) : fs[k][j] = e

(* Files fs that hold some of n events, in their order; path holds the     *)
(* last of them.                                                           *)
Ordered(fs, n) ==
    /\ fs \in [0..Keep -> Seq(1..MaxEvents)]
    /\ Len(fs[0]) <= n
    /\ \A j \in 1..Len(fs[0]) : fs[0][j] = (n - Len(fs[0])) + j
    /\ \A i \in 0..Keep : \A m \in 1..Len(fs[i]) : fs[i][m] <= n
    /\ \A i, j \in 0..Keep : \A m \in 1..Len(fs[i]), l \in 1..Len(fs[j]) :
          i < j \/ (i = j /\ l < m) => fs[j][l] < fs[i][m]

(* Of the c files behind path, the first i hold the last i * MaxFile       *)
(* events before those of path; and the last MaxFile events of all are in  *)
(* path or in the file behind it, even when a replace fails.               *)
Reaches(fs, n, i) ==
    \A e \in 1..n : e + i * MaxFile > n - Len(fs[0]) => \E k \in 0..i : In(fs, k, e)

LastKept(fs, n) == \A e \in 1..n : e + MaxFile > n => In(fs, 0, e) \/ In(fs, 1, e)

LaidOut(fs, n, c) ==
    /\ Ordered(fs, n)
    /\ \A i \in 0..c : Reaches(fs, n, i)
    /\ LastKept(fs, n)

LogInv ==
    /\ emitted \in 0..MaxEvents /\ disabled \in BOOLEAN /\ clean \in 0..Keep
    /\ LaidOut(files, emitted, clean)

LEMMA LogInitHolds == LogInit => LogInv
<1> DEFINE fs == [i \in 0..Keep |-> <<>>]
<1>1. LogInit => files = fs /\ emitted = 0 /\ disabled = FALSE /\ clean = Keep
  BY DEF LogInit
<1>2. /\ \A i \in 0..Keep : fs[i] = <<>> /\ Len(fs[i]) = 0 /\ fs[i] \in Seq(1..MaxEvents)
      /\ fs \in [0..Keep -> Seq(1..MaxEvents)]
  OBVIOUS
<1> HIDE DEF fs
<1>3. Ordered(fs, 0)
  BY <1>2, LogAssumption DEF Ordered
<1>4. LaidOut(fs, 0, Keep)
  BY <1>3 DEF LaidOut, Reaches, LastKept
<1>5. 0 \in 0..MaxEvents /\ FALSE \in BOOLEAN /\ Keep \in 0..Keep
  BY LogAssumption
<1> QED
  BY <1>1, <1>4, <1>5, Zenon DEF LogInv

(* Where the events go when those of the files of M are moved.             *)
LEMMA ShiftMoves ==
    ASSUME NEW M \in SUBSET Movable, files \in [0..Keep -> Seq(1..MaxEvents)]
    PROVE  /\ Shifted(M) \in [0..Keep -> Seq(1..MaxEvents)]
           /\ \A i \in 0..Keep :
                 /\ i \in M => Shifted(M)[i] = files[i - 1]
                 /\ i \notin M /\ i + 1 \in M => Shifted(M)[i] = <<>>
                 /\ i \notin M /\ i + 1 \notin M => Shifted(M)[i] = files[i]
           /\ \A i : i \in M => i \in 1..Keep /\ i - 1 \in 0..Keep
<1> USE LogAssumption
<1>1. \A i : i \in M => i \in 1..Keep
  BY DEF Movable
<1>2. \A i \in 0..Keep : Shifted(M)[i] = IF i \in M THEN files[i - 1]
                                         ELSE IF i + 1 \in M THEN <<>> ELSE files[i]
  BY DEF Shifted
<1>3. \A i : i \in M => i - 1 \in 0..Keep
  BY <1>1
<1>4. \A i \in 0..Keep : Shifted(M)[i] \in Seq(1..MaxEvents)
  <2>1. <<>> \in Seq(1..MaxEvents)
    OBVIOUS
  <2> QED
    BY <1>2, <1>3, <2>1
<1>5. Shifted(M) \in [0..Keep -> Seq(1..MaxEvents)]
  BY <1>4 DEF Shifted
<1> QED
  BY <1>1, <1>2, <1>3, <1>5

(* An event of a file that moves is a file further back.                   *)
LEMMA MovedAlong ==
    ASSUME NEW M \in SUBSET Movable, files \in [0..Keep -> Seq(1..MaxEvents)],
           NEW k \in 0..Keep, NEW e, In(files, k, e), k + 1 \in M
    PROVE  k + 1 \in 0..Keep /\ In(Shifted(M), k + 1, e)
<1>1. /\ \A i \in 0..Keep : i \in M => Shifted(M)[i] = files[i - 1]
      /\ k + 1 \in 1..Keep
  BY ShiftMoves
<1>2. k + 1 \in 0..Keep /\ (k + 1) - 1 = k
  BY <1>1, LogAssumption
<1>3. Shifted(M)[k + 1] = files[k]
  BY <1>1, <1>2
<1> QED
  BY <1>2, <1>3 DEF In

(* A file that holds an event can be moved, unless it is the last.         *)
LEMMA HoldersMove ==
    ASSUME files \in [0..Keep -> Seq(1..MaxEvents)],
           NEW k \in 0..Keep, NEW e, In(files, k, e), k < Keep
    PROVE  k + 1 \in Movable
<1>1. files[k] # <<>>
  BY DEF In
<1>2. k + 1 \in 1..Keep /\ (k + 1) - 1 = k
  BY LogAssumption
<1> QED
  BY <1>1, <1>2 DEF Movable

LEMMA ShiftOrders ==
    ASSUME NEW M \in SUBSET Movable, NEW n \in Nat, Ordered(files, n)
    PROVE  Ordered(Shifted(M), n)
<1> USE LogAssumption
<1> DEFINE gs == Shifted(M)
<1>0. files \in [0..Keep -> Seq(1..MaxEvents)]
  BY DEF Ordered
<1>1. /\ gs \in [0..Keep -> Seq(1..MaxEvents)]
      /\ \A i \in 0..Keep :
            /\ i \in M => gs[i] = files[i - 1]
            /\ i \notin M /\ i + 1 \in M => gs[i] = <<>>
            /\ i \notin M /\ i + 1 \notin M => gs[i] = files[i]
      /\ \A i : i \in M => i \in 1..Keep /\ i - 1 \in 0..Keep
  BY <1>0, ShiftMoves
<1> HIDE DEF gs
<1>2. gs[0] = files[0] \/ gs[0] = <<>>
  <2>1. 0 \in 0..Keep /\ 0 \notin M
    BY <1>1
  <2> QED
    BY <1>1, <2>1
<1>3. Len(gs[0]) <= n /\ \A j \in 1..Len(gs[0]) : gs[0][j] = (n - Len(gs[0])) + j
  <2>1. CASE gs[0] = files[0]
    BY <2>1 DEF Ordered
  <2>2. CASE gs[0] = <<>>
    BY <2>2
  <2> QED
    BY <1>2, <2>1, <2>2
<1>4. ASSUME NEW i \in 0..Keep, NEW m \in 1..Len(gs[i])
      PROVE  gs[i][m] <= n
  <2>1. gs[i] # <<>>
    BY <1>4
  <2>2. PICK k \in 0..Keep : gs[i] = files[k]
    BY <1>1, <2>1
  <2> QED
    BY <2>2 DEF Ordered
<1> DEFINE From(i, a) == /\ gs[i] = files[a]
                         /\ \/ a = i - 1 /\ i \in M
                            \/ a = i /\ i \notin M /\ i + 1 \notin M
<1>5. ASSUME NEW i \in 0..Keep, NEW m \in 1..Len(gs[i])
      PROVE  \E a \in 0..Keep : From(i, a)
  <2>1. gs[i] # <<>>
    BY <1>5
  <2>2. CASE i \in M
    <3>1. i - 1 \in 0..Keep /\ gs[i] = files[i - 1]
      BY <1>1, <2>2
    <3> QED
      BY <2>2, <3>1 DEF From
  <2>3. CASE i \notin M
    <3>1. i + 1 \notin M /\ gs[i] = files[i]
      <4>1. i + 1 \in M => gs[i] = <<>>
        BY <1>1, <2>3, Zenon
      <4>2. i + 1 \notin M
        BY <2>1, <4>1
      <4> QED
        BY <1>1, <2>3, <4>2, Zenon
    <3> QED
      <4>1. From(i, i)
        BY <2>3, <3>1 DEF From
      <4> QED
        BY <4>1
  <2> QED
    BY <2>2, <2>3
<1> HIDE DEF From
<1>7. ASSUME NEW i \in 0..Keep, NEW j \in 0..Keep,
             NEW m \in 1..Len(gs[i]), NEW l \in 1..Len(gs[j]),
             i < j \/ (i = j /\ l < m)
      PROVE  gs[j][l] < gs[i][m]
  <2>1. PICK a \in 0..Keep : From(i, a)
    BY <1>5, Zenon
  <2>2. PICK b \in 0..Keep : From(j, b)
    BY <1>5, Zenon
  <2>3. a < b \/ (a = b /\ l < m)
    BY <1>7, <2>1, <2>2 DEF From
  <2>4. gs[i] = files[a] /\ gs[j] = files[b]
    BY <2>1, <2>2 DEF From
  <2> QED
    BY <2>3, <2>4 DEF Ordered
<1>6. Ordered(gs, n)
  BY <1>1, <1>3, <1>4, <1>7 DEF Ordered
<1> QED
  BY <1>6 DEF gs

(* path is full: what of its events and of the others' is where after it.  *)
LEMMA ShiftKeepsLast ==
    ASSUME NEW M \in SUBSET Movable, NEW n \in Nat, Ordered(files, n), Len(files[0]) >= MaxFile
    PROVE  LastKept(Shifted(M), n)
<1> USE LogAssumption
<1>0. /\ files \in [0..Keep -> Seq(1..MaxEvents)] /\ 0 \in 0..Keep /\ Len(files[0]) \in Nat
      /\ Len(files[0]) <= n /\ files[0] \in Seq(1..MaxEvents)
  BY DEF Ordered
<1>1. SUFFICES ASSUME NEW e \in 1..n, e + MaxFile > n
               PROVE  In(Shifted(M), 0, e) \/ In(Shifted(M), 1, e)
  BY DEF LastKept
<1>2. In(files, 0, e)
  <2>1. e - (n - Len(files[0])) \in 1..Len(files[0])
    BY <1>0, <1>1
  <2>2. PICK j \in 1..Len(files[0]) : j = e - (n - Len(files[0]))
    BY <2>1
  <2>3. files[0][j] = (n - Len(files[0])) + j
    BY DEF Ordered
  <2>4. files[0][j] = e
    BY <1>0, <2>2, <2>3
  <2> QED
    BY <2>4 DEF In
<1>3. CASE 1 \in M
  <2>1. 0 + 1 \in M
    BY <1>3
  <2>2. In(Shifted(M), 0 + 1, e)
    BY <1>0, <1>2, <2>1, MovedAlong
  <2> QED
    BY <2>2
<1>4. CASE 1 \notin M
  <2>1. /\ 0 \notin M => (0 + 1 \notin M => Shifted(M)[0] = files[0])
        /\ 0 \in M => 0 \in 1..Keep
    BY <1>0, ShiftMoves
  <2>2. Shifted(M)[0] = files[0]
    BY <1>4, <2>1
  <2> QED
    BY <1>2, <2>2 DEF In
<1> QED
  BY <1>3, <1>4

(* A shift that moves every file takes path's events a file further back,  *)
(* and with them what the files behind it held.                            *)
LEMMA CleanShiftReaches ==
    ASSUME NEW n \in Nat, Ordered(files, n), Len(files[0]) >= MaxFile,
           NEW i \in 1..Keep, Reaches(files, n, i - 1)
    PROVE  Reaches(Shifted(Movable), n, i)
<1> USE LogAssumption
<1>0. /\ files \in [0..Keep -> Seq(1..MaxEvents)] /\ 0 \in 0..Keep /\ Len(files[0]) \in Nat
      /\ Len(files[0]) <= n
  BY DEF Ordered
<1>1. Len(Shifted(Movable)[0]) = 0
  <2>1. files[0] # <<>>
    BY <1>0
  <2>2. 0 + 1 \in Movable /\ 0 \notin Movable
    BY <2>1 DEF Movable
  <2>3. Movable \in SUBSET Movable
    OBVIOUS
  <2>4. Shifted(Movable)[0] = <<>>
    BY <1>0, <2>2, <2>3, ShiftMoves
  <2> QED
    BY <2>4
<1>2. SUFFICES ASSUME NEW e \in 1..n, e + i * MaxFile > n
               PROVE  \E k \in 0..i : In(Shifted(Movable), k, e)
  BY <1>1 DEF Reaches
<1>3. e + (i - 1) * MaxFile > n - Len(files[0])
  <2>1. i * MaxFile = (i - 1) * MaxFile + MaxFile
    OBVIOUS
  <2>2. PICK p \in Int : p = (i - 1) * MaxFile
    BY <1>2
  <2> QED
    BY <1>0, <1>2, <2>1, <2>2
<1>4. PICK k \in 0..(i - 1) : In(files, k, e)
  BY <1>3 DEF Reaches
<1>5. k \in 0..Keep /\ k < Keep /\ k + 1 \in 0..i
  BY <1>4
<1>6. k + 1 \in Movable
  BY <1>0, <1>4, <1>5, HoldersMove
<1> QED
  BY <1>0, <1>4, <1>5, <1>6, MovedAlong

LEMMA PathReaches ==
    ASSUME NEW fs, NEW n \in Nat, Ordered(fs, n)
    PROVE  Reaches(fs, n, 0)
<1> USE LogAssumption
<1>0. Len(fs[0]) \in Nat /\ Len(fs[0]) <= n
  BY DEF Ordered
<1>1. SUFFICES ASSUME NEW e \in 1..n, e + 0 * MaxFile > n - Len(fs[0])
               PROVE  In(fs, 0, e)
  BY DEF Reaches
<1>2. e - (n - Len(fs[0])) \in 1..Len(fs[0])
  BY <1>0, <1>1
<1>3. PICK j \in 1..Len(fs[0]) : j = e - (n - Len(fs[0]))
  BY <1>2
<1>4. fs[0][j] = (n - Len(fs[0])) + j
  BY DEF Ordered
<1>5. fs[0][j] = e
  BY <1>0, <1>3, <1>4
<1> QED
  BY <1>5 DEF In

LEMMA ShiftedLaidOut ==
    ASSUME LogInv, NEW M \in Rotations
    PROVE  LaidOut(Shifted(M), emitted, CleanAfter(M)) /\ CleanAfter(M) \in 0..Keep
<1> USE LogAssumption
<1>0. /\ emitted \in Nat /\ Ordered(files, emitted) /\ clean \in 0..Keep
      /\ files \in [0..Keep -> Seq(1..MaxEvents)] /\ Len(files[0]) \in Nat
  BY DEF LogInv, LaidOut, Ordered
<1>1. CASE Len(files[0]) < MaxFile
  <2>1. M = {} /\ CleanAfter(M) = clean
    BY <1>1 DEF Rotations, CleanAfter
  <2>2. Shifted(M) = files
    BY <1>0, <2>1 DEF Shifted
  <2> QED
    BY <2>1, <2>2 DEF LogInv
<1>2. CASE ~(Len(files[0]) < MaxFile)
  <2>0. M \in SUBSET Movable /\ Len(files[0]) >= MaxFile
    BY <1>0, <1>2 DEF Rotations
  <2>1. Ordered(Shifted(M), emitted) /\ LastKept(Shifted(M), emitted)
    BY <1>0, <2>0, ShiftOrders, ShiftKeepsLast
  <2>2. Reaches(Shifted(M), emitted, 0)
    BY <1>0, <2>1, PathReaches
  <2>3. CASE M # Movable
    <3>1. CleanAfter(M) = 0
      BY <1>2, <2>3 DEF CleanAfter
    <3>2. \A i \in 0..0 : i = 0
      OBVIOUS
    <3> QED
      BY <2>1, <2>2, <3>1, <3>2 DEF LaidOut
  <2>4. CASE M = Movable
    <3>1. /\ CleanAfter(M) \in 0..Keep
          /\ \A i \in 1..CleanAfter(M) : i \in 1..Keep /\ i - 1 \in 0..clean
      BY <1>0, <1>2, <2>4 DEF CleanAfter
    <3>2. ASSUME NEW i \in 0..CleanAfter(M)
          PROVE  Reaches(Shifted(M), emitted, i)
      <4>1. CASE i = 0
        BY <2>2, <4>1
      <4>2. CASE i # 0
        <5>1. i \in 1..Keep /\ i - 1 \in 0..clean
          BY <3>1, <4>2
        <5>2. Reaches(files, emitted, i - 1)
          BY <5>1 DEF LogInv, LaidOut
        <5> QED
          BY <1>0, <2>0, <2>4, <5>1, <5>2, CleanShiftReaches
      <4> QED
        BY <4>1, <4>2
    <3> QED
      BY <2>1, <3>1, <3>2 DEF LaidOut
  <2> QED
    BY <2>3, <2>4
<1> QED
  BY <1>1, <1>2

(* An event is written at the end of path.                                 *)
LEMMA AppendKeeps ==
    ASSUME NEW fs, NEW n \in Nat, n + 1 \in 1..MaxEvents, NEW c \in 0..Keep, LaidOut(fs, n, c),
           NEW gs, gs = [fs EXCEPT ![0] = Append(fs[0], n + 1)]
    PROVE  LaidOut(gs, n + 1, c)
<1> USE LogAssumption
<1>0. /\ fs \in [0..Keep -> Seq(1..MaxEvents)] /\ 0 \in 0..Keep /\ 1 \in 0..Keep
      /\ Len(fs[0]) <= n /\ Len(fs[0]) \in Nat
      /\ \A i \in 0..Keep : \A m \in 1..Len(fs[i]) : fs[i][m] <= n
  BY DEF LaidOut, Ordered
<1>1. /\ gs[0] = Append(fs[0], n + 1) /\ gs[0] \in Seq(1..MaxEvents)
      /\ Len(gs[0]) = Len(fs[0]) + 1
      /\ (n + 1) - Len(gs[0]) = n - Len(fs[0]) /\ Len(gs[0]) <= n + 1
  BY <1>0
<1>2. \A i \in 1..Keep : gs[i] = fs[i]
  BY <1>0
<1>3. /\ \A j \in 1..Len(fs[0]) : gs[0][j] = fs[0][j]
      /\ gs[0][Len(fs[0]) + 1] = n + 1
      /\ Len(fs[0]) + 1 \in 1..Len(gs[0])
      /\ \A j \in 1..Len(gs[0]) : j \in 1..Len(fs[0]) \/ j = Len(fs[0]) + 1
  BY <1>0, <1>1
<1>4. gs \in [0..Keep -> Seq(1..MaxEvents)]
  BY <1>0, <1>1
<1>5. ASSUME NEW j \in 1..Len(gs[0])
      PROVE  gs[0][j] = ((n + 1) - Len(gs[0])) + j
  <2>1. CASE j \in 1..Len(fs[0])
    <3>1. fs[0][j] = (n - Len(fs[0])) + j
      BY <2>1 DEF LaidOut, Ordered
    <3> QED
      BY <1>1, <1>3, <2>1, <3>1
  <2>2. CASE j = Len(fs[0]) + 1
    BY <1>0, <1>1, <1>3, <2>2
  <2> QED
    BY <1>3, <2>1, <2>2
<1>6. ASSUME NEW i \in 0..Keep, NEW m \in 1..Len(gs[i])
      PROVE  gs[i][m] <= n + 1
  <2>1. CASE i = 0
    BY <1>0, <1>3, <2>1
  <2>2. CASE i \in 1..Keep
    <3>1. gs[i] = fs[i] /\ gs[i][m] <= n /\ gs[i] \in Seq(1..MaxEvents)
      BY <1>0, <1>2, <2>2
    <3>2. gs[i][m] \in 1..MaxEvents
      BY <3>1
    <3> QED
      BY <3>1, <3>2
  <2> QED
    BY <2>1, <2>2
<1>7. ASSUME NEW i \in 0..Keep, NEW j \in 0..Keep,
             NEW m \in 1..Len(gs[i]), NEW l \in 1..Len(gs[j]),
             i < j \/ (i = j /\ l < m)
      PROVE  gs[j][l] < gs[i][m]
  <2>1. CASE i = 0 /\ m = Len(fs[0]) + 1
    <3>1. \/ gs[j] = fs[j] /\ l \in 1..Len(fs[j])
          \/ j = 0 /\ l \in 1..Len(fs[0]) /\ gs[0][l] = fs[0][l]
      <4>1. CASE j \in 1..Keep
        <5>1. gs[j] = fs[j]
          BY <1>2, <4>1
        <5>2. l \in 1..Len(fs[j])
          BY <5>1
        <5> QED
          BY <5>1, <5>2, Zenon
      <4>2. CASE j = 0
        <5>1. l # Len(fs[0]) + 1
          BY <1>0, <1>7, <2>1, <4>2
        <5> QED
          BY <1>3, <4>2, <5>1
      <4> QED
        BY <4>1, <4>2
    <3>2. gs[j][l] <= n /\ gs[j][l] \in 1..MaxEvents
      <4>1. gs[j][l] = fs[j][l] /\ l \in 1..Len(fs[j])
        BY <3>1
      <4>2. fs[j][l] \in 1..MaxEvents
        <5>1. fs[j] \in Seq(1..MaxEvents)
          BY <1>0
        <5>2. \A s \in Seq(1..MaxEvents) : \A h \in 1..Len(s) : s[h] \in 1..MaxEvents
          OBVIOUS
        <5> QED
          BY <4>1, <5>1, <5>2
      <4> QED
        BY <1>0, <4>1, <4>2
    <3> QED
      BY <1>3, <2>1, <3>2
  <2>2. CASE ~(i = 0 /\ m = Len(fs[0]) + 1)
    <3>1. m \in 1..Len(fs[i]) /\ gs[i][m] = fs[i][m]
      BY <1>2, <1>3, <2>2
    <3>2. l \in 1..Len(fs[j]) /\ gs[j][l] = fs[j][l]
      <4>1. CASE j = 0
        <5>1. i = 0 /\ l < m
          BY <1>7, <4>1
        <5>2. m \in 1..Len(fs[0])
          BY <3>1, <5>1
        <5> QED
          BY <1>0, <1>3, <4>1, <5>1, <5>2
      <4>2. CASE j \in 1..Keep
        BY <1>2, <4>2
      <4> QED
        BY <4>1, <4>2
    <3> QED
      BY <1>7, <3>1, <3>2 DEF LaidOut, Ordered
  <2> QED
    BY <2>1, <2>2
<1>8. Ordered(gs, n + 1)
  BY <1>1, <1>4, <1>5, <1>6, <1>7 DEF Ordered
<1>9. ASSUME NEW k \in 0..Keep, NEW e, In(fs, k, e)
      PROVE  In(gs, k, e)
  <2>1. PICK j \in 1..Len(fs[k]) : fs[k][j] = e
    BY <1>9 DEF In
  <2>2. j \in 1..Len(gs[k]) /\ gs[k][j] = e
    BY <1>0, <1>1, <1>2, <1>3, <2>1
  <2> QED
    BY <2>2 DEF In
<1>10. In(gs, 0, n + 1)
  BY <1>3 DEF In
<1>11. ASSUME NEW i \in 0..c
       PROVE  Reaches(gs, n + 1, i)
  <2>1. SUFFICES ASSUME NEW e \in 1..(n + 1), e + i * MaxFile > (n + 1) - Len(gs[0])
                 PROVE  \E k \in 0..i : In(gs, k, e)
    BY DEF Reaches
  <2>2. CASE e = n + 1
    <3>1. 0 \in 0..i
      OBVIOUS
    <3> QED
      BY <1>10, <2>2, <3>1
  <2>3. CASE e \in 1..n
    <3>1. PICK k \in 0..i : In(fs, k, e)
      BY <1>1, <2>1, <2>3 DEF LaidOut, Reaches
    <3>2. k \in 0..Keep
      BY <3>1
    <3> QED
      BY <1>9, <3>1, <3>2
  <2>4. e = n + 1 \/ e \in 1..n
    BY <2>1
  <2> QED
    BY <2>2, <2>3, <2>4
<1>12. LastKept(gs, n + 1)
  <2>1. SUFFICES ASSUME NEW e \in 1..(n + 1), e + MaxFile > n + 1
                 PROVE  In(gs, 0, e) \/ In(gs, 1, e)
    BY DEF LastKept
  <2>2. CASE e \in 1..n
    <3>1. In(fs, 0, e) \/ In(fs, 1, e)
      BY <2>1, <2>2 DEF LaidOut, LastKept
    <3> QED
      BY <1>0, <1>9, <3>1
  <2> QED
    BY <1>10, <2>2
<1> QED
  BY <1>8, <1>11, <1>12 DEF LaidOut

LEMMA LogStepHolds ==
    ASSUME LogInv, LogNext
    PROVE  LogInv'
<1>1. CASE Emit
  <2>0. /\ emitted \in Nat /\ emitted + 1 \in 1..MaxEvents /\ emitted + 1 \in 0..MaxEvents
        /\ emitted' = emitted + 1 /\ disabled' = disabled
    BY <1>1, LogAssumption DEF Emit, LogInv
  <2>1. PICK M \in Rotations :
           /\ clean' = CleanAfter(M)
           /\ files' = [Shifted(M) EXCEPT ![0] = Append(Shifted(M)[0], emitted + 1)]
    BY <1>1, Zenon DEF Emit
  <2>2. LaidOut(Shifted(M), emitted, CleanAfter(M)) /\ CleanAfter(M) \in 0..Keep
    BY ShiftedLaidOut
  <2>3. LaidOut(files', emitted + 1, CleanAfter(M))
    BY <2>0, <2>1, <2>2, AppendKeeps
  <2> QED
    BY <2>0, <2>1, <2>2, <2>3 DEF LogInv
<1>2. CASE EmitFails
  BY <1>2, ShiftedLaidOut DEF EmitFails, LogInv
<1>3. CASE Configured
  BY <1>3 DEF Configured, LogInv
<1> QED
  BY <1>1, <1>2, <1>3 DEF LogNext

LEMMA LogStutters ==
    ASSUME LogInv, UNCHANGED logVars
    PROVE  LogInv'
BY DEF LogInv, logVars

LEMMA LatestAreKept ==
    ASSUME LogInv
    PROVE  LatestKept
<1> USE LogAssumption
<1>0. /\ emitted \in Nat /\ clean \in 0..Keep /\ 0 \in 0..Keep /\ 1 \in 0..Keep
      /\ Len(files[0]) \in Nat
  BY DEF LogInv, LaidOut, Ordered
<1>1. ASSUME NEW k \in 0..Keep, NEW e, In(files, k, e)
      PROVE  Kept(e)
  BY <1>1, Zenon DEF In, Kept
<1>2. ASSUME NEW e \in 1..emitted, e + Owed * MaxFile > emitted
      PROVE  Kept(e)
  <2>1. CASE clean = 0
    <3>1. e + MaxFile > emitted
      BY <1>0, <1>2, <2>1 DEF Owed
    <3>2. In(files, 0, e) \/ In(files, 1, e)
      BY <3>1 DEF LogInv, LaidOut, LastKept
    <3> QED
      BY <1>0, <1>1, <3>2
  <2>2. CASE clean # 0
    <3>1. PICK p \in Int : p = clean * MaxFile
      BY <1>0
    <3>2. e + clean * MaxFile > emitted - Len(files[0])
      BY <1>0, <1>2, <2>2, <3>1 DEF Owed
    <3>3. Reaches(files, emitted, clean)
      BY <1>0 DEF LogInv, LaidOut
    <3>4. PICK k \in 0..clean : In(files, k, e)
      BY <3>2, <3>3 DEF Reaches
    <3>5. k \in 0..Keep
      BY <1>0
    <3> QED
      BY <1>1, <3>4, <3>5
  <2> QED
    BY <2>1, <2>2
<1> QED
  BY <1>2 DEF LatestKept, LogInv, LaidOut, Ordered

-----------------------------------------------------------------------------
(* The stores together.                                                    *)

StoresInv == KeyInv /\ CatalogInv /\ LogInv

LEMMA StoresStepHolds ==
    ASSUME StoresInv, [StoresNext]_storeVars
    PROVE  StoresInv'
<1>1. CASE KeysMove
  BY <1>1, KeyStepHolds, KeyProcessHolds, CatalogStutters, LogStutters
     DEF StoresInv, KeysMove, KeyNext
<1>2. CASE CatalogMoves \/ OfferMoves
  BY <1>2, CatalogStepHolds, KeyStutters, LogStutters
     DEF StoresInv, CatalogMoves, OfferMoves, CatalogNext
<1>3. CASE LogMoves
  BY <1>3, LogStepHolds, KeyStutters, CatalogStutters DEF StoresInv, LogMoves
<1>4. CASE UNCHANGED storeVars
  BY <1>4, KeyStutters, CatalogStutters, LogStutters DEF StoresInv, storeVars
<1> QED
  BY <1>1, <1>2, <1>3, <1>4 DEF StoresNext

(* The invariant of the three stores: what is true of the keys in memory   *)
(* and on disk, how old the list can be after a fetch of so many           *)
(* operations, and what the log's files hold when any replace of a shift   *)
(* may fail (keystore.py, catalog.py, eventlog.py).                        *)
THEOREM StoresInvariant == StoresSpec => []StoresInv
<1>1. StoresInit => StoresInv
  BY KeyInitHolds, CatalogInitHolds, LogInitHolds DEF StoresInit, StoresInv
<1>2. StoresInv /\ [StoresNext]_storeVars => StoresInv'
  BY StoresStepHolds
<1> QED
  BY <1>1, <1>2, PTL DEF StoresSpec

(* Whatever replace, write or restart fails, the last MaxFile events       *)
(* written are in the files, the last i * MaxFile after i shifts without a *)
(* failure, and in the order written (emit, _rotate_if_needed).            *)
THEOREM LatestEventsStay == StoresSpec => []LatestKept
<1>1. StoresInv => LatestKept
  BY LatestAreKept DEF StoresInv
<1> QED
  BY <1>1, StoresInvariant, PTL

(* The stores are well typed, the log keeps its latest events, and a list  *)
(* that is not marked stale was answered within one pause and the          *)
(* operations of one fetch (refresh).                                      *)
THEOREM StoresStaySound == StoresSpec => []StoresSound
<1>1. StoresInv => StoresTypeOK
  BY DEF StoresInv, StoresTypeOK, KeyInv, CatalogInv, LogInv, LogTypeOK, LaidOut, Ordered
<1>2. StoresInv => FreshMeansRecent
  BY FreshIsRecent DEF StoresInv
<1> QED
  BY <1>1, <1>2, StoresInvariant, LatestEventsStay, PTL DEF StoresSound

=============================================================================
