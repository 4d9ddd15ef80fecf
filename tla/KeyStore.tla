------------------------------ MODULE KeyStore ------------------------------
(***************************************************************************)
(* The API keys minted by POST /admin/keys (auth/keystore.py, auth/core.py *)
(* and the two routes of routes/admin.py that change them): a list in      *)
(* memory, and a file that is rewritten as a whole on every change and     *)
(* read on every start.  The routes do not await while they work, so they  *)
(* run one at a time; the process may be killed between two steps of one.  *)
(***************************************************************************)
EXTENDS Naturals

CONSTANTS
    Keys,     \* the keys that may be minted, each drawn once
    Ttls,     \* ttl_hours of a request; 0 is permanent, a bad one is a 400
    MaxNow    \* bound of the clock

ASSUME KeyAssumption == Ttls \subseteq Nat /\ MaxNow \in Nat

VARIABLES
    memory,   \* _records
    disk,     \* the file
    request,  \* the admin request that is being worked on
    told,     \* what the admin was answered about a key, and its expires_at
    running,  \* the process is up
    intact,   \* no start found the file unreadable
    now

keyVars == <<memory, disk, request, told, running, intact, now>>

-----------------------------------------------------------------------------

Records == [here: BOOLEAN, expires: Nat, revoked: BOOLEAN]
Absent == [here |-> FALSE, expires |-> 0, revoked |-> FALSE]
Nothing == [k \in Keys |-> Absent]

Requests == [pc: {"idle"}]
            \cup [pc: {"saving", "answering"}, kind: {"create", "revoke"}, key: Keys]
Idle == [pc |-> "idle"]

KeyTypeOK ==
    /\ memory \in [Keys -> Records]
    /\ disk \in [Keys -> Records]
    /\ request \in Requests
    /\ told \in [Keys -> [said: {"nothing", "minted", "revoked", "already"}, expires: Nat]]
    /\ running \in BOOLEAN
    /\ intact \in BOOLEAN
    /\ now \in Nat

KeyInit ==
    /\ memory = Nothing
    /\ disk = Nothing
    /\ request = Idle
    /\ told = [k \in Keys |-> [said |-> "nothing", expires |-> 0]]
    /\ running = TRUE
    /\ intact = TRUE
    /\ now = 0

-----------------------------------------------------------------------------

Over(expires) == expires # 0 /\ now >= expires

(* validate and classify_key: what the gateway lets in.                    *)
Accepted(k) ==
    /\ running
    /\ memory[k].here /\ ~memory[k].revoked /\ ~Over(memory[k].expires)

Free == running /\ request = Idle

(* create: the record is in memory before the file is written.             *)
CreateBegins(k, ttl) ==
    /\ Free
    /\ memory[k] = Absent /\ disk[k] = Absent /\ told[k].said = "nothing"
    /\ memory' = [memory EXCEPT ![k] =
                     [here |-> TRUE, expires |-> IF ttl > 0 THEN now + ttl ELSE 0,
                      revoked |-> FALSE]]
    /\ request' = [pc |-> "saving", kind |-> "create", key |-> k]
    /\ UNCHANGED <<disk, told, running, intact, now>>

(* revoke: again the memory first.                                         *)
RevokeBegins(k) ==
    /\ Free
    /\ memory[k].here /\ ~memory[k].revoked
    /\ memory' = [memory EXCEPT ![k].revoked = TRUE]
    /\ request' = [pc |-> "saving", kind |-> "revoke", key |-> k]
    /\ UNCHANGED <<disk, told, running, intact, now>>

(* 404, "not found (or already revoked)".                                  *)
RevokeAgain(k) ==
    /\ Free
    /\ memory[k].here /\ memory[k].revoked
    /\ told[k].said # "revoked"
    /\ told' = [told EXCEPT ![k].said = "already"]
    /\ UNCHANGED <<memory, disk, request, running, intact, now>>

(* Fault: the file does not say which keys were revoked.                   *)
SavedUnrevoked ==
    /\ running /\ request.pc = "saving"
    /\ disk' = [k \in Keys |-> [memory[k] EXCEPT !.revoked = FALSE]]
    /\ request' = [request EXCEPT !.pc = "answering"]
    /\ UNCHANGED <<memory, told, running, intact, now>>

(* _save: a temporary file that replaces the old one.                      *)
Saved ==
    /\ running /\ request.pc = "saving"
    /\ disk' = memory
    /\ request' = [request EXCEPT !.pc = "answering"]
    /\ UNCHANGED <<memory, told, running, intact, now>>

(* The write fails: a 500, and the memory stays as it is.                  *)
SaveFails ==
    /\ running /\ request.pc = "saving"
    /\ request' = Idle
    /\ UNCHANGED <<memory, disk, told, running, intact, now>>

Answered ==
    /\ running /\ request.pc = "answering"
    /\ told' = [told EXCEPT ![request.key] =
                   IF request.kind = "create"
                   THEN [said |-> "minted", expires |-> memory[request.key].expires]
                   ELSE [@ EXCEPT !.said = "revoked"]]
    /\ request' = Idle
    /\ UNCHANGED <<memory, disk, running, intact, now>>

Killed ==
    /\ running
    /\ running' = FALSE
    /\ memory' = Nothing
    /\ request' = Idle
    /\ UNCHANGED <<disk, told, intact, now>>

(* _load: a file that cannot be read leaves the store empty.               *)
Started ==
    /\ ~running
    /\ running' = TRUE
    /\ \/ memory' = disk /\ UNCHANGED intact
       \/ memory' = Nothing /\ intact' = FALSE
    /\ UNCHANGED <<disk, request, told, now>>

KeyTick ==
    /\ now < MaxNow
    /\ now' = now + 1
    /\ UNCHANGED <<memory, disk, request, told, running, intact>>

KeyStep(k) == (\E ttl \in Ttls : CreateBegins(k, ttl)) \/ RevokeBegins(k) \/ RevokeAgain(k)

KeyNext ==
    \/ \E k \in Keys : KeyStep(k)
    \/ Saved \/ SaveFails \/ Answered
    \/ Killed \/ Started
    \/ KeyTick

KeySpec == KeyInit /\ [][KeyNext]_keyVars

-----------------------------------------------------------------------------

(* "stop authenticating the moment they expire or are revoked": a key      *)
(* whose revocation was answered, or whose expires_at has come, is never   *)
(* let in again, whatever fails or restarts afterwards.                    *)
DeadStaysDead ==
    \A k \in Keys :
        Accepted(k) => told[k].said # "revoked" /\ ~Over(told[k].expires)

(* A key that was handed out is in the store after any restart that could  *)
(* read the file, with the expiry that was handed out with it              *)
(* (test_store_persists_across_reload).                                    *)
MintedIsKept ==
    \A k \in Keys :
        running /\ intact /\ told[k].said = "minted"
            => memory[k].here /\ memory[k].expires = told[k].expires

(* What a caller was told of a key holds from then on: a dead key stays    *)
(* dead, one that was handed out stays good.                               *)
WordKept == DeadStaysDead /\ MintedIsKept

(* Documented of a key that is revoked, and answered by revoke(): "already *)
(* revoked" stays so.                                                      *)
AlreadyRevokedStays == \A k \in Keys : told[k].said = "already" => ~Accepted(k)
=============================================================================
