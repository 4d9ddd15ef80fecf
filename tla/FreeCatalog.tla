---------------------------- MODULE FreeCatalog -----------------------------
(***************************************************************************)
(* The list of relayed free models behind /v1/models_cus                   *)
(* (egress/catalog.py): seeded from the settings, refreshed by a loop, and *)
(* marked stale while the last fetch failed.  Time passes in the loop's    *)
(* own sleeps and fetches, which are never late.  timeout_s is a limit of  *)
(* each operation of a fetch (a connect, a write, a read), and nothing in  *)
(* the code limits their number: Operations, the most an answer takes, is  *)
(* a bound of the model and an assumption about the upstream.              *)
(***************************************************************************)
EXTENDS Naturals

CONSTANTS
    Ids,       \* upstream model ids
    Relay,     \* OPENCODE_ZEN_MODELS
    Suffixed,  \* ids that is_free_entry takes for free by their name
    Ttl,       \* ttl_s
    Backoff,   \* _REFRESH_ERROR_BACKOFF_S
    Fetching,  \* timeout_s of one operation of a fetch
    Operations \* bound of the operations of a fetch

ASSUME CatalogAssumption ==
    /\ Relay \subseteq Ids /\ Suffixed \subseteq Ids
    /\ Ttl \in Nat \ {0} /\ Backoff \in 1..Ttl
    /\ Fetching \in Nat /\ Operations \in Nat \ {0}

VARIABLES
    offer,     \* what upstream answers: [up, free]
    listed,    \* _ids
    stale,     \* _degraded
    task,      \* the loop: [pc, timer, left], `left` operations to come
    answer,    \* the age of the last good answer, up to its cap
    again      \* `ok`, how the last fetch ended; for the properties

catalogVars == <<offer, listed, stale, task, answer, again>>

-----------------------------------------------------------------------------

AgeCap == Ttl + Operations * Fetching + 1

CatalogTypeOK ==
    /\ offer \in [up: BOOLEAN, free: SUBSET Ids]
    /\ listed \subseteq Relay
    /\ stale \in {"never", "yes", "no"}
    /\ task \in [pc: {"fetching", "sleeping"}, timer: 0..(Ttl + Fetching), left: 0..Operations]
    /\ answer \in 0..AgeCap
    /\ again \in BOOLEAN

(* A fetch, with all its operations to come.                               *)
Fetch == [pc |-> "fetching", timer |-> Fetching, left |-> Operations]

Seed == Relay \cap Suffixed

CatalogInit ==
    /\ offer \in [up: BOOLEAN, free: SUBSET Ids]
    /\ listed = Seed
    /\ stale = "never"
    /\ task = Fetch
    /\ answer = AgeCap
    /\ again = TRUE

(* ids()                                                                   *)
Shown == IF listed # {} THEN listed ELSE Seed

(* A first fetch comes before the loop, which then sleeps ttl_s whatever   *)
(* came of it.                                                             *)
Delay(ok) == IF ok \/ stale = "never" THEN Ttl ELSE Backoff

Sleep(ok) ==
    /\ task' = [pc |-> "sleeping", timer |-> Delay(ok), left |-> 0]
    /\ again' = ok

(* refresh, answered.                                                      *)
Fetched ==
    /\ task.pc = "fetching"
    /\ offer.up
    /\ listed' = offer.free \cap Relay
    /\ stale' = "no"
    /\ answer' = 0
    /\ Sleep(TRUE)
    /\ UNCHANGED offer

(* refresh, failed: an error, an operation out of time, a body of another  *)
(* shape.                                                                  *)
FetchFails ==
    /\ task.pc = "fetching"
    /\ ~offer.up \/ task.timer = 0
    /\ stale' = "yes"
    /\ Sleep(FALSE)
    /\ UNCHANGED <<offer, listed, answer>>

(* Fault: the loop goes on while its fetches succeed.                      *)
FetchBeginsHealthy ==
    /\ task.pc = "sleeping" /\ task.timer = 0 /\ again
    /\ task' = Fetch
    /\ UNCHANGED <<offer, listed, stale, answer, again>>

FetchBegins ==
    /\ task.pc = "sleeping" /\ task.timer = 0
    /\ task' = Fetch
    /\ UNCHANGED <<offer, listed, stale, answer, again>>

(* An operation is done and the next one begins, with the whole timeout.   *)
OperationEnds ==
    /\ task.pc = "fetching" /\ task.left > 1
    /\ offer.up
    /\ task' = [task EXCEPT !.timer = Fetching, !.left = @ - 1]
    /\ UNCHANGED <<offer, listed, stale, answer, again>>

CatalogTick ==
    /\ task.timer > 0
    /\ task' = [task EXCEPT !.timer = @ - 1]
    /\ answer' = IF answer < AgeCap THEN answer + 1 ELSE answer
    /\ UNCHANGED <<offer, listed, stale, again>>

OfferChanges ==
    /\ offer' \in [up: BOOLEAN, free: SUBSET Ids]
    /\ UNCHANGED <<listed, stale, task, answer, again>>

Looping == Fetched \/ FetchFails \/ FetchBegins \/ OperationEnds \/ CatalogTick

CatalogNext == Looping \/ OfferChanges

-----------------------------------------------------------------------------

(* A list that is not marked stale was answered within one pause and one   *)
(* fetch, whose length is not timeout_s but that of all its operations.    *)
FreshMeansRecent == stale = "no" => answer <= Ttl + Operations * Fetching

(* Once upstream answers for good and the fetches are in time, the list is *)
(* no longer marked stale: neither a failure nor a run of them stops the   *)
(* loop.                                                                   *)
CatalogRecovers == <>[](offer.up /\ (task.pc = "fetching" => task.timer > 0)) => <>[](stale = "no")

(* Documented: an id upstream stopped serving free "shows up stale/absent  *)
(* rather than silently lying".                                            *)
StaleOrAbsent == stale = "no" => Shown \subseteq listed

(* Documented: "A failed fetch retries sooner than a healthy TTL pass."    *)
RetriesSooner == task.pc = "sleeping" /\ ~again => task.timer <= Backoff
=============================================================================
