------------------------------- MODULE Stores -------------------------------
(***************************************************************************)
(* The three stores of the gateway process beside the pool: the keys, the  *)
(* free-model catalog and the event log.  They share no variable, so what  *)
(* one of them can do does not depend on the others, and an instance moves *)
(* one of them: the states add up and do not multiply.  Upstream is down   *)
(* in the instances where the catalog stands still.                        *)
(***************************************************************************)
EXTENDS KeyStore, FreeCatalog, EventLog

VARIABLE moving   \* the store that moves

storeVars == <<keyVars, catalogVars, logVars, moving>>

StoresInit ==
    /\ KeyInit /\ CatalogInit /\ LogInit
    /\ moving \in {"keys", "catalog", "log"}
    /\ moving # "catalog" => offer = [up |-> FALSE, free |-> {}]

KeysMove == moving = "keys" /\ KeyNext /\ UNCHANGED <<catalogVars, logVars, moving>>
CatalogMoves == moving = "catalog" /\ Looping /\ UNCHANGED <<keyVars, logVars, moving>>
OfferMoves == moving = "catalog" /\ OfferChanges /\ UNCHANGED <<keyVars, logVars, moving>>
LogMoves == moving = "log" /\ LogNext /\ UNCHANGED <<keyVars, catalogVars, moving>>

StoresNext == KeysMove \/ CatalogMoves \/ OfferMoves \/ LogMoves

(* The loop's sleeps and fetches end; nothing else has to happen.          *)
StoresSpec == StoresInit /\ [][StoresNext]_storeVars /\ WF_storeVars(CatalogMoves)

-----------------------------------------------------------------------------

StoresTypeOK == KeyTypeOK /\ CatalogTypeOK /\ LogTypeOK

(* The stores are well typed, a list that is not marked stale is recent,   *)
(* and the log keeps its latest events in order, whichever of its renames  *)
(* and writes fail.                                                        *)
StoresSound == StoresTypeOK /\ FreshMeansRecent /\ LatestKept
=============================================================================
