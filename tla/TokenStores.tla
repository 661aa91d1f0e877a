----------------------------- MODULE TokenStores -----------------------------
(***************************************************************************)
(* The token vault over either of its stores.  A deployment has one of     *)
(* them: the Redis store its replicas share, or the vault file on disk;    *)
(* the other one stands still.                                             *)
(***************************************************************************)
EXTENDS RedisTokenStore, FileTokenStore

VARIABLE backend   \* the store in use

storesVars == <<backend, vars, fileVars>>

StoresInit ==
    /\ backend \in {"redis", "file"}
    /\ Init
    /\ FileInit

StoresNext ==
    /\ UNCHANGED backend
    /\ \/ backend = "redis" /\ Next /\ UNCHANGED fileVars
       \/ backend = "file" /\ FileNext /\ UNCHANGED vars

StoresSpec == StoresInit /\ [][StoresNext]_storesVars
=============================================================================
