----------------------------- MODULE Protection -----------------------------
(***************************************************************************)
(* What the core protects payloads with: the vault that holds the tokens   *)
(* (over either of its stores), the local crypto provider and its key      *)
(* file, and the stream protector over the filter.  While they run they    *)
(* share no mutable state (the core awaits one answer and hands it to the  *)
(* next), so each behaviour here follows one of them and the others stand  *)
(* still.                                                                  *)
(***************************************************************************)
EXTENDS TokenStores, LocalKeys, StreamFilter

VARIABLE part   \* the part this behaviour follows

ProtectionInit ==
    /\ part \in {"vault", "keys", "stream"}
    /\ StoresInit /\ (part # "vault" => backend = "redis")
    /\ KeysInit
    /\ IF part = "stream" THEN StreamInit ELSE StreamStart(CHOOSE t \in Texts : TRUE, TRUE)

ProtectionNext ==
    /\ UNCHANGED part
    /\ \/ part = "vault" /\ StoresNext /\ UNCHANGED <<keyVars, streamVars>>
       \/ part = "keys" /\ KeysNext /\ UNCHANGED <<storesVars, streamVars>>
       \/ part = "stream" /\ StreamNext /\ UNCHANGED <<storesVars, keyVars>>

ProtectionSpec ==
    ProtectionInit /\ [][ProtectionNext]_<<part, storesVars, keyVars, streamVars>>
=============================================================================
