----------------------------- MODULE MCKeyFetch -----------------------------
(* An instance of KeyFetch for TLC: the JWKS cache of the JWT verifier. *)
EXTENDS KeyFetch

MCFetchConfigs == { [kind |-> "jwks", ttl |-> 2, cooldown |-> 2] }
=============================================================================
