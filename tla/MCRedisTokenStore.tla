-------------------------- MODULE MCRedisTokenStore -------------------------
(* Small instances of RedisTokenStore for TLC. *)
EXTENDS RedisTokenStore, TLC

Symmetry == Permutations(Replicas) \cup Permutations(Tokens)
=============================================================================
