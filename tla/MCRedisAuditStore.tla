------------------------- MODULE MCRedisAuditStore --------------------------
(* Small instances of RedisAuditStore for TLC. *)
EXTENDS RedisAuditStore, TLC

=============================================================================
