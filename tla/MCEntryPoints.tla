---------------------------- MODULE MCEntryPoints ----------------------------
(***************************************************************************)
(* Instance of EntryPoints for TLC: for each part the configurations and   *)
(* inputs that make its interesting cases happen.                          *)
(***************************************************************************)
EXTENDS EntryPoints

\* Lifetimes that a refresh straddles, and a broker without refresh.
MCOidcConfigs ==
    { [enableRefresh |-> TRUE, sessionTtl |-> 4, idleTtl |-> 4, refreshMaxLifetime |-> 5,
       pendingTtl |-> 1, pendingCap |-> 1],
      [enableRefresh |-> FALSE, sessionTtl |-> 2, idleTtl |-> 1, refreshMaxLifetime |-> 5,
       pendingTtl |-> 1, pendingCap |-> 2] }

MCSandboxConfigs ==
    { [runtime |-> "worker", keyMaterial |-> FALSE, maxPendingCalls |-> 2,
       respawnMaxKills |-> 1, respawnWindow |-> 1],
      [runtime |-> "process", keyMaterial |-> TRUE, maxPendingCalls |-> 2,
       respawnMaxKills |-> 2, respawnWindow |-> 2] }

\* A cooldown as long as the TTL, and a shorter one.
MCFetchConfigs ==
    { [kind |-> "jwks", ttl |-> 2, cooldown |-> 2], [kind |-> "jwks", ttl |-> 3, cooldown |-> 1],
      [kind |-> "document", ttl |-> 2, cooldown |-> 2] }

\* A limit of one, a map that is full with one key.
MCLimiterConfigs ==
    { [kind |-> k, limit |-> 1, window |-> 2, maxKeys |-> 1] :
      k \in {"runtime", "local", "memory", "redis"} }

\* One line of every kind protectTagged tells apart.
MCMcpLine(form, method, hasId, flagged) ==
    [form |-> form, jsonrpc2 |-> TRUE, method |-> method, hasId |-> hasId, flagged |-> flagged]
MCMcpLines ==
    { MCMcpLine("blank", "none", FALSE, FALSE), MCMcpLine("bad", "none", FALSE, FALSE),
      MCMcpLine("message", "tools/call", TRUE, FALSE), MCMcpLine("message", "tools/call", FALSE, TRUE),
      MCMcpLine("message", "other", TRUE, FALSE) }

\* A window of one to three records; a chain too long to walk.
MCDashConfigs ==
    { [window |-> 3, limit |-> 1, chainMax |-> 9], [window |-> 5, limit |-> 2, chainMax |-> 3] }
=============================================================================
