--------------------------- MODULE MCOidcSessions ---------------------------
(* An instance of OidcSessions for TLC. *)
EXTENDS OidcSessions

\* A session lifetime shorter than the ceiling, so that a refresh can move the
\* session's end past it.
MCOidcConfigs ==
    { [enableRefresh |-> TRUE, sessionTtl |-> 4, idleTtl |-> 4, refreshMaxLifetime |-> 5,
       pendingTtl |-> 1, pendingCap |-> 1] }
=============================================================================
