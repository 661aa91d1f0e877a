----------------------------- MODULE EntryPoints -----------------------------
(***************************************************************************)
(* The ways into the program other than the gateway's own data path        *)
(* (module Gateway): the auth provider resolveAuthProvider picks (bearer   *)
(* file, sandboxed plugin, or an external JWT verifier), the rate limiter  *)
(* before it, MCP over stdio, and the dashboard with its OIDC broker.      *)
(* The parts share no mutable state while they run (the gateway awaits the *)
(* provider's answer, the dashboard only reads the audit file), so each    *)
(* behaviour here follows one of them and the others stand still.          *)
(***************************************************************************)
EXTENDS OidcSessions, PluginSandbox, KeyFetch, BearerTokens, RateLimiters, McpStdio, DashboardReads

VARIABLE entry   \* the part this behaviour follows

\* config.auth.provider: a bearer store, a plugin in its sandbox, or a
\* verifier injected by the caller.
AuthProviders == {"bearer", "plugin", "external"}
Entries == AuthProviders \cup {"limiter", "mcp", "broker", "events", "chain"}

\* The part that is followed takes every configuration, another one any.
Given(configs, parts) == IF entry \in parts THEN configs ELSE {CHOOSE c \in configs : TRUE}

EntryInit ==
    /\ entry \in Entries
    /\ BearerInit
    /\ \E c \in Given(SandboxConfigs, {"plugin"}) : SandboxInit(c)
    /\ \E c \in Given(FetchConfigs, {"external"}) : FetchInit(c)
    /\ \E c \in Given(LimiterConfigs, {"limiter"}) : LimiterInit(c)
    /\ \E mode \in Given({"filter", "wrap"}, {"mcp"}) : McpInit(mode)
    /\ \E c \in Given(OidcConfigs, {"broker"}) : OidcInit(c)
    /\ \E c \in Given(DashConfigs, {"events", "chain"}) : DashInit(c)

\* The steps of the auth provider in use.
ProviderNext ==
    \/ entry = "bearer" /\ BearerNext /\ UNCHANGED <<sandboxVars, fetchVars>>
    \/ entry = "plugin" /\ SandboxNext /\ UNCHANGED <<bearerVars, fetchVars>>
    \/ entry = "external" /\ FetchNext /\ UNCHANGED <<bearerVars, sandboxVars>>

\* The steps of the dashboard and its broker.
DashboardNext ==
    \/ entry = "broker" /\ OidcNext /\ UNCHANGED dashVars
    \/ entry = "events" /\ (LogGrows \/ EventsRoute) /\ UNCHANGED oidcVars
    \/ entry = "chain" /\ (LogGrows \/ ChainRoute) /\ UNCHANGED oidcVars

EntryNext ==
    /\ UNCHANGED entry
    /\ \/ ProviderNext /\ UNCHANGED <<limiterVars, mcpVars, oidcVars, dashVars>>
       \/ /\ entry = "limiter" /\ LimiterNext
          /\ UNCHANGED <<bearerVars, sandboxVars, fetchVars, mcpVars, oidcVars, dashVars>>
       \/ /\ entry = "mcp" /\ McpNext
          /\ UNCHANGED <<bearerVars, sandboxVars, fetchVars, limiterVars, oidcVars, dashVars>>
       \/ DashboardNext /\ UNCHANGED <<bearerVars, sandboxVars, fetchVars, limiterVars, mcpVars>>

entryVars == <<entry, bearerVars, sandboxVars, fetchVars, limiterVars, mcpVars, oidcVars, dashVars>>

\* The fairness of the part that is followed.
EntryFairness ==
    /\ \A k \in AuthCalls : WF_sandboxVars(entry = "plugin" /\ CallProgress(k))
    /\ WF_sandboxVars(entry = "plugin" /\ ConformanceEnds)
    /\ \A d \in Sides : WF_mcpVars(entry = "mcp" /\ PumpStep(d))
    /\ WF_mcpVars(entry = "mcp" /\ EmitStderr)
    /\ WF_mcpVars(entry = "mcp" /\ Resolve)

EntrySpec == EntryInit /\ [][EntryNext]_entryVars /\ EntryFairness
=============================================================================
