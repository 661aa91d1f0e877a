------------------------- MODULE EntryPointsProofs --------------------------
(***************************************************************************)
(* What the entry points keep: the cached key fetchers for any number of   *)
(* callers and keys and any TTL and cooldown; the bearer token file for    *)
(* any number of tokens, commands and requests; the plugin sandbox for any *)
(* number of calls, replies, kills and restarts, in every configuration of *)
(* both runtimes; the OIDC session broker for any number of requests,      *)
(* logins, sessions and users and any lifetimes; the rate limiters for any *)
(* number of keys and calls and any limit and window; and the dashboard's  *)
(* reads for any number of clients, records and record lengths.            *)
(***************************************************************************)
EXTENDS KeyFetch, BearerTokens, PluginSandbox, OidcSessions, RateLimiters, DashboardReads,
        FiniteSetTheorems, WellFoundedInduction, TLAPS

-----------------------------------------------------------------------------
\* The key fetchers

\* Times are noted in order: a fetch is never started after the attempt was
\* noted, and nothing happened before the clock began.
TimesInOrder ==
    /\ fetcher \in FetchConfigs
    /\ fetchNow \in Nat \ {0}
    /\ fetchedAt \in 0..fetchNow
    /\ lastRefetchAt \in 0..fetchNow
    /\ lastStart \in 0..lastRefetchAt

\* The history of the latest fetch agrees with the fetch under way.
OutcomeAgrees ==
    /\ fetch = NoFetch \/ fetch.at \in {"asked", "body"}
    /\ outcome \in {"none", "inflight", "ok", "failed"}
    /\ fetch # NoFetch <=> outcome = "inflight"
    /\ outcome = "none" => fetchedAt = 0

\* A fetch that worked is at least as young as the attempt that was noted.
WorkedIsLatest == outcome = "ok" => fetchedAt >= lastRefetchAt

CachedWasFetched == cacheKeys # {} => fetchedAt # 0

FetchInv ==
    /\ TimesInOrder /\ OutcomeAgrees /\ WorkedIsLatest /\ CachedWasFetched
    /\ accepted.age \in Nat /\ StaleOnlyUnrefreshed

LEMMA FetchInit_Inv == ASSUME NEW c \in FetchConfigs, FetchInit(c) PROVE FetchInv
BY FetchAssumption DEF FetchInit, FetchInv, TimesInOrder, OutcomeAgrees, WorkedIsLatest, CachedWasFetched,
   StaleOnlyUnrefreshed, NoFetch, Nothing, FetchConfig

\* The configuration's numbers.
LEMMA FetchNumbers == ASSUME TimesInOrder PROVE fetcher.ttl \in Nat /\ fetcher.cooldown \in Nat /\ fetcher.kind \in {"jwks", "document"}
BY FetchAssumption DEF TimesInOrder, FetchConfig

\* A key handed out from the cache past its TTL: the cooldown forbids a fetch,
\* so the latest attempt is younger than the key, and has not worked.
LEMMA FromCacheKeeps ==
    ASSUME FetchInv, NEW v \in Verifiers, NEW kid \in Kids, FromCache(v, kid)
    PROVE  FetchInv'
<1> USE FetchNumbers DEF FetchInv
<1>1. UNCHANGED <<fetcher, fetchNow, cacheKeys, fetchedAt, fetch, lastRefetchAt, lastStart, outcome>>
    BY DEF FromCache, cacheVars, fetchState
<1>2. TimesInOrder' /\ OutcomeAgrees' /\ WorkedIsLatest' /\ CachedWasFetched'
    BY <1>1 DEF TimesInOrder, OutcomeAgrees, WorkedIsLatest, CachedWasFetched
<1>3. accepted' = [age |-> fetchNow - fetchedAt, outcome |-> outcome]
    BY DEF FromCache, Accept
<1>4. accepted'.age = fetchNow - fetchedAt /\ accepted'.age \in Nat /\ accepted'.outcome = outcome
    BY <1>3 DEF TimesInOrder
<1>5. fetchedAt # 0
    BY DEF FromCache, Cached, CachedWasFetched
<1>6. ASSUME fetcher.cooldown <= fetcher.ttl, accepted'.age >= fetcher.ttl
      PROVE  outcome \in {"inflight", "failed"}
    <2>1. ~Fresh
        BY <1>4, <1>5, <1>6 DEF Fresh, TimesInOrder
    <2>2. lastRefetchAt # 0 /\ fetchNow - lastRefetchAt < fetcher.cooldown
        BY <2>1 DEF FromCache, CooldownElapsed, TimesInOrder
    <2>3. fetchedAt < lastRefetchAt
        BY <1>4, <1>6, <2>2 DEF TimesInOrder
    <2> QED
        BY <1>5, <2>3 DEF OutcomeAgrees, WorkedIsLatest, TimesInOrder
<1>7. StaleOnlyUnrefreshed'
    BY <1>1, <1>4, <1>6 DEF StaleOnlyUnrefreshed
<1> QED
    BY <1>2, <1>4, <1>7

LEMMA AwaitFetchKeeps ==
    ASSUME FetchInv, NEW v \in Verifiers, NEW kid \in Kids, AwaitFetch(v, kid)
    PROVE  FetchInv'
<1> USE DEF FetchInv
<1>1. UNCHANGED <<fetcher, fetchNow, cacheKeys, fetchedAt, accepted>>
    BY DEF AwaitFetch, cacheVars
<1>2. StaleOnlyUnrefreshed' /\ accepted'.age \in Nat /\ CachedWasFetched'
    BY <1>1 DEF StaleOnlyUnrefreshed, CachedWasFetched
<1>3. CASE StartFetch /\ lastRefetchAt' = fetchNow
    <2>1. TimesInOrder'
        BY <1>1, <1>3 DEF TimesInOrder, StartFetch
    <2>2. OutcomeAgrees' /\ WorkedIsLatest'
        BY <1>1, <1>3 DEF OutcomeAgrees, WorkedIsLatest, StartFetch, NoFetch
    <2> QED
        BY <1>2, <2>1, <2>2
<1>4. CASE UNCHANGED fetchState
    BY <1>1, <1>2, <1>4 DEF fetchState, TimesInOrder, OutcomeAgrees, WorkedIsLatest
<1> QED
    BY <1>3, <1>4 DEF AwaitFetch, NotedAttempt

LEMMA FetchSettles ==
    ASSUME FetchInv, IssuerAnswers \/ Fetched \/ FetchFails
    PROVE  FetchInv'
<1> USE FetchNumbers DEF FetchInv
<1>1. UNCHANGED <<fetcher, fetchNow, lastRefetchAt, lastStart>>
    BY DEF IssuerAnswers, Fetched, FetchFails
<1>2. CASE IssuerAnswers
    BY <1>1, <1>2 DEF IssuerAnswers, cacheVars, TimesInOrder, OutcomeAgrees, WorkedIsLatest, CachedWasFetched,
                      StaleOnlyUnrefreshed, NoFetch
<1>3. CASE Fetched
    <2>1. TimesInOrder' /\ OutcomeAgrees' /\ WorkedIsLatest' /\ CachedWasFetched'
        BY <1>1, <1>3 DEF Fetched, TimesInOrder, OutcomeAgrees, WorkedIsLatest, CachedWasFetched
    <2>2. accepted' = accepted \/ accepted'.age = 0
        BY <1>3 DEF Fetched
    <2>3. StaleOnlyUnrefreshed' /\ accepted'.age \in Nat
        BY <1>1, <2>2 DEF StaleOnlyUnrefreshed
    <2> QED
        BY <2>1, <2>3
<1>4. CASE FetchFails
    BY <1>1, <1>4 DEF FetchFails, cacheVars, TimesInOrder, OutcomeAgrees, WorkedIsLatest, CachedWasFetched,
                      StaleOnlyUnrefreshed
<1> QED
    BY <1>2, <1>3, <1>4

LEMMA FetchStep == FetchInv /\ [FetchNext]_fetchVars => FetchInv'
<1> SUFFICES ASSUME FetchInv, [FetchNext]_fetchVars PROVE FetchInv'
    OBVIOUS
<1> USE DEF FetchInv, TimesInOrder, OutcomeAgrees, WorkedIsLatest, CachedWasFetched, StaleOnlyUnrefreshed
<1>1. CASE FetchTick
    BY <1>1 DEF FetchTick, cacheVars, fetchState
<1>2. ASSUME NEW keys \in SUBSET Kids, Rotate(keys) PROVE FetchInv'
    BY <1>2 DEF Rotate, cacheVars, fetchState
<1>3. CASE UNCHANGED fetchVars
    BY <1>3 DEF fetchVars
<1> QED
    BY <1>1, <1>2, <1>3, FromCacheKeeps, AwaitFetchKeeps, FetchSettles DEF FetchNext

LEMMA FetchInvHolds == FetchSpec => []FetchInv
<1>1. (\E c \in FetchConfigs : FetchInit(c)) => FetchInv
    BY FetchInit_Inv
<1> QED
    BY <1>1, FetchStep, PTL DEF FetchSpec

\* With a cooldown no longer than the TTL, no key past its TTL is handed out
\* after a fetch that worked.
THEOREM NoStaleAfterSuccess == FetchSpec => []StaleOnlyUnrefreshed
<1>1. FetchInv => StaleOnlyUnrefreshed
    BY DEF FetchInv
<1> QED
    BY <1>1, FetchInvHolds, PTL

\* A fetch starts.
FetchStarts == fetch = NoFetch /\ fetch' # NoFetch

\* The cooldown is asked of the last attempt, which is no older than the last
\* start, so starts are at least as far apart.
LEMMA StartsSpaced ==
    ASSUME FetchInv, [FetchNext]_fetchVars, FetchStarts,
           lastStart # 0, fetchedAt # 0 \/ fetcher.kind = "document"
    PROVE  fetchNow - lastStart >= fetcher.cooldown
<1> USE DEF FetchInv, FetchStarts
<1>1. ~IssuerAnswers /\ ~Fetched /\ ~FetchFails
    BY DEF IssuerAnswers, Fetched, FetchFails, NoFetch
<1>2. \A keys : ~Rotate(keys)
    BY DEF Rotate, fetchState
<1>3. ~FetchTick /\ ~UNCHANGED fetchVars /\ \A v, kid : ~FromCache(v, kid)
    BY DEF FetchTick, FromCache, fetchVars, fetchState
<1>4. \E v \in Verifiers, kid \in Kids : AwaitFetch(v, kid)
    BY <1>1, <1>2, <1>3 DEF FetchNext
<1>5. CooldownElapsed
    BY <1>4 DEF AwaitFetch, fetchState
<1>6. lastRefetchAt # 0 /\ fetchNow - lastRefetchAt >= fetcher.cooldown
    BY <1>5 DEF CooldownElapsed, TimesInOrder
<1> QED
    BY <1>6, FetchNumbers DEF TimesInOrder

\* The document fetcher's fetches, and those of the JWKS cache after its first
\* success, are spaced by the cooldown, whatever the callers ask for and
\* however the issuer fails.
THEOREM FetchesAreSpaced == FetchSpec => FetchesSpaced
<1>1. FetchInv /\ [FetchNext]_fetchVars =>
          [fetch = NoFetch /\ fetch' # NoFetch /\ lastStart # 0 /\ (fetchedAt # 0 \/ fetcher.kind = "document")
           => fetchNow - lastStart >= fetcher.cooldown]_fetchVars
    BY StartsSpaced DEF FetchStarts
<1> QED
    BY <1>1, FetchInvHolds, PTL DEF FetchSpec, FetchesSpaced

-----------------------------------------------------------------------------
\* The bearer token file

\* What a command is about to write is what it read, with its own change.
OwnChange(c) ==
    \/ /\ c.op = "add"
       /\ c.read[c.token] = "absent"
       /\ c.store = [c.read EXCEPT ![c.token] = "active"]
    \/ /\ c.op = "revoke"
       /\ c.store = [c.read EXCEPT ![c.token] = "disabled"]

CommandsOwn ==
    /\ DOMAIN command = CliProcs
    /\ \A p \in CliProcs : command[p].at = "write" =>
           command[p].token \in TokenIds /\ DOMAIN command[p].read = TokenIds /\ OwnChange(command[p])

\* While every command replaced the file it had read, what was revoked is
\* disabled in the file.
RevokedDisabled == ~overlapped => \A t \in revokedDone : authFile[t] = "disabled"

RequestsRemember ==
    /\ DOMAIN request = BearerRequests
    /\ \A q \in BearerRequests :
           request[q].at = "read" /\ request[q].revoked => request[q].token \in revokedDone

BearerStoreInv ==
    /\ overlapped \in BOOLEAN /\ DOMAIN authFile = TokenIds /\ revokedDone \subseteq TokenIds
    /\ CommandsOwn /\ RevokedDisabled /\ RequestsRemember /\ RevokedIsRefused

LEMMA BearerInit_Inv == ASSUME BearerInit PROVE BearerStoreInv
<1> USE DEF BearerInit
<1>1. overlapped \in BOOLEAN /\ RevokedDisabled /\ RevokedIsRefused
    BY DEF RevokedDisabled, RevokedIsRefused
<1>2. DOMAIN authFile = TokenIds /\ revokedDone \subseteq TokenIds
    OBVIOUS
<1>3. CommandsOwn
    <2>1. \A p \in CliProcs : command[p] = NoCommand
        OBVIOUS
    <2>2. \A p \in CliProcs : command[p].at # "write"
        BY <2>1 DEF NoCommand
    <2> QED
        BY <2>2 DEF CommandsOwn
<1>4. RequestsRemember
    <2>1. \A q \in BearerRequests : request[q].at # "read"
        BY DEF NoRequest
    <2> QED
        BY <2>1 DEF RequestsRemember
<1> QED
    BY <1>1, <1>2, <1>3, <1>4 DEF BearerStoreInv

LEMMA WriteKeeps ==
    ASSUME BearerStoreInv, NEW p \in CliProcs, WriteAuthStore(p)
    PROVE  BearerStoreInv'
<1> USE DEF BearerStoreInv
<1> DEFINE c == command[p]
<1>1. /\ c.at = "write" /\ authFile' = c.store
      /\ overlapped' = (overlapped \/ authFile # c.read)
      /\ revokedDone' = IF c.op = "revoke" THEN revokedDone \cup {c.token} ELSE revokedDone
      /\ command' = [command EXCEPT ![p] = NoCommand]
      /\ UNCHANGED <<request, passed>>
    BY DEF WriteAuthStore
<1>2. c.token \in TokenIds /\ DOMAIN c.read = TokenIds /\ OwnChange(c)
    BY <1>1 DEF CommandsOwn
<1>3. overlapped' \in BOOLEAN /\ DOMAIN authFile' = TokenIds /\ revokedDone' \subseteq TokenIds
    BY <1>1, <1>2 DEF OwnChange
<1>4. CommandsOwn'
    BY <1>1 DEF CommandsOwn, NoCommand
<1>5. RevokedDisabled'
    <2> SUFFICES ASSUME ~overlapped' PROVE \A t \in revokedDone' : authFile'[t] = "disabled"
        BY DEF RevokedDisabled
    <2>1. ~overlapped /\ authFile = c.read
        BY <1>1
    <2>2. \A t \in revokedDone : authFile[t] = "disabled"
        BY <2>1 DEF RevokedDisabled
    <2>3. CASE c.op = "add"
        BY <1>1, <1>2, <2>1, <2>2, <2>3 DEF OwnChange
    <2>4. CASE c.op = "revoke"
        BY <1>1, <1>2, <2>1, <2>2, <2>4 DEF OwnChange
    <2> QED
        BY <1>2, <2>3, <2>4 DEF OwnChange
<1>6. RequestsRemember'
    BY <1>1 DEF RequestsRemember
<1>7. RevokedIsRefused'
    BY <1>1 DEF RevokedIsRefused
<1> QED
    BY <1>3, <1>4, <1>5, <1>6, <1>7

LEMMA ReadKeeps ==
    ASSUME BearerStoreInv, NEW p \in CliProcs, NEW op \in {"add", "revoke"}, NEW t \in TokenIds,
           ReadAuthStore(p, op, t)
    PROVE  BearerStoreInv'
<1> USE DEF BearerStoreInv
<1>1. UNCHANGED <<authFile, request, revokedDone, overlapped, passed>>
    BY DEF ReadAuthStore
<1>2. CommandsOwn'
    BY DEF ReadAuthStore, Revoked, CommandsOwn, OwnChange
<1> QED
    BY <1>1, <1>2 DEF RevokedDisabled, RequestsRemember, RevokedIsRefused

LEMMA MatchKeeps ==
    ASSUME BearerStoreInv, NEW q \in BearerRequests, MatchRecord(q)
    PROVE  BearerStoreInv'
<1> USE DEF BearerStoreInv
<1>1. UNCHANGED <<authFile, command, revokedDone, overlapped>> /\ request' = [request EXCEPT ![q] = NoRequest]
    BY DEF MatchRecord
<1>2. RequestsRemember'
    BY <1>1 DEF RequestsRemember, NoRequest
<1>3. RevokedIsRefused'
    BY <1>1 DEF MatchRecord, RevokedIsRefused, RevokedDisabled, RequestsRemember
<1> QED
    BY <1>1, <1>2, <1>3 DEF CommandsOwn, RevokedDisabled

LEMMA BearerStep == BearerStoreInv /\ [BearerNext]_bearerVars => BearerStoreInv'
<1> SUFFICES ASSUME BearerStoreInv, [BearerNext]_bearerVars PROVE BearerStoreInv'
    OBVIOUS
<1> USE DEF BearerStoreInv, CommandsOwn, RevokedDisabled, RequestsRemember, RevokedIsRefused
<1>1. ASSUME NEW p \in CliProcs, WriteFails(p) PROVE BearerStoreInv'
    BY <1>1 DEF WriteFails, NoCommand
<1>2. ASSUME NEW q \in BearerRequests, NEW t \in TokenIds, Present(q, t) PROVE BearerStoreInv'
    BY <1>2 DEF Present
<1>3. CASE UNCHANGED bearerVars
    BY <1>3 DEF bearerVars
<1> QED
    BY <1>1, <1>2, <1>3, WriteKeeps, ReadKeeps, MatchKeeps DEF BearerNext

\* A reported revocation holds for every request that begins after it, for any
\* number of commands, as long as no two of them overlapped on the file.
THEOREM RevocationHolds == BearerSpec => []RevokedIsRefused
<1>1. BearerStoreInv => RevokedIsRefused
    BY DEF BearerStoreInv
<1> QED
    BY <1>1, BearerInit_Inv, BearerStep, PTL DEF BearerSpec

-----------------------------------------------------------------------------
\* The plugin sandbox

\* The parts of the inductive invariant: calls are numbered by AuthCalls.
GrantedType == granted \in [AuthCalls -> AuthCalls \cup {NoCall}]
AwaitingType == awaiting \subseteq AuthCalls
RepliesType == \A m \in replies : m.cid \in AuthCalls
AskedType == asked \subseteq AuthCalls

\* OwnClaimsOnly with the types it needs: a reply names a call.
GrantInv == GrantedType /\ AwaitingType /\ AskedType /\ RepliesType /\ OwnClaimsOnly

\* A step that sends nothing, delivers nothing and grants nothing.
LEMMA QuietStep ==
    ASSUME GrantInv, awaiting' \subseteq awaiting, asked' \subseteq asked, replies' = replies, granted' = granted
    PROVE  GrantInv'
BY DEF GrantInv, GrantedType, AwaitingType, AskedType, RepliesType, OwnClaimsOnly

\* A call is sent: it joins the pending map and what the plugin was asked.
LEMMA SendStep ==
    ASSUME GrantInv, NEW k \in AuthCalls,
           awaiting' = awaiting \cup {k}, asked' = asked \cup {k}, replies' = replies, granted' = granted
    PROVE  GrantInv'
BY DEF GrantInv, GrantedType, AwaitingType, AskedType, RepliesType, OwnClaimsOnly

\* Every start of a request is one or the other.
LEMMA DispatchStep ==
    ASSUME GrantInv, NEW k \in AuthCalls, NEW w, Dispatch(k, w)
    PROVE  GrantInv'
BY QuietStep, SendStep DEF Dispatch, Send

\* A delivered reply takes from the pending map what it settles, and grants
\* claims only to the call whose id it carries.
LEMMA DeliverStep ==
    ASSUME GrantInv, NEW m \in replies, Deliver(m)
    PROVE  GrantInv'
<1> USE DEF GrantInv
<1>1. AwaitingType' /\ AskedType' /\ RepliesType'
    BY DEF Deliver, AwaitingType, AskedType, RepliesType, pluginVars
<1>2. CASE Matched(m) = {}
    <2>1. granted' = granted
        BY <1>2 DEF Deliver
    <2> QED
        BY <1>1, <2>1 DEF GrantedType, OwnClaimsOnly
<1>3. CASE Matched(m) # {}
    <2> DEFINE k == CHOOSE x \in Matched(m) : TRUE
    <2>1. k \in Matched(m) /\ k \in AuthCalls
        BY <1>3 DEF Matched, AwaitingType
    <2>2. granted' = [granted EXCEPT ![k] = IF m.kind = "claims" THEN m.cid ELSE @]
        BY <1>3 DEF Deliver
    <2>3. m.kind = "claims" => k = m.cid
        BY <2>1 DEF Matched
    <2>4. m.cid \in AuthCalls
        BY DEF RepliesType
    <2> HIDE DEF k
    <2> QED
        BY <1>1, <2>1, <2>2, <2>3, <2>4 DEF GrantedType, OwnClaimsOnly
<1> QED
    BY <1>2, <1>3

LEMMA ReplyStep ==
    ASSUME GrantInv, NEW k \in AuthCalls, NEW kind, Reply(k, kind)
    PROVE  GrantInv'
<1>1. replies' = replies \cup {[cid |-> k, kind |-> kind]}
    BY DEF Reply
<1>2. awaiting' = awaiting /\ asked' = asked /\ granted' = granted
    BY DEF Reply, pluginVars
<1>3. RepliesType'
    BY <1>1 DEF GrantInv, RepliesType
<1> QED
    BY <1>2, <1>3 DEF GrantInv, GrantedType, AwaitingType, AskedType, OwnClaimsOnly

LEMMA GrantInvStep == GrantInv /\ [SandboxNext]_sandboxVars => GrantInv'
<1> SUFFICES ASSUME GrantInv, [SandboxNext]_sandboxVars PROVE GrantInv'
    OBVIOUS
<1> USE QuietStep DEF hostVars, pluginVars
<1>1. ASSUME NEW k \in AuthCalls, Probe(k) \/ SandboxAuthenticate(k) \/ PassGate(k) PROVE GrantInv'
    BY <1>1 DEF Probe, SandboxAuthenticate, PassGate
<1>2. ASSUME NEW k \in AuthCalls, DeniedNow(k) PROVE GrantInv'
    BY <1>2 DEF DeniedNow
<1>3. ASSUME NEW k \in AuthCalls,
             TurnLive(k) \/ WorkerSpawns(k) \/ ChildLoaded(k)
      PROVE  GrantInv'
    <2>1. CASE TurnLive(k)
        BY <1>2, <2>1, DispatchStep DEF TurnLive
    <2>2. CASE WorkerSpawns(k)
        BY <2>2, DispatchStep DEF WorkerSpawns
    <2>3. CASE ChildLoaded(k)
        BY <1>2, <2>3, DispatchStep DEF ChildLoaded
    <2> QED
        BY <1>3, <2>1, <2>2, <2>3
<1>4. ASSUME NEW k \in AuthCalls,
             TurnRefused(k) \/ GateRefuses(k) \/ BackoffRefused(k) \/ HandshakeFails(k) \/ KeyFetchFails(k)
      PROVE  GrantInv'
    BY <1>2, <1>4 DEF TurnRefused, GateRefuses, BackoffRefused, HandshakeFails, KeyFetchFails
<1>5. ASSUME NEW k \in AuthCalls, ChildBacksOff(k) \/ ChildSpawns(k) PROVE GrantInv'
    BY <1>5 DEF ChildBacksOff, ChildSpawns
<1>6. ASSUME NEW k \in AuthCalls, KeysFetched(k) PROVE GrantInv'
    BY <1>2, <1>6, SendStep DEF KeysFetched, Send
<1>7. ASSUME NEW k \in AuthCalls, TimesOut(k) PROVE GrantInv'
    BY <1>7 DEF TimesOut, Terminate
<1>8. CASE PluginCrashes
    BY <1>8 DEF PluginCrashes, Terminate
<1>9. CASE ConformanceEnds \/ SandboxClose \/ SandboxTick
    BY <1>9 DEF ConformanceEnds, ConformancePasses, ConformanceFails, SandboxClose, CloseNow, SandboxTick
<1>10. CASE UNCHANGED sandboxVars
    BY <1>10 DEF sandboxVars
<1> QED
    BY <1>1, <1>3, <1>4, <1>5, <1>6, <1>7, <1>8, <1>9, <1>10, DeliverStep, ReplyStep
    DEF SandboxNext, CallProgress

\* No call is ever granted on the claims given for another one, for any number
\* of calls, late and repeated replies, kills and restarts: the correlation id
\* decides in roundTrip's reply handler.
THEOREM ClaimsStayTheirOwn == SandboxSpec => []OwnClaimsOnly
<1>1. ASSUME NEW c \in SandboxConfigs, SandboxInit(c) PROVE GrantInv
    BY <1>1 DEF SandboxInit, GrantInv, GrantedType, AwaitingType, AskedType, RepliesType, OwnClaimsOnly
<1>2. (\E c \in SandboxConfigs : SandboxInit(c)) => GrantInv
    BY <1>1
<1>3. GrantInv => OwnClaimsOnly
    BY DEF GrantInv
<1> QED
    BY <1>2, <1>3, GrantInvStep, PTL DEF SandboxSpec

-----------------------------------------------------------------------------
\* A step that leaves the plugin and the closed flag alone, or ends the plugin.
LEMMA DownStep ==
    ASSUME ClosedStaysDown, plugin' = 0 \/ (plugin' = plugin /\ sandboxClosed' = sandboxClosed)
    PROVE  ClosedStaysDown'
BY DEF ClosedStaysDown

\* A plugin is only taken on while the provider is open.
LEMMA UpStep ==
    ASSUME ~sandboxClosed, sandboxClosed' = sandboxClosed
    PROVE  ClosedStaysDown'
BY DEF ClosedStaysDown

LEMMA DownInvStep == ClosedStaysDown /\ [SandboxNext]_sandboxVars => ClosedStaysDown'
<1> SUFFICES ASSUME ClosedStaysDown, [SandboxNext]_sandboxVars PROVE ClosedStaysDown'
    OBVIOUS
<1> USE DownStep DEF hostVars, pluginVars
<1>1. ASSUME NEW k \in AuthCalls, Probe(k) \/ SandboxAuthenticate(k) \/ PassGate(k) PROVE ClosedStaysDown'
    BY <1>1 DEF Probe, SandboxAuthenticate, PassGate
<1>2. ASSUME NEW k \in AuthCalls, DeniedNow(k) PROVE ClosedStaysDown'
    BY <1>2 DEF DeniedNow
<1>3. ASSUME NEW k \in AuthCalls, NEW w, Dispatch(k, w) PROVE plugin' = w /\ sandboxClosed' = sandboxClosed
    BY <1>3 DEF Dispatch, Send
<1>4. ASSUME NEW k \in AuthCalls, TurnLive(k) PROVE ClosedStaysDown'
    BY <1>2, <1>3, <1>4 DEF TurnLive
<1>5. ASSUME NEW k \in AuthCalls, WorkerSpawns(k) PROVE ClosedStaysDown'
    BY <1>3, <1>5, UpStep DEF WorkerSpawns
<1>6. ASSUME NEW k \in AuthCalls, ChildLoaded(k) PROVE ClosedStaysDown'
    BY <1>2, <1>3, <1>6, UpStep DEF ChildLoaded
<1>7. ASSUME NEW k \in AuthCalls,
             TurnRefused(k) \/ GateRefuses(k) \/ BackoffRefused(k) \/ HandshakeFails(k) \/ KeyFetchFails(k)
      PROVE  ClosedStaysDown'
    BY <1>2, <1>7 DEF TurnRefused, GateRefuses, BackoffRefused, HandshakeFails, KeyFetchFails
<1>8. ASSUME NEW k \in AuthCalls, ChildBacksOff(k) \/ ChildSpawns(k) PROVE ClosedStaysDown'
    BY <1>8 DEF ChildBacksOff, ChildSpawns
<1>9. ASSUME NEW k \in AuthCalls, KeysFetched(k) PROVE ClosedStaysDown'
    BY <1>2, <1>9 DEF KeysFetched, Send
<1>10. ASSUME NEW k \in AuthCalls, TimesOut(k) PROVE ClosedStaysDown'
    BY <1>10 DEF TimesOut, Terminate
<1>11. CASE PluginCrashes \/ ConformanceEnds \/ SandboxClose \/ SandboxTick
    BY <1>11 DEF PluginCrashes, Terminate, ConformanceEnds, ConformancePasses, ConformanceFails,
                 SandboxClose, CloseNow, SandboxTick
<1>12. ASSUME NEW k \in AuthCalls, NEW kind, Reply(k, kind) PROVE ClosedStaysDown'
    BY <1>12 DEF Reply
<1>13. ASSUME NEW m \in replies, Deliver(m) PROVE ClosedStaysDown'
    BY <1>13 DEF Deliver
<1>14. CASE UNCHANGED sandboxVars
    BY <1>14 DEF sandboxVars
<1> QED
    BY <1>1, <1>4, <1>5, <1>6, <1>7, <1>8, <1>9, <1>10, <1>11, <1>12, <1>13, <1>14
    DEF SandboxNext, CallProgress

\* After close() no worker or child lives, whatever start or handshake was
\* under way: ensureChild looks at the flag again when the child has loaded.
THEOREM ClosedIsFinal == SandboxSpec => []ClosedStaysDown
<1>1. (\E c \in SandboxConfigs : SandboxInit(c)) => ClosedStaysDown
    BY DEF SandboxInit, ClosedStaysDown
<1> QED
    BY <1>1, DownInvStep, PTL DEF SandboxSpec

-----------------------------------------------------------------------------
\* The OIDC session broker

MadeSessions == {s \in Sessions : Made(s)}

SessionObject ==
    [at : {"made"}, login : Logins, subject : Subjects, createdAt : Nat, lastSeen : Nat, gen : Nat,
     renewable : BOOLEAN, originalCreatedAt : Nat]

\* Ids that were handed to a browser: they are stored or have ended.
Issued == stored \cup ended

\* The objects, the ids in use, and what a refresh under way is about.
SessionType ==
    /\ oidcNow \in Nat
    /\ session \in [Sessions -> SessionObject \cup {NoSession}]
    /\ Issued \subseteq MadeSessions
    /\ DOMAIN refreshInflight = Sessions
    /\ \A s \in Sessions : refreshInflight[s] # NoRefresh =>
           /\ s \in Issued
           /\ refreshInflight[s].at \in {"grant", "rotate", "report"}
           /\ refreshInflight[s].t \in Nat
           /\ refreshInflight[s].at = "rotate" => refreshInflight[s].subject = session[s].subject

\* Sessions are made in the order of their ids.
MadeInOrder == \E n \in Nat : n <= MaxSessions /\ MadeSessions = 1..n

\* What the handlers hold across their awaits.
VisitType ==
    /\ DOMAIN visit = Visits
    /\ \A q \in Visits :
           /\ visit[q].at \in {"idle", "discover", "exchange", "seal", "logout", "refresh"}
           /\ visit[q].at = "exchange" => visit[q].login \in 1..logins /\ visit[q].subject \in Subjects
           /\ visit[q].at = "logout" => visit[q].session \in Issued

\* A session that waits for its token to be sealed is known to nobody else.
SealedAlone ==
    \A q \in Visits : visit[q].at = "seal" =>
        /\ visit[q].session \in MadeSessions \ Issued
        /\ \A p \in Visits : visit[p].at = "seal" /\ visit[p].session = visit[q].session => p = q

\* A login is pending, or in one exchange, or has its session: never two of them.
LoginType ==
    /\ logins \in 0..MaxLogins
    /\ DOMAIN pending = Logins
    /\ \A l \in Logins : pending[l] # 0 => l \in 1..logins
    /\ \A s \in MadeSessions : session[s].login \in 1..logins
LoginInOnePlace ==
    \A q \in Visits : visit[q].at = "exchange" =>
        /\ pending[visit[q].login] = 0
        /\ \A p \in Visits : visit[p].at = "exchange" /\ visit[p].login = visit[q].login => p = q
        /\ \A s \in MadeSessions : session[s].login # visit[q].login
UsedIsTaken == \A s \in MadeSessions : pending[session[s].login] = 0

OidcInv ==
    /\ SessionType /\ MadeInOrder /\ VisitType /\ SealedAlone
    /\ LoginType /\ LoginInOnePlace /\ UsedIsTaken
    /\ EndedStaysEnded /\ LoginUsedOnce

LEMMA OidcInit_Inv == ASSUME NEW c \in OidcConfigs, OidcInit(c) PROVE OidcInv
<1> USE OidcAssumption DEF OidcInit, Made, MadeSessions, Issued
<1>1. MadeSessions = 1..0
    BY DEF NoSession, Sessions
<1>2. MadeInOrder
    BY <1>1 DEF MadeInOrder
<1>3. SessionType
    BY DEF SessionType
<1>4. VisitType /\ SealedAlone /\ LoginInOnePlace
    BY DEF VisitType, SealedAlone, LoginInOnePlace, Idle
<1>5. LoginType /\ UsedIsTaken /\ EndedStaysEnded /\ LoginUsedOnce
    BY DEF LoginType, UsedIsTaken, EndedStaysEnded, LoginUsedOnce
<1> QED
    BY <1>2, <1>3, <1>4, <1>5 DEF OidcInv

-----------------------------------------------------------------------------
\* Most steps make no session, open no login and hand out no id.

\* Every object stays what it was, up to its times and generation.
SameSessions ==
    /\ session' \in [Sessions -> SessionObject \cup {NoSession}]
    /\ \A s \in Sessions :
           /\ Made(s)' <=> Made(s)
           /\ Made(s) => /\ session'[s].login = session[s].login
                         /\ session'[s].subject = session[s].subject

\* Ids move from stored to ended only, and what is ended is not stored.
SameIssued == Issued' = Issued /\ EndedStaysEnded'

SameLogins ==
    /\ logins' = logins
    /\ DOMAIN pending' = Logins
    /\ \A l \in Logins : pending'[l] # 0 => pending[l] # 0

RefreshesGoOn ==
    /\ DOMAIN refreshInflight' = Sessions
    /\ \A s \in Sessions :
           \/ refreshInflight'[s] = refreshInflight[s]
           \/ refreshInflight'[s] = NoRefresh
           \/ /\ s \in Issued
              /\ refreshInflight'[s].at \in {"grant", "rotate", "report"}
              /\ refreshInflight'[s].t \in Nat
              /\ refreshInflight'[s].at = "rotate" => refreshInflight'[s].subject = session[s].subject

\* A handler goes on to wait for nothing that is exclusively its own.
VisitsGoOn ==
    /\ DOMAIN visit' = Visits
    /\ \A q \in Visits :
           \/ visit'[q] = visit[q]
           \/ visit'[q].at \in {"idle", "discover", "refresh"}
           \/ visit'[q].at = "logout" /\ visit'[q].session \in Issued

QuietMove ==
    /\ oidcNow' \in Nat
    /\ SameSessions /\ SameIssued /\ SameLogins /\ RefreshesGoOn /\ VisitsGoOn

LEMMA QuietKeeps == ASSUME OidcInv, QuietMove PROVE OidcInv'
<1> USE DEF OidcInv, QuietMove
<1>1. MadeSessions' = MadeSessions
    BY DEF MadeSessions, SameSessions
<1>2. \A s \in MadeSessions :
          s \in Sessions /\ session'[s].login = session[s].login /\ session'[s].subject = session[s].subject
    BY DEF MadeSessions, SameSessions
<1>3. SessionType'
    <2>1. Issued' \subseteq MadeSessions'
        BY <1>1 DEF SessionType, SameIssued
    <2>2. ASSUME NEW s \in Sessions, refreshInflight'[s] # NoRefresh
          PROVE  /\ s \in Issued'
                 /\ refreshInflight'[s].at \in {"grant", "rotate", "report"}
                 /\ refreshInflight'[s].t \in Nat
                 /\ refreshInflight'[s].at = "rotate" => refreshInflight'[s].subject = session'[s].subject
        <3>1. s \in Issued /\ s \in Issued' /\ session'[s].subject = session[s].subject
            BY <1>2, <2>2 DEF RefreshesGoOn, SessionType, SameIssued
        <3> QED
            BY <2>2, <3>1 DEF RefreshesGoOn, SessionType
    <2> QED
        BY <2>1, <2>2 DEF SessionType, SameSessions, RefreshesGoOn
<1>4. MadeInOrder'
    BY <1>1 DEF MadeInOrder
<1>5. VisitType'
    BY DEF VisitType, VisitsGoOn, SameIssued, SameLogins
<1>6. \A q \in Visits : visit'[q].at \in {"seal", "exchange"} => visit'[q] = visit[q]
    BY DEF VisitsGoOn
<1>7. SealedAlone'
    BY <1>1, <1>6 DEF SealedAlone, SameIssued
<1>8. LoginType'
    BY <1>1, <1>2 DEF LoginType, SameLogins
<1>9. LoginInOnePlace'
    <2>1. ASSUME NEW q \in Visits, visit'[q].at = "exchange"
          PROVE  visit'[q] = visit[q] /\ visit[q].login \in Logins
        BY <1>6, <2>1, OidcAssumption DEF VisitType, LoginType, Logins
    <2> QED
        BY <1>1, <1>2, <2>1 DEF LoginInOnePlace, SameLogins
<1>10. UsedIsTaken'
    BY <1>1, <1>2, OidcAssumption DEF UsedIsTaken, SameLogins, LoginType, Logins
<1>11. LoginUsedOnce'
    BY <1>1, <1>2 DEF LoginUsedOnce, MadeSessions
<1> QED
    BY <1>3, <1>4, <1>5, <1>7, <1>8, <1>9, <1>10, <1>11 DEF SameIssued

\* The parts that a step leaves alone are quiet.
LEMMA SessionsAlone ==
    ASSUME OidcInv, UNCHANGED session PROVE SameSessions
BY DEF OidcInv, SessionType, SameSessions, Made

LEMMA IssuedAlone ==
    ASSUME OidcInv, UNCHANGED <<stored, ended>> PROVE SameIssued
BY DEF OidcInv, SameIssued, EndedStaysEnded, Issued

LEMMA DestroyIsQuiet ==
    ASSUME OidcInv, NEW s \in Issued, Destroy(s) PROVE SameIssued
BY DEF OidcInv, Destroy, SameIssued, EndedStaysEnded, Issued

LEMMA LoginsAlone ==
    ASSUME OidcInv, UNCHANGED <<pending, logins>> PROVE SameLogins
BY DEF OidcInv, LoginType, SameLogins

LEMMA RefreshesAlone ==
    ASSUME OidcInv, UNCHANGED refreshInflight PROVE RefreshesGoOn
BY DEF OidcInv, SessionType, RefreshesGoOn

LEMMA VisitsAlone ==
    ASSUME OidcInv, UNCHANGED visit PROVE VisitsGoOn
BY DEF OidcInv, VisitType, VisitsGoOn

LEMMA AnswerIsQuiet ==
    ASSUME OidcInv, NEW q \in Visits, Answers(q) PROVE VisitsGoOn
BY DEF OidcInv, VisitType, VisitsGoOn, Answers, Idle

LEMMA ReleaseIsQuiet ==
    ASSUME OidcInv, NEW s \in Sessions, Release(s) PROVE VisitsGoOn
BY DEF OidcInv, VisitType, VisitsGoOn, Release, Idle

-----------------------------------------------------------------------------
\* The quiet actions.

LEMMA TickIsQuiet == ASSUME OidcInv, OidcTick \/ Discovered \/ DiscoveryFails PROVE QuietMove
<1>1. oidcNow' \in Nat
    BY DEF OidcInv, SessionType, OidcTick, Discovered, DiscoveryFails
<1>2. UNCHANGED <<session, stored, ended, refreshInflight, pending, logins>>
    BY DEF OidcTick, Discovered, DiscoveryFails, sessionVars, loginVars
<1>3. VisitsGoOn
    <2>1. CASE DiscoveryFails
        BY <2>1 DEF DiscoveryFails, OidcInv, VisitType, VisitsGoOn, Idle
    <2>2. CASE OidcTick \/ Discovered
        BY <2>2, VisitsAlone DEF OidcTick, Discovered
    <2> QED
        BY <2>1, <2>2
<1> QED
    BY <1>1, <1>2, <1>3, SessionsAlone, IssuedAlone, LoginsAlone, RefreshesAlone DEF QuietMove

LEMMA HandlerIsQuiet ==
    ASSUME OidcInv, NEW q \in Visits,
           Refused(q) \/ Login(q) \/ CallbackDenied(q) \/ LogoutFails(q)
    PROVE  QuietMove
<1>1. oidcNow' \in Nat
    BY DEF OidcInv, SessionType, Refused, Login, CallbackDenied, LogoutFails, Arrives, Resumes
<1>2. UNCHANGED <<session, stored, ended, refreshInflight, pending, logins>>
    BY DEF Refused, Login, CallbackDenied, LogoutFails, sessionVars, loginVars
<1>3. VisitsGoOn
    <2>1. CASE Refused(q)
        BY <2>1, VisitsAlone DEF Refused
    <2>2. CASE Login(q)
        BY <2>2 DEF Login, Waits, OidcInv, VisitType, VisitsGoOn
    <2>3. CASE CallbackDenied(q) \/ LogoutFails(q)
        BY <2>3, AnswerIsQuiet DEF CallbackDenied, LogoutFails
    <2> QED
        BY <2>1, <2>2, <2>3
<1> QED
    BY <1>1, <1>2, <1>3, SessionsAlone, IssuedAlone, LoginsAlone, RefreshesAlone DEF QuietMove

LEMMA LogoutIsQuiet ==
    ASSUME OidcInv, NEW q \in Visits, NEW s \in Issued, Logout(q, s)
    PROVE  QuietMove
<1>1. oidcNow' \in Nat /\ UNCHANGED <<session, refreshInflight, pending, logins>>
    BY DEF OidcInv, SessionType, Logout, Arrives, sessionVars, loginVars
<1>2. SameIssued
    <2>1. CASE s \in stored
        BY <2>1, IssuedAlone DEF Logout, sessionVars
    <2>2. CASE s \notin stored
        BY <2>2, DestroyIsQuiet DEF Logout
    <2> QED
        BY <2>1, <2>2
<1>3. VisitsGoOn
    <2>1. CASE s \in stored
        BY <2>1 DEF Logout, Waits, OidcInv, VisitType, VisitsGoOn
    <2>2. CASE s \notin stored
        BY <2>2, VisitsAlone DEF Logout
    <2> QED
        BY <2>1, <2>2
<1> QED
    BY <1>1, <1>2, <1>3, SessionsAlone, LoginsAlone, RefreshesAlone DEF QuietMove

LEMMA LoggedOutIsQuiet ==
    ASSUME OidcInv, NEW q \in Visits, LoggedOut(q)
    PROVE  QuietMove
<1>1. oidcNow' \in Nat /\ UNCHANGED <<session, refreshInflight, pending, logins>>
    BY DEF OidcInv, SessionType, LoggedOut, Resumes, loginVars
<1>2. visit[q].session \in Issued /\ Destroy(visit[q].session) /\ Answers(q)
    BY DEF OidcInv, VisitType, LoggedOut, Resumes
<1> QED
    BY <1>1, <1>2, SessionsAlone, LoginsAlone, RefreshesAlone, DestroyIsQuiet, AnswerIsQuiet DEF QuietMove

LEMMA AuthenticateIsQuiet ==
    ASSUME OidcInv, NEW q \in Visits, NEW s \in stored,
           AuthenticateExpired(q, s) \/ Authenticate(q, s)
    PROVE  QuietMove
<1>1. s \in Sessions /\ s \in Issued /\ session[s] \in SessionObject /\ Made(s)
    BY DEF OidcInv, SessionType, MadeSessions, Made, Issued
<1>2. oidcNow \in Nat /\ oidcNow' \in Nat /\ UNCHANGED <<refreshInflight, pending, logins, visit>>
    BY DEF OidcInv, SessionType, AuthenticateExpired, Authenticate, Arrives, loginVars
<1>3. CASE AuthenticateExpired(q, s)
    <2>1. Destroy(s) /\ UNCHANGED session
        BY <1>3 DEF AuthenticateExpired
    <2> QED
        BY <1>1, <1>2, <2>1, SessionsAlone, LoginsAlone, RefreshesAlone, VisitsAlone, DestroyIsQuiet DEF QuietMove
<1>4. CASE Authenticate(q, s)
    <2>1. UNCHANGED <<stored, ended>> /\ session' = [session EXCEPT ![s].lastSeen = oidcNow]
        BY <1>4 DEF Authenticate
    <2>2. SameSessions
        BY <1>1, <1>2, <2>1 DEF OidcInv, SessionType, SameSessions, Made, NoSession, SessionObject
    <2> QED
        BY <1>2, <2>1, <2>2, IssuedAlone, LoginsAlone, RefreshesAlone, VisitsAlone DEF QuietMove
<1> QED
    BY <1>3, <1>4

LEMMA RenewingIsQuiet ==
    ASSUME OidcInv, NEW q \in Visits, NEW s \in stored, AuthenticateRenewing(q, s)
    PROVE  QuietMove
<1>1. s \in Sessions /\ s \in Issued
    BY DEF OidcInv, SessionType, MadeSessions, Issued
<1>2. oidcNow \in Nat /\ oidcNow' \in Nat /\ UNCHANGED <<session, pending, logins>>
    BY DEF OidcInv, SessionType, AuthenticateRenewing, Arrives, loginVars
<1>3. CASE refreshInflight[s] = NoRefresh /\ oidcNow >= Ceiling(s)
    <2>1. Destroy(s) /\ UNCHANGED <<refreshInflight, visit>>
        BY <1>3 DEF AuthenticateRenewing
    <2> QED
        BY <1>1, <1>2, <2>1, SessionsAlone, LoginsAlone, RefreshesAlone, VisitsAlone, DestroyIsQuiet DEF QuietMove
<1>4. CASE ~(refreshInflight[s] = NoRefresh /\ oidcNow >= Ceiling(s))
    <2>1. /\ UNCHANGED <<stored, ended>>
          /\ refreshInflight' = [refreshInflight EXCEPT ![s] =
                 IF @ = NoRefresh THEN [at |-> "grant", t |-> oidcNow, gen |-> session[s].gen] ELSE @]
          /\ Waits(q, [at |-> "refresh", session |-> s, t |-> oidcNow])
        BY <1>4 DEF AuthenticateRenewing
    <2>2. RefreshesGoOn
        BY <1>1, <1>2, <2>1 DEF OidcInv, SessionType, RefreshesGoOn
    <2>3. VisitsGoOn
        BY <2>1 DEF Waits, OidcInv, VisitType, VisitsGoOn
    <2> QED
        BY <1>2, <2>1, <2>2, <2>3, SessionsAlone, IssuedAlone, LoginsAlone DEF QuietMove
<1> QED
    BY <1>3, <1>4

-----------------------------------------------------------------------------
\* The stretches of a refresh.

LEMMA RefreshEndsQuietly ==
    ASSUME OidcInv, NEW s \in Sessions, RefreshFails(s) \/ RefreshReported(s)
    PROVE  QuietMove
<1>1. s \in Issued
    <2>1. refreshInflight[s] # NoRefresh
        BY DEF RefreshFails, RefreshReported, NoRefresh
    <2> QED
        BY <2>1 DEF OidcInv, SessionType
<1>2. /\ oidcNow' \in Nat
      /\ UNCHANGED <<session, pending, logins>>
      /\ refreshInflight' = [refreshInflight EXCEPT ![s] = NoRefresh]
      /\ Release(s)
    BY DEF OidcInv, SessionType, RefreshFails, RefreshReported, loginVars
<1>3. SameIssued
    <2>1. CASE RefreshFails(s)
        BY <1>1, <2>1, DestroyIsQuiet DEF RefreshFails
    <2>2. CASE RefreshReported(s)
        BY <2>2, IssuedAlone DEF RefreshReported
    <2> QED
        BY <2>1, <2>2
<1>4. RefreshesGoOn
    BY <1>2 DEF OidcInv, SessionType, RefreshesGoOn
<1> QED
    BY <1>2, <1>3, <1>4, SessionsAlone, LoginsAlone, ReleaseIsQuiet DEF QuietMove

\* An object that is the session's own up to its times may take its place.
LEMMA ReplacedObject ==
    ASSUME OidcInv, NEW s \in MadeSessions, NEW object \in SessionObject,
           object.login = session[s].login, object.subject = session[s].subject,
           session' = [session EXCEPT ![s] = object]
    PROVE  SameSessions
BY DEF OidcInv, SessionType, SameSessions, MadeSessions, Made, NoSession, SessionObject

LEMMA CommitIsQuiet ==
    ASSUME OidcInv, NEW s \in Sessions, refreshInflight[s] # NoRefresh,
           NEW object \in SessionObject,
           object.login = session[s].login, object.subject = session[s].subject,
           Commit(s, object), UNCHANGED <<oidcNow, loginVars, ended>>
    PROVE  QuietMove
<1>1. s \in Issued /\ s \in MadeSessions /\ refreshInflight[s].t \in Nat
    BY DEF OidcInv, SessionType
<1>2. oidcNow' \in Nat /\ UNCHANGED <<pending, logins>>
    BY DEF OidcInv, SessionType, loginVars
<1>3. CASE ResurrectionGuard(s)
    <2> DEFINE saved == [object EXCEPT !.gen = @ + 1]
    <2>1. saved \in SessionObject /\ saved.login = object.login /\ saved.subject = object.subject
        BY DEF SessionObject
    <2>2. /\ session' = [session EXCEPT ![s] = saved]
          /\ stored' = stored \cup {s}
          /\ refreshInflight' = [refreshInflight EXCEPT ![s].at = "report"]
          /\ UNCHANGED visit
        BY <1>3 DEF Commit
    <2> HIDE DEF saved
    <2>3. SameSessions
        BY <1>1, <2>1, <2>2, ReplacedObject
    <2>4. SameIssued
        <3>1. stored' = stored
            BY <1>3, <2>2 DEF ResurrectionGuard
        <3> QED
            BY <3>1, IssuedAlone
    <2>5. RefreshesGoOn
        BY <1>1, <2>2 DEF OidcInv, SessionType, RefreshesGoOn
    <2> QED
        BY <1>2, <2>2, <2>3, <2>4, <2>5, LoginsAlone, VisitsAlone DEF QuietMove
<1>4. CASE ~ResurrectionGuard(s)
    <2>1. /\ session' = [session EXCEPT ![s] = object]
          /\ UNCHANGED stored
          /\ refreshInflight' = [refreshInflight EXCEPT ![s] = NoRefresh]
          /\ Release(s)
        BY <1>4 DEF Commit
    <2>2. RefreshesGoOn
        BY <2>1 DEF OidcInv, SessionType, RefreshesGoOn
    <2> QED
        BY <1>1, <1>2, <2>1, <2>2, ReplacedObject, IssuedAlone, LoginsAlone, ReleaseIsQuiet DEF QuietMove
<1> QED
    BY <1>3, <1>4

LEMMA RefreshedIsQuiet ==
    ASSUME OidcInv, NEW s \in Sessions, NEW u \in Subjects, Refreshed(s, u)
    PROVE  QuietMove
<1> DEFINE t == refreshInflight[s].t
           renewed == [session[s] EXCEPT !.createdAt = t, !.lastSeen = t]
           named == [renewed EXCEPT !.subject = u]
<1>1. refreshInflight[s] # NoRefresh
    BY DEF Refreshed, NoRefresh
<1>2. s \in Issued /\ s \in MadeSessions /\ t \in Nat /\ session[s] \in SessionObject
    BY <1>1 DEF OidcInv, SessionType, MadeSessions, Made
<1>3. u = session[s].subject /\ UNCHANGED <<oidcNow, loginVars, ended>>
    BY DEF Refreshed, SameSubject
<1>4. /\ renewed \in SessionObject /\ renewed.login = session[s].login /\ renewed.subject = session[s].subject
      /\ named \in SessionObject /\ named.login = session[s].login /\ named.subject = session[s].subject
    BY <1>2, <1>3 DEF SessionObject
<1>5. CASE Commit(s, named)
    BY <1>1, <1>3, <1>4, <1>5, CommitIsQuiet
<1>6. CASE /\ session' = [session EXCEPT ![s] = renewed]
           /\ refreshInflight' = [refreshInflight EXCEPT ![s] = [at |-> "rotate", t |-> t, gen |-> @.gen,
                                                                 subject |-> u]]
           /\ UNCHANGED <<stored, visit>>
    <2>1. SameSessions
        BY <1>2, <1>4, <1>6, ReplacedObject
    <2>2. RefreshesGoOn
        BY <1>2, <1>3, <1>6 DEF OidcInv, SessionType, RefreshesGoOn
    <2>3. oidcNow' \in Nat /\ UNCHANGED <<pending, logins>>
        BY <1>3 DEF OidcInv, SessionType, loginVars
    <2> QED
        BY <1>3, <1>6, <2>1, <2>2, <2>3, IssuedAlone, LoginsAlone, VisitsAlone DEF QuietMove
<1> QED
    BY <1>5, <1>6 DEF Refreshed

LEMMA RotatedIsQuiet ==
    ASSUME OidcInv, NEW s \in Sessions, Rotated(s)
    PROVE  QuietMove
<1> DEFINE named == [session[s] EXCEPT !.subject = refreshInflight[s].subject]
<1>1. refreshInflight[s] # NoRefresh
    BY DEF Rotated, NoRefresh
<1>2. session[s] \in SessionObject /\ refreshInflight[s].subject = session[s].subject
    BY <1>1 DEF OidcInv, SessionType, MadeSessions, Made, Rotated
<1>3. named \in SessionObject /\ named.login = session[s].login /\ named.subject = session[s].subject
    BY <1>2 DEF SessionObject
<1>4. Commit(s, named) /\ UNCHANGED <<oidcNow, loginVars, ended>>
    BY DEF Rotated
<1> QED
    BY <1>1, <1>3, <1>4, CommitIsQuiet

-----------------------------------------------------------------------------
\* The four steps of a login: stored, taken, exchanged, sealed.

LEMMA StorePendingKeeps ==
    ASSUME OidcInv, NEW q \in Visits, StorePending(q)
    PROVE  OidcInv' /\ UNCHANGED session
<1> USE OidcAssumption DEF OidcInv
<1>1. /\ UNCHANGED <<oidcNow, session, stored, ended, refreshInflight>>
      /\ logins' = logins + 1 /\ logins < MaxLogins
      /\ visit' = [visit EXCEPT ![q] = Idle]
    BY DEF StorePending, Resumes, Answers, sessionVars
<1>2. DOMAIN pending' = Logins /\ \A l \in Logins : l # logins' => (pending'[l] # 0 => pending[l] # 0)
    BY DEF StorePending, PendingAfterPrune
<1>3. logins \in Nat /\ logins' \in 0..MaxLogins /\ logins' \notin 1..logins /\ 1..logins \subseteq 1..logins'
    BY <1>1 DEF LoginType
<1>4. MadeSessions' = MadeSessions /\ Issued' = Issued
    BY <1>1 DEF MadeSessions, Made, Issued
<1>5. \A p \in Visits : visit'[p] = visit[p] \/ visit'[p].at = "idle"
    BY <1>1 DEF VisitType, Idle
<1>6. SessionType' /\ MadeInOrder' /\ EndedStaysEnded' /\ LoginUsedOnce'
    BY <1>1, <1>4 DEF SessionType, MadeInOrder, EndedStaysEnded, LoginUsedOnce, Made
<1>7. VisitType' /\ SealedAlone'
    BY <1>1, <1>3, <1>4, <1>5 DEF VisitType, SealedAlone
<1>8. LoginType'
    BY <1>1, <1>2, <1>3, <1>4 DEF LoginType
<1>9. \A l \in 1..logins : l \in Logins /\ (pending[l] = 0 => pending'[l] = 0)
    BY <1>1, <1>2, <1>3 DEF LoginType, Logins
<1>10. LoginInOnePlace'
    BY <1>1, <1>4, <1>5, <1>9 DEF LoginInOnePlace, VisitType
<1>11. UsedIsTaken'
    BY <1>1, <1>4, <1>9 DEF UsedIsTaken, LoginType
<1> QED
    BY <1>1, <1>6, <1>7, <1>8, <1>10, <1>11

LEMMA CallbackKeeps ==
    ASSUME OidcInv, NEW q \in Visits, NEW l \in 1..logins, NEW st, NEW c, NEW u \in Subjects,
           Callback(q, l, st, c, u)
    PROVE  OidcInv' /\ UNCHANGED session
<1> USE OidcAssumption DEF OidcInv
<1>1. /\ UNCHANGED <<oidcNow, logins, session, stored, ended, refreshInflight>>
      /\ pending' = [pending EXCEPT ![l] = 0]
      /\ l \in Logins
    BY DEF Callback, Arrives, Take, sessionVars, LoginType, Logins
<1>2. CASE UNCHANGED visit
    <2>1. SameLogins
        BY <1>1 DEF SameLogins, LoginType
    <2>2. QuietMove
        BY <1>1, <1>2, <2>1, SessionsAlone, IssuedAlone, RefreshesAlone, VisitsAlone DEF QuietMove, SessionType
    <2> QED
        BY <1>1, <2>2, QuietKeeps
<1>3. CASE /\ pending[l] > oidcNow
           /\ visit' = [visit EXCEPT ![q] = [at |-> "exchange", login |-> l, code |-> c, subject |-> u]]
    <2>1. pending[l] # 0
        BY <1>3 DEF SessionType
    <2>2. MadeSessions' = MadeSessions /\ Issued' = Issued
        BY <1>1 DEF MadeSessions, Made, Issued
    <2>3. /\ visit'[q].at = "exchange" /\ visit'[q].login = l /\ visit'[q].subject = u
          /\ \A p \in Visits : p # q => visit'[p] = visit[p]
          /\ DOMAIN visit' = Visits
        BY <1>3 DEF VisitType
    <2>4. SessionType' /\ MadeInOrder' /\ EndedStaysEnded' /\ LoginUsedOnce'
        BY <1>1, <2>2 DEF SessionType, MadeInOrder, EndedStaysEnded, LoginUsedOnce, Made
    <2>5. VisitType' /\ SealedAlone'
        BY <1>1, <2>2, <2>3 DEF VisitType, SealedAlone
    <2>6. LoginType' /\ UsedIsTaken'
        BY <1>1, <2>2 DEF LoginType, UsedIsTaken, Logins
    <2>7. \A p \in Visits : visit[p].at = "exchange" => visit[p].login \in Logins /\ visit[p].login # l
        BY <2>1 DEF LoginInOnePlace, VisitType, LoginType, Logins
    <2>8. \A s \in MadeSessions : session[s].login # l
        BY <2>1 DEF UsedIsTaken
    <2>9. LoginInOnePlace'
        BY <1>1, <2>2, <2>3, <2>7, <2>8 DEF LoginInOnePlace, LoginType
    <2> QED
        BY <1>1, <2>4, <2>5, <2>6, <2>9
<1> QED
    BY <1>2, <1>3 DEF Callback, Waits

LEMMA SealedKeeps ==
    ASSUME OidcInv, NEW q \in Visits, Sealed(q)
    PROVE  OidcInv' /\ UNCHANGED session
<1> USE DEF OidcInv
<1> DEFINE s == visit[q].session
<1>1. /\ UNCHANGED <<oidcNow, logins, pending, session, ended, refreshInflight>>
      /\ stored' = stored \cup {s}
      /\ visit' = [visit EXCEPT ![q] = Idle]
      /\ visit[q].at = "seal"
    BY DEF Sealed, Resumes, Answers, loginVars
<1>2. s \in MadeSessions /\ s \notin Issued
    BY <1>1 DEF SealedAlone
<1>3. MadeSessions' = MadeSessions /\ Issued' = Issued \cup {s}
    BY <1>1 DEF MadeSessions, Made, Issued
<1>4. /\ DOMAIN visit' = Visits
      /\ \A p \in Visits : (p # q => visit'[p] = visit[p]) /\ visit'[q].at = "idle"
    BY <1>1 DEF VisitType, Idle
<1>5. \A p \in Visits : visit[p].at = "seal" /\ p # q => visit[p].session # s
    BY <1>1 DEF SealedAlone
<1> HIDE DEF s
<1>6. SessionType' /\ MadeInOrder' /\ LoginUsedOnce' /\ LoginType' /\ UsedIsTaken'
    BY <1>1, <1>2, <1>3 DEF SessionType, MadeInOrder, LoginUsedOnce, LoginType, UsedIsTaken, Made
<1>7. EndedStaysEnded'
    BY <1>1, <1>2 DEF EndedStaysEnded, Issued
<1>8. VisitType' /\ SealedAlone' /\ LoginInOnePlace'
    BY <1>1, <1>3, <1>4, <1>5 DEF VisitType, SealedAlone, LoginInOnePlace
<1> QED
    BY <1>1, <1>6, <1>7, <1>8

\* No object that was made changes its user.
UsersKept == \A s \in Sessions : Made(s) => Made(s)' /\ session'[s].subject = session[s].subject

\* The next session id is new: ids are drawn in order.
LEMMA FreshSession ==
    ASSUME OidcInv, NEW s \in Sessions, s = Cardinality({r \in Sessions : session[r] # NoSession}) + 1
    PROVE  \E n \in Nat : MadeSessions = 1..n /\ s = n + 1 /\ s <= MaxSessions
<1>1. PICK n \in Nat : n <= MaxSessions /\ MadeSessions = 1..n
    BY DEF OidcInv, MadeInOrder
<1>2. Cardinality(1..n) = n
    BY <1>1, FS_Interval
<1>3. {r \in Sessions : session[r] # NoSession} = 1..n
    BY <1>1 DEF MadeSessions, Made
<1>4. s = n + 1
    BY <1>2, <1>3
<1>5. s <= MaxSessions
    BY OidcAssumption DEF Sessions
<1> QED
    BY <1>1, <1>4, <1>5

LEMMA ExchangedKeeps ==
    ASSUME OidcInv, NEW q \in Visits, Exchanged(q)
    PROVE  OidcInv' /\ UsersKept
<1> USE OidcAssumption DEF OidcInv
<1>1. PICK s \in Sessions, hasToken \in BOOLEAN :
          /\ s = Cardinality({r \in Sessions : session[r] # NoSession}) + 1
          /\ LET renewable == oidcConfig.enableRefresh /\ hasToken IN
             /\ session' = [session EXCEPT ![s] = NewSession(q, s, renewable)]
             /\ IF renewable
                THEN Waits(q, [at |-> "seal", session |-> s]) /\ UNCHANGED stored
                ELSE Answers(q) /\ stored' = stored \cup {s}
    BY DEF Exchanged
<1> DEFINE new == session'[s]
<1>2. PICK n \in Nat : MadeSessions = 1..n /\ s = n + 1 /\ s <= MaxSessions
    BY <1>1, FreshSession
<1>3. s \notin MadeSessions /\ s \notin Issued
    BY <1>2 DEF SessionType
<1>4. /\ UNCHANGED <<oidcNow, logins, pending, ended, refreshInflight>>
      /\ visit[q].at = "exchange"
    BY DEF Exchanged, Resumes, loginVars
<1>5. /\ visit[q].login \in 1..logins /\ visit[q].login \in Logins /\ visit[q].subject \in Subjects
    BY <1>4 DEF VisitType, LoginType, Logins
<1>6. \A r \in BOOLEAN : NewSession(q, s, r) \in SessionObject /\ NewSession(q, s, r).login = visit[q].login
    BY <1>5 DEF NewSession, SessionObject, SessionType
<1>7. /\ new \in SessionObject /\ new.login = visit[q].login
      /\ \A r \in Sessions : r # s => session'[r] = session[r]
      /\ session' \in [Sessions -> SessionObject \cup {NoSession}]
    BY <1>1, <1>6 DEF SessionType
<1>8. new # NoSession
    BY <1>7 DEF SessionObject, NoSession
<1>9. MadeSessions' = MadeSessions \cup {s}
    BY <1>7, <1>8 DEF MadeSessions, Made
<1>10. MadeInOrder'
    <2>1. MadeSessions' = 1..(n + 1)
        BY <1>2, <1>9
    <2> QED
        BY <1>2, <2>1 DEF MadeInOrder
<1>11. /\ DOMAIN visit' = Visits
       /\ \A p \in Visits : p # q => visit'[p] = visit[p]
       /\ \/ visit'[q].at = "seal" /\ visit'[q].session = s /\ stored' = stored
          \/ visit'[q].at = "idle" /\ stored' = stored \cup {s}
    BY <1>1 DEF Waits, Answers, Idle, VisitType
<1> HIDE DEF new
<1>12. Issued' = Issued \/ Issued' = Issued \cup {s}
    BY <1>4, <1>11 DEF Issued
<1>13. \A r \in MadeSessions : r \in Sessions /\ r # s /\ session'[r] = session[r]
    BY <1>3, <1>7 DEF MadeSessions
<1>14. SessionType'
    <2>1. Issued' \subseteq MadeSessions'
        BY <1>9, <1>12 DEF SessionType
    <2>2. \A r \in Sessions : refreshInflight[r] # NoRefresh =>
              r \in Issued' /\ session'[r].subject = session[r].subject
        BY <1>12, <1>13 DEF SessionType
    <2> QED
        BY <1>4, <1>7, <2>1, <2>2 DEF SessionType
<1>15. EndedStaysEnded'
    BY <1>3, <1>4, <1>11 DEF EndedStaysEnded, Issued
<1>16. VisitType'
    BY <1>4, <1>11, <1>12 DEF VisitType
<1>17. SealedAlone'
    <2>1. \A p \in Visits : p # q /\ visit'[p].at = "seal" =>
              visit'[p] = visit[p] /\ visit[p].session # s /\ visit[p].session \in MadeSessions' \ Issued'
        BY <1>3, <1>9, <1>11, <1>12 DEF SealedAlone
    <2>2. visit'[q].at = "seal" => visit'[q].session = s /\ s \in MadeSessions' \ Issued'
        BY <1>3, <1>4, <1>9, <1>11 DEF Issued
    <2> QED
        BY <1>11, <2>1, <2>2 DEF SealedAlone
<1>18. \A r \in MadeSessions' :
          \/ r = s /\ session'[r].login = visit[q].login
          \/ r \in MadeSessions /\ session'[r].login = session[r].login /\ session[r].login # visit[q].login
    BY <1>4, <1>7, <1>9, <1>13 DEF LoginInOnePlace, new
<1>19. LoginType' /\ UsedIsTaken'
    BY <1>4, <1>5, <1>18 DEF LoginType, UsedIsTaken, LoginInOnePlace
<1>20. LoginUsedOnce'
    <2>1. ASSUME NEW a \in MadeSessions', NEW b \in MadeSessions', session'[a].login = session'[b].login
          PROVE  a = b
        BY <1>18, <2>1 DEF LoginUsedOnce, MadeSessions
    <2> QED
        BY <2>1 DEF LoginUsedOnce, MadeSessions
<1>21. LoginInOnePlace'
    <2>1. \A p \in Visits : visit'[p].at = "exchange" =>
              p # q /\ visit'[p] = visit[p] /\ visit[p].login # visit[q].login
        BY <1>4, <1>11 DEF LoginInOnePlace
    <2> QED
        BY <1>4, <1>18, <2>1 DEF LoginInOnePlace
<1>22. UsersKept
    BY <1>9, <1>13 DEF UsersKept, MadeSessions
<1> QED
    BY <1>10, <1>14, <1>15, <1>16, <1>17, <1>19, <1>20, <1>21, <1>22

-----------------------------------------------------------------------------
LEMMA OidcStep == ASSUME OidcInv, [OidcNext]_oidcVars PROVE OidcInv' /\ UsersKept
<1>1. ASSUME QuietMove PROVE OidcInv' /\ UsersKept
    BY <1>1, QuietKeeps DEF QuietMove, SameSessions, UsersKept
<1>2. ASSUME UNCHANGED session PROVE UsersKept
    BY <1>2 DEF UsersKept, Made
<1>3. ASSUME NEW q \in Visits, OidcHandler(q) PROVE OidcInv' /\ UsersKept
    <2>1. CASE Refused(q) \/ Login(q) \/ CallbackDenied(q) \/ LogoutFails(q)
        BY <1>1, <2>1, HandlerIsQuiet
    <2>2. CASE StorePending(q)
        BY <1>2, <2>2, StorePendingKeeps
    <2>3. ASSUME NEW l \in 1..logins, NEW st \in 1..logins, NEW c \in 1..logins, NEW u \in Subjects,
                 Callback(q, l, st, c, u)
          PROVE  OidcInv' /\ UsersKept
        BY <1>2, <2>3, CallbackKeeps
    <2>4. CASE Exchanged(q)
        BY <2>4, ExchangedKeeps
    <2>5. CASE Sealed(q)
        BY <1>2, <2>5, SealedKeeps
    <2>6. ASSUME NEW s \in stored \cup ended, Logout(q, s) PROVE OidcInv' /\ UsersKept
        BY <1>1, <2>6, LogoutIsQuiet DEF Issued
    <2>7. ASSUME NEW s \in stored \cup ended,
                 AuthenticateExpired(q, s) \/ AuthenticateRenewing(q, s) \/ Authenticate(q, s)
          PROVE  OidcInv' /\ UsersKept
        <3>1. s \in stored
            BY <2>7 DEF AuthenticateExpired, AuthenticateRenewing, Authenticate
        <3> QED
            BY <1>1, <2>7, <3>1, AuthenticateIsQuiet, RenewingIsQuiet
    <2>8. CASE LoggedOut(q)
        BY <1>1, <2>8, LoggedOutIsQuiet
    <2> QED
        BY <1>3, <2>1, <2>2, <2>3, <2>4, <2>5, <2>6, <2>7, <2>8 DEF OidcHandler
<1>4. ASSUME NEW s \in Sessions, OidcRefresh(s) PROVE OidcInv' /\ UsersKept
    BY <1>1, <1>4, RefreshEndsQuietly, RefreshedIsQuiet, RotatedIsQuiet DEF OidcRefresh
<1>5. CASE Discovered \/ DiscoveryFails \/ OidcTick
    BY <1>1, <1>5, TickIsQuiet
<1>6. CASE UNCHANGED oidcVars
    <2>1. UNCHANGED <<oidcNow, session, stored, ended, refreshInflight, pending, logins, visit>>
        BY <1>6 DEF oidcVars
    <2>2. QuietMove
        BY <2>1, SessionsAlone, IssuedAlone, LoginsAlone, RefreshesAlone, VisitsAlone
        DEF QuietMove, OidcInv, SessionType
    <2> QED
        BY <1>1, <2>2
<1> QED
    BY <1>3, <1>4, <1>5, <1>6 DEF OidcNext

LEMMA OidcInvHolds == OidcSpec => []OidcInv
<1>1. (\E c \in OidcConfigs : OidcInit(c)) => OidcInv
    BY OidcInit_Inv
<1>2. OidcInv /\ [OidcNext]_oidcVars => OidcInv'
    BY OidcStep
<1> QED
    BY <1>1, <1>2, PTL DEF OidcSpec

\* A session that was logged out or evicted is never in the store again,
\* whatever refreshes, logouts and requests overlap: the end of performRefresh
\* saves only what the store still maps, and a session on its way to the
\* store is known to nobody.
THEOREM LogoutIsFinal == OidcSpec => []EndedStaysEnded
<1>1. OidcInv => EndedStaysEnded
    BY DEF OidcInv
<1> QED
    BY <1>1, OidcInvHolds, PTL

\* A pending login opens at most one session, however many callbacks carry
\* its cookie: pendingStore.take reads and deletes in one turn.
THEOREM OneSessionPerLogin == OidcSpec => []LoginUsedOnce
<1>1. OidcInv => LoginUsedOnce
    BY DEF OidcInv
<1> QED
    BY <1>1, OidcInvHolds, PTL

\* No step, and no answer of the provider to a refresh, gives a session to
\* another user.
THEOREM UserIsPinned == OidcSpec => SubjectPinned
<1>1. OidcInv /\ [OidcNext]_oidcVars => [UsersKept]_oidcVars
    BY OidcStep
<1> QED
    BY <1>1, OidcInvHolds, PTL DEF OidcSpec, SubjectPinned, UsersKept

-----------------------------------------------------------------------------
(***************************************************************************)
(* The rate limiters.                                                      *)
(***************************************************************************)

\* Arithmetic of the buckets.
LEMMA BucketBounds ==
    ASSUME NEW t \in Nat, NEW w \in Nat \ {0}
    PROVE  /\ t \div w \in Nat /\ t \div w <= t
           /\ (t \div w) * w <= t /\ t < (t \div w) * w + w
<1>1. t \div w \in Nat
  OBVIOUS
<1>2. (t \div w) * w <= t
  OBVIOUS
<1>3. t < (t \div w) * w + w
  OBVIOUS
<1>4. t \div w <= t
  OBVIOUS
<1> QED
  BY <1>1, <1>2, <1>3, <1>4

\* A later bucket begins a window later.
LEMMA TimesGrows ==
    ASSUME NEW a \in Nat, NEW b \in Nat, NEW w \in Nat, a < b
    PROVE  a * w + w <= b * w
<1>1. PICK d \in Nat : b = a + 1 + d
  <2>1. b - a - 1 \in Nat /\ b = a + 1 + (b - a - 1)
    OBVIOUS
  <2> QED
    BY <2>1
<1>2. b * w = a * w + w + d * w
  BY <1>1
<1>3. d * w \in Nat /\ a * w \in Nat
  OBVIOUS
<1> QED
  BY <1>2, <1>3

\* Buckets follow the clock.
LEMMA BucketsGrow ==
    ASSUME NEW t \in Nat, NEW u \in Nat, NEW w \in Nat \ {0}, t <= u
    PROVE  t \div w <= u \div w
<1>1. PICK a \in Nat : a = t \div w /\ a * w <= t
  BY BucketBounds
<1>2. PICK b \in Nat : b = u \div w /\ u < b * w + w
  BY BucketBounds
<1>3. b < a => b * w + w <= a * w
  BY TimesGrows
<1>4. b * w \in Nat /\ a * w \in Nat
  OBVIOUS
<1> QED
  BY <1>1, <1>2, <1>3, <1>4

\* Two calls of one bucket are less than a window apart.
LEMMA SameBucketNear ==
    ASSUME NEW t \in Nat, NEW u \in Nat, NEW w \in Nat \ {0}, t \div w = u \div w
    PROVE  t < u + w /\ u < t + w
<1>1. PICK a \in Nat : a = t \div w /\ a * w <= t /\ t < a * w + w
  BY BucketBounds
<1>2. a * w <= u /\ u < a * w + w
  BY <1>1, BucketBounds
<1>3. a * w \in Nat
  OBVIOUS
<1> QED
  BY <1>1, <1>2, <1>3

-----------------------------------------------------------------------------
\* Counting calls

\* The calls of a history that fell into bucket b, and those within one window
\* of time r.
InBucket(a, b) == {i \in 1 .. Len(a) : Bucket(a[i]) = b}
Near(a, r) == {i \in 1 .. Len(a) : a[i] < r + limiter.window /\ r < a[i] + limiter.window}

\* The sets that are counted are finite.
LEMMA Countable ==
    ASSUME NEW a \in Seq(Nat), NEW T \in SUBSET (1 .. Len(a))
    PROVE  IsFiniteSet(T) /\ Cardinality(T) \in Nat
<1>1. Len(a) \in Nat
  OBVIOUS
<1>2. IsFiniteSet(1 .. Len(a))
  BY <1>1, FS_Interval
<1>3. IsFiniteSet(T)
  BY <1>2, FS_Subset
<1> QED
  BY <1>3, FS_CardinalityType

\* A call that is added can only add to a count ...
LEMMA NearGrows ==
    ASSUME NEW a \in Seq(Nat), NEW t \in Nat, NEW r
    PROVE  Cardinality(Near(a, r)) \in Nat /\ Cardinality(Near(Append(a, t), r)) \in Nat
           /\ Cardinality(Near(a, r)) <= Cardinality(Near(Append(a, t), r))
<1>1. PICK b : b = Append(a, t)
  OBVIOUS
<1>2. b \in Seq(Nat) /\ Len(b) = Len(a) + 1 /\ Len(a) \in Nat /\ \A i \in 1 .. Len(a) : b[i] = a[i]
  BY <1>1
<1>3. Near(a, r) \subseteq Near(b, r)
  BY <1>2 DEF Near
<1>4. Near(a, r) \in SUBSET (1 .. Len(a)) /\ Near(b, r) \in SUBSET (1 .. Len(b))
  BY DEF Near
<1>5. IsFiniteSet(Near(b, r))
  BY <1>2, <1>4, Countable
<1>6. Cardinality(Near(a, r)) <= Cardinality(Near(b, r))
  BY <1>3, <1>5, FS_Subset
<1> QED
  BY <1>1, <1>2, <1>4, <1>6, Countable

\* ... and adds one to the count of its bucket.
LEMMA BucketGrows ==
    ASSUME NEW a \in Seq(Nat), NEW t \in Nat, NEW x
    PROVE  /\ Cardinality(InBucket(a, x)) \in Nat
           /\ Cardinality(InBucket(Append(a, t), x)) =
                  IF Bucket(t) = x THEN Cardinality(InBucket(a, x)) + 1 ELSE Cardinality(InBucket(a, x))
<1>1. PICK b : b = Append(a, t)
  OBVIOUS
<1>2. /\ b \in Seq(Nat) /\ Len(b) = Len(a) + 1 /\ Len(a) \in Nat
      /\ b[Len(a) + 1] = t /\ \A i \in 1 .. Len(a) : b[i] = a[i]
  BY <1>1
<1>3. IsFiniteSet(InBucket(a, x)) /\ Cardinality(InBucket(a, x)) \in Nat
  BY Countable DEF InBucket
<1>4. CASE Bucket(t) = x
  <2>1. InBucket(b, x) = InBucket(a, x) \cup {Len(a) + 1}
    BY <1>2, <1>4 DEF InBucket
  <2>2. Len(a) + 1 \notin InBucket(a, x)
    BY <1>2 DEF InBucket
  <2> QED
    BY <1>1, <1>3, <1>4, <2>1, <2>2, FS_AddElement
<1>5. CASE Bucket(t) # x
  <2>1. InBucket(b, x) = InBucket(a, x)
    BY <1>2, <1>5 DEF InBucket
  <2> QED
    BY <1>1, <1>3, <1>5, <2>1
<1> QED
  BY <1>4, <1>5

\* The calls of a bucket are near to every time in it.
LEMMA BucketIsNear ==
    ASSUME NEW a \in Seq(Nat), NEW r \in Nat, limiter.window \in Nat \ {0}
    PROVE  /\ Cardinality(InBucket(a, Bucket(r))) \in Nat /\ Cardinality(Near(a, r)) \in Nat
           /\ Cardinality(InBucket(a, Bucket(r))) <= Cardinality(Near(a, r))
<1>1. \A i \in 1 .. Len(a) : a[i] \in Nat
  OBVIOUS
<1>2. InBucket(a, Bucket(r)) \subseteq Near(a, r)
  BY <1>1, SameBucketNear DEF InBucket, Near, Bucket
<1>3. Near(a, r) \in SUBSET (1 .. Len(a)) /\ InBucket(a, Bucket(r)) \in SUBSET (1 .. Len(a))
  BY DEF Near, InBucket
<1>4. IsFiniteSet(Near(a, r))
  BY <1>3, Countable
<1> QED
  BY <1>2, <1>3, <1>4, Countable, FS_Subset

-----------------------------------------------------------------------------
\* The in-memory limiters: a key's slot and its history

\* Calls are noted in the order of the clock.
InOrder(a, now) ==
    /\ \A i \in 1 .. Len(a) : a[i] <= now
    /\ \A i, j \in 1 .. Len(a) : i <= j => a[i] <= a[j]

\* The slot accounts for the last calls of the history, those of the window it
\* stands for; and unless the window of a key was dropped while it was live,
\* what is more than a limit before them is at least a window before them.
Accounts(slot, a, now, live) ==
    /\ slot.count <= limiter.limit /\ slot.count <= Len(a) /\ slot.start <= now
    /\ \A i \in 1 .. Len(a) : i + slot.count > Len(a) => slot.start <= a[i]
    /\ \A i \in 1 .. Len(a) : i + slot.count <= Len(a) /\ slot.count > 0 => a[i] <= slot.start
    /\ live => \A i \in 1 .. Len(a) :
           /\ slot.count > 0 /\ i + slot.count + limiter.limit <= Len(a) => a[i] + limiter.window <= slot.start
           /\ slot.count = 0 /\ i + limiter.limit <= Len(a) => a[i] + limiter.window <= now

\* No more than twice the limit in one window.
Paced(a) ==
    \A i \in 1 .. Len(a) :
        i + 2 * limiter.limit <= Len(a) => a[i + 2 * limiter.limit] - a[i] >= limiter.window

Slots == [start : Nat, count : Nat]
LimiterNumbers == limiter.limit \in Nat \ {0} /\ limiter.window \in Nat \ {0} /\ limiterNow \in Nat

\* Time alone changes nothing.
LEMMA AccountsLater ==
    ASSUME limiter.limit \in Nat, limiter.window \in Nat, NEW a \in Seq(Nat), NEW slot \in Slots, NEW live,
           NEW n \in Nat, NEW m \in Nat, n <= m, Accounts(slot, a, n, live)
    PROVE  Accounts(slot, a, m, live)
<1>1. slot.start \in Nat /\ slot.count \in Nat /\ \A i \in 1 .. Len(a) : a[i] \in Nat
  BY DEF Slots
<1>2. slot.start <= m
  BY <1>1 DEF Accounts
<1>3. ASSUME live, NEW i \in 1 .. Len(a), slot.count = 0, i + limiter.limit <= Len(a)
      PROVE  a[i] + limiter.window <= m
  <2>1. a[i] + limiter.window <= n /\ a[i] + limiter.window \in Nat
    BY <1>1, <1>3 DEF Accounts
  <2> QED
    BY <2>1
<1> QED
  BY <1>2, <1>3 DEF Accounts

\* A window that is over can be forgotten.
LEMMA ForgetOver ==
    ASSUME LimiterNumbers, NEW a \in Seq(Nat), NEW slot \in Slots, NEW live, NEW still,
           Accounts(slot, a, limiterNow, live), still => live /\ Elapsed(slot)
    PROVE  Accounts(NoSlot, a, limiterNow, still)
<1>1. /\ NoSlot.count = 0 /\ NoSlot.start = 0 /\ Len(a) \in Nat
      /\ \A i \in 1 .. Len(a) : a[i] \in Nat /\ i \in Nat /\ i <= Len(a)
      /\ slot.count \in Nat /\ slot.start \in Nat
  BY DEF NoSlot, Slots
<1>2. ASSUME still, NEW i \in 1 .. Len(a), i + limiter.limit <= Len(a)
      PROVE  a[i] + limiter.window <= limiterNow
  <2>1. live /\ (slot.count = 0 \/ limiterNow - slot.start >= limiter.window)
    BY <1>2 DEF Elapsed
  <2>2. CASE slot.count = 0
    BY <1>2, <2>1, <2>2 DEF Accounts
  <2>3. CASE slot.count > 0 /\ limiterNow - slot.start >= limiter.window
    <3>1. i + slot.count <= Len(a)
      BY <1>1, <1>2 DEF Accounts, LimiterNumbers
    <3>2. a[i] <= slot.start
      BY <2>3, <3>1 DEF Accounts
    <3> QED
      BY <1>1, <2>3, <3>2 DEF LimiterNumbers
  <2> QED
    BY <1>1, <2>1, <2>2, <2>3
<1> QED
  BY <1>1, <1>2 DEF Accounts, LimiterNumbers

\* The first call of a window.
LEMMA OpenWindow ==
    ASSUME LimiterNumbers, NEW a \in Seq(Nat), NEW slot \in Slots, NEW live, InOrder(a, limiterNow),
           Accounts(slot, a, limiterNow, live), Elapsed(slot), live => Paced(a),
           NEW new, new = [start |-> limiterNow, count |-> 1], NEW b, b = Append(a, limiterNow)
    PROVE  /\ new \in Slots /\ b \in Seq(Nat) /\ InOrder(b, limiterNow)
           /\ Accounts(new, b, limiterNow, live) /\ (live => Paced(b))
<1>1. /\ b \in Seq(Nat) /\ Len(b) = Len(a) + 1 /\ Len(a) \in Nat /\ limiterNow \in Nat
      /\ b[Len(a) + 1] = limiterNow /\ \A i \in 1 .. Len(a) : b[i] = a[i] /\ a[i] \in Nat
      /\ limiter.limit \in Nat \ {0} /\ limiter.window \in Nat \ {0}
  BY DEF LimiterNumbers
<1>2. new \in Slots /\ new.start = limiterNow /\ new.count = 1
  BY <1>1 DEF Slots
<1>3. \A i \in 1 .. Len(b) : i \in Nat /\ (i \in 1 .. Len(a) \/ i = Len(a) + 1)
  BY <1>1
<1>4. InOrder(b, limiterNow)
  BY <1>1, <1>3 DEF InOrder
<1>5. ASSUME live, NEW i \in 1 .. Len(a), i + limiter.limit <= Len(a)
      PROVE  a[i] + limiter.window <= limiterNow
  <2>1. Accounts(NoSlot, a, limiterNow, live)
    BY ForgetOver
  <2> QED
    BY <1>5, <2>1 DEF Accounts, NoSlot
<1>6. Accounts(new, b, limiterNow, live)
  <2>1. ASSUME NEW i \in 1 .. Len(b), i + 1 > Len(b) PROVE limiterNow <= b[i]
    BY <1>1, <1>3, <2>1
  <2>2. ASSUME NEW i \in 1 .. Len(b), i + 1 <= Len(b) PROVE b[i] <= limiterNow
    BY <1>4 DEF InOrder
  <2>3. ASSUME live, NEW i \in 1 .. Len(b), i + 1 + limiter.limit <= Len(b)
        PROVE  b[i] + limiter.window <= limiterNow
    BY <1>1, <1>3, <1>5, <2>3
  <2> QED
    BY <1>1, <1>2, <2>1, <2>2, <2>3 DEF Accounts
<1>7. ASSUME live, NEW i \in 1 .. Len(b), i + 2 * limiter.limit <= Len(b)
      PROVE  b[i + 2 * limiter.limit] - b[i] >= limiter.window
  <2>1. PICK j \in Nat : j = i + 2 * limiter.limit /\ i \in 1 .. Len(a) /\ j \in 1 .. Len(b)
    BY <1>1, <1>3, <1>7
  <2>2. CASE j = Len(a) + 1
    <3>1. a[i] + limiter.window <= limiterNow
      BY <1>1, <1>5, <1>7, <2>1, <2>2
    <3>2. b[i + 2 * limiter.limit] = limiterNow /\ b[i] = a[i] /\ a[i] \in Nat
      BY <1>1, <2>1, <2>2
    <3>3. PICK x \in Nat : x = a[i] /\ x + limiter.window <= limiterNow
      BY <3>1, <3>2
    <3>4. limiterNow - x >= limiter.window
      BY <1>1, <3>3
    <3> QED
      BY <3>2, <3>3, <3>4
  <2>3. CASE j # Len(a) + 1
    <3>1. j \in 1 .. Len(a) /\ j <= Len(a)
      BY <1>1, <1>3, <2>1, <2>3
    <3>2. a[j] - a[i] >= limiter.window
      BY <1>7, <2>1, <3>1 DEF Paced
    <3> QED
      BY <1>1, <2>1, <3>1, <3>2
  <2> QED
    BY <2>2, <2>3
<1> QED
  BY <1>1, <1>2, <1>4, <1>6, <1>7 DEF Paced

\* Another call of it, within the limit.
LEMMA WithinWindow ==
    ASSUME LimiterNumbers, NEW a \in Seq(Nat), NEW slot \in Slots, NEW live, InOrder(a, limiterNow),
           Accounts(slot, a, limiterNow, live), ~Elapsed(slot), slot.count < limiter.limit, live => Paced(a),
           NEW new, new = [start |-> slot.start, count |-> slot.count + 1], NEW b, b = Append(a, limiterNow)
    PROVE  /\ new \in Slots /\ b \in Seq(Nat) /\ InOrder(b, limiterNow)
           /\ Accounts(new, b, limiterNow, live) /\ (live => Paced(b))
<1>1. /\ b \in Seq(Nat) /\ Len(b) = Len(a) + 1 /\ Len(a) \in Nat /\ limiterNow \in Nat
      /\ b[Len(a) + 1] = limiterNow /\ \A i \in 1 .. Len(a) : b[i] = a[i] /\ a[i] \in Nat
      /\ limiter.limit \in Nat \ {0} /\ limiter.window \in Nat \ {0}
  BY DEF LimiterNumbers
<1>2. /\ new \in Slots /\ new.start = slot.start /\ new.count = slot.count + 1
      /\ slot.start \in Nat /\ slot.count \in Nat /\ slot.count # 0
  BY DEF Slots, Elapsed
<1>3. \A i \in 1 .. Len(b) : i \in Nat /\ (i \in 1 .. Len(a) \/ i = Len(a) + 1)
  BY <1>1
<1>4. InOrder(b, limiterNow)
  BY <1>1, <1>3 DEF InOrder
<1>5. PICK s \in Nat, c \in Nat : s = slot.start /\ c = slot.count /\ c # 0
  BY <1>2
<1>6. /\ c + 1 <= limiter.limit /\ c <= Len(a) /\ s <= limiterNow
      /\ \A i \in 1 .. Len(a) : i + c > Len(a) => s <= a[i]
      /\ \A i \in 1 .. Len(a) : i + c <= Len(a) => a[i] <= s
      /\ live => \A i \in 1 .. Len(a) : i + c + limiter.limit <= Len(a) => a[i] + limiter.window <= s
  BY <1>1, <1>5 DEF Accounts
<1>7. Accounts(new, b, limiterNow, live)
  <2>1. ASSUME NEW i \in 1 .. Len(b), i + (c + 1) > Len(b) PROVE s <= b[i]
    BY <1>1, <1>3, <1>6, <2>1
  <2>2. ASSUME NEW i \in 1 .. Len(b), i + (c + 1) <= Len(b) PROVE b[i] <= s
    <3>1. i \in 1 .. Len(a) /\ i + c <= Len(a)
      BY <1>1, <1>3, <1>5, <2>2
    <3> QED
      BY <1>1, <1>6, <3>1
  <2>3. ASSUME live, NEW i \in 1 .. Len(b), i + (c + 1) + limiter.limit <= Len(b)
        PROVE  b[i] + limiter.window <= s
    <3>1. PICK m \in Nat : m = limiter.limit /\ m # 0
      BY <1>1
    <3>2. i \in Nat /\ i + (c + 1) + m <= Len(a) + 1
      BY <1>1, <1>3, <2>3, <3>1
    <3>3. i + c + m <= Len(a) /\ i # Len(a) + 1
      BY <1>1, <3>1, <3>2
    <3>4. i \in 1 .. Len(a)
      BY <1>3, <3>3
    <3> QED
      BY <1>1, <1>6, <2>3, <3>1, <3>3, <3>4
  <2> QED
    BY <1>1, <1>2, <1>5, <1>6, <2>1, <2>2, <2>3 DEF Accounts
<1>8. ASSUME live, NEW i \in 1 .. Len(b), i + 2 * limiter.limit <= Len(b)
      PROVE  b[i + 2 * limiter.limit] - b[i] >= limiter.window
  <2>1. PICK j \in Nat : j = i + 2 * limiter.limit /\ i \in 1 .. Len(a) /\ j \in 1 .. Len(b)
    BY <1>1, <1>3, <1>8
  <2>2. CASE j = Len(a) + 1
    <3>1. i + c + limiter.limit <= Len(a)
      BY <1>1, <1>3, <1>6, <2>1, <2>2
    <3>2. a[i] + limiter.window <= s
      BY <1>6, <1>8, <2>1, <3>1
    <3>3. b[i + 2 * limiter.limit] = limiterNow /\ b[i] = a[i] /\ a[i] \in Nat
      BY <1>1, <2>1, <2>2
    <3>4. PICK x \in Nat : x = a[i] /\ x + limiter.window <= s
      BY <3>2, <3>3
    <3>5. limiterNow - x >= limiter.window
      BY <1>1, <1>6, <3>4
    <3> QED
      BY <3>3, <3>4, <3>5
  <2>3. CASE j # Len(a) + 1
    <3>1. j \in 1 .. Len(a) /\ j <= Len(a)
      BY <1>1, <1>3, <2>1, <2>3
    <3>2. a[j] - a[i] >= limiter.window
      BY <1>8, <2>1, <3>1 DEF Paced
    <3> QED
      BY <1>1, <2>1, <3>1, <3>2
  <2> QED
    BY <2>2, <2>3
<1> QED
  BY <1>1, <1>2, <1>4, <1>7, <1>8 DEF Paced

\* A refusal: the limit has been reached in a window that is not over.
LEMMA RefusedInWindow ==
    ASSUME LimiterNumbers, NEW a \in Seq(Nat), NEW slot \in Slots, NEW live, InOrder(a, limiterNow),
           Accounts(slot, a, limiterNow, live), ~Elapsed(slot), ~(slot.count < limiter.limit)
    PROVE  Cardinality(Near(a, limiterNow)) \in Nat /\ Cardinality(Near(a, limiterNow)) >= limiter.limit
<1>1. /\ Len(a) \in Nat /\ limiterNow \in Nat /\ \A i \in 1 .. Len(a) : a[i] \in Nat
      /\ limiter.limit \in Nat \ {0} /\ limiter.window \in Nat \ {0}
  BY DEF LimiterNumbers
<1>2. PICK s \in Nat, c \in Nat : s = slot.start /\ c = slot.count
  BY DEF Slots
<1>3. /\ c = limiter.limit /\ c <= Len(a) /\ s <= limiterNow /\ limiterNow < s + limiter.window
      /\ \A i \in 1 .. Len(a) : i + c > Len(a) => s <= a[i]
  BY <1>1, <1>2 DEF Accounts, Elapsed
<1>4. PICK m \in Nat : Len(a) = m + c
  <2>1. Len(a) - c \in Nat /\ Len(a) = (Len(a) - c) + c
    BY <1>1, <1>2, <1>3
  <2> QED
    BY <2>1
<1>5. ASSUME NEW i \in m + 1 .. Len(a) PROVE i \in Near(a, limiterNow)
  <2>1. i \in 1 .. Len(a) /\ i + c > Len(a)
    BY <1>1, <1>4
  <2>2. s <= a[i] /\ a[i] <= limiterNow /\ a[i] \in Nat
    BY <1>1, <1>3, <2>1 DEF InOrder
  <2>3. a[i] < limiterNow + limiter.window /\ limiterNow < a[i] + limiter.window
    BY <1>1, <1>2, <1>3, <2>2
  <2> QED
    BY <2>1, <2>3 DEF Near
<1>6. Cardinality(m + 1 .. Len(a)) = c
  <2>1. Cardinality(m + 1 .. Len(a)) = IF m + 1 > Len(a) THEN 0 ELSE Len(a) - (m + 1) + 1
    BY <1>1, <1>4, FS_Interval
  <2> QED
    BY <1>1, <1>3, <1>4, <2>1
<1>7. IsFiniteSet(Near(a, limiterNow)) /\ Cardinality(Near(a, limiterNow)) \in Nat
  BY Countable DEF Near
<1>8. m + 1 .. Len(a) \subseteq Near(a, limiterNow)
  BY <1>5
<1>9. Cardinality(m + 1 .. Len(a)) <= Cardinality(Near(a, limiterNow))
  BY <1>7, <1>8, FS_Subset
<1> QED
  BY <1>3, <1>6, <1>7, <1>9

-----------------------------------------------------------------------------
\* The invariant

LimiterTyped ==
    /\ limiter \in LimiterConfigs
    /\ limiterNow \in 0 .. MaxLimiterTime
    /\ windows \in [LimitKeys -> Slots]
    /\ counters \in [LimitKeys -> [0 .. MaxLimiterTime -> [count : Nat, expires : Nat]]]
    /\ sent \in SUBSET [key : LimitKeys, at : 0 .. MaxLimiterTime, id : Nat, heard : BOOLEAN]
    /\ sent # {} => limiter.kind = "redis"
    /\ hits \in Nat
    /\ chargedAt \in [LimitKeys -> Seq(Nat)]
    /\ refusedAt \in [LimitKeys -> SUBSET Nat]

\* The key's window was never dropped while it was live.
Live(k) == limiter.kind = "runtime" \/ k \notin evicted

InMemoryInv ==
    limiter.kind \in {"runtime", "local"} =>
        \A k \in LimitKeys :
            /\ InOrder(chargedAt[k], limiterNow)
            /\ Accounts(windows[k], chargedAt[k], limiterNow, Live(k))
            /\ Live(k) => Paced(chargedAt[k])

\* The calls charged to k in bucket b.
Charged(k, b) == Cardinality(InBucket(chargedAt[k], b))

\* The memory store: the slot counts the calls of the latest bucket.
StoreInv ==
    limiter.kind = "memory" =>
        \A k \in LimitKeys :
            /\ windows[k].count > 0 =>
                   /\ windows[k].start <= Bucket(limiterNow)
                   /\ Charged(k, windows[k].start) =
                          IF windows[k].count <= limiter.limit THEN windows[k].count ELSE limiter.limit
            /\ \A b \in Nat : windows[k].count = 0 \/ b > windows[k].start => Charged(k, b) = 0
            /\ \A b \in Nat : Charged(k, b) <= limiter.limit

\* Redis: the counter of a bucket counts its calls, and if no hit of the key
\* was counted outside its bucket it lives as long as the bucket.
CountersInv ==
    limiter.kind = "redis" =>
        \A k \in LimitKeys : \A b \in 0 .. MaxLimiterTime :
            /\ Charged(k, b) >= counters[k][b].count \/ Charged(k, b) >= limiter.limit
            /\ k \notin strayHits =>
                   /\ Charged(k, b) <= limiter.limit /\ Charged(k, b) <= counters[k][b].count
                   /\ counters[k][b].count > 0 => counters[k][b].expires >= b * limiter.window + limiter.window

\* Whoever was refused was charged the limit within a window of it.
RefusalsEarned ==
    \A k \in LimitKeys : \A r \in refusedAt[k] :
        Cardinality(Near(chargedAt[k], r)) >= limiter.limit

LimiterInv == LimiterTyped /\ InMemoryInv /\ StoreInv /\ CountersInv /\ RefusalsEarned

\* The configuration's numbers, and the types key by key.
LEMMA NumbersTyped ==
    ASSUME LimiterTyped
    PROVE  /\ LimiterNumbers /\ limiter.limit \in Nat \ {0} /\ limiter.window \in Nat \ {0} /\ limiterNow \in Nat
           /\ limiter.kind \in {"runtime", "local", "memory", "redis"}
           /\ \A k \in LimitKeys : windows[k] \in Slots /\ chargedAt[k] \in Seq(Nat) /\ refusedAt[k] \in SUBSET Nat
<1>1. LimiterConfig(limiter)
  BY LimiterAssumption DEF LimiterTyped
<1>2. limiterNow \in Nat
  BY LimiterAssumption DEF LimiterTyped
<1> QED
  BY <1>1, <1>2 DEF LimiterTyped, LimiterConfig, LimiterNumbers

\* The invariant gives the budget.
LEMMA BudgetFromInv ==
    ASSUME LimiterInv
    PROVE  BudgetKept
<1>1. LimiterTyped /\ limiter.kind \in {"runtime", "local", "memory", "redis"}
  BY NumbersTyped DEF LimiterInv
<1>2. ASSUME NEW k \in LimitKeys, limiter.kind \in {"runtime", "local"}, limiter.kind = "runtime" \/ k \notin evicted,
             NEW i \in 1 .. Len(chargedAt[k]), i + 2 * limiter.limit <= Len(chargedAt[k])
      PROVE  chargedAt[k][i + 2 * limiter.limit] - chargedAt[k][i] >= limiter.window
  BY <1>2 DEF LimiterInv, InMemoryInv, Live, Paced
<1>3. ASSUME NEW k \in LimitKeys, limiter.kind \notin {"runtime", "local"}, k \notin strayHits,
             NEW b \in 0 .. MaxLimiterTime
      PROVE  CountCharged(k, LAMBDA t : Bucket(t) = b) <= limiter.limit
  <2>1. Charged(k, b) <= limiter.limit
    <3>1. CASE limiter.kind = "memory"
      <4>1. b \in Nat
        BY LimiterAssumption
      <4> QED
        BY <3>1, <4>1 DEF LimiterInv, StoreInv
    <3>2. CASE limiter.kind = "redis"
      BY <1>3, <3>2 DEF LimiterInv, CountersInv
    <3> QED
      BY <1>1, <1>3, <3>1, <3>2
  <2> QED
    BY <2>1 DEF CountCharged, Charged, InBucket
<1>4. ASSUME NEW k \in LimitKeys, NEW r \in refusedAt[k]
      PROVE  CountCharged(k, LAMBDA t : t < r + limiter.window /\ r < t + limiter.window) >= limiter.limit
  BY DEF LimiterInv, RefusalsEarned, CountCharged, Near
<1> QED
  BY <1>2, <1>3, <1>4 DEF BudgetKept

\* The invariant holds at first.
LEMMA LimiterInitially ==
    ASSUME NEW c \in LimiterConfigs, LimiterInit(c)
    PROVE  LimiterInv
<1>1. /\ limiter = c /\ limiterNow = 0 /\ windows = [k \in LimitKeys |-> NoSlot]
      /\ counters = [k \in LimitKeys |-> [b \in 0..MaxLimiterTime |-> NoCounter]]
      /\ sent = {} /\ hits = 0 /\ chargedAt = [k \in LimitKeys |-> <<>>]
      /\ refusedAt = [k \in LimitKeys |-> {}]
  BY DEF LimiterInit
<1>2. LimiterTyped
  BY <1>1, LimiterAssumption DEF LimiterTyped, Slots, NoSlot, NoCounter
<1>3. /\ LimiterNumbers /\ limiter.limit \in Nat \ {0} /\ limiter.window \in Nat \ {0}
  BY <1>2, NumbersTyped
<1>4. \A k \in LimitKeys : /\ chargedAt[k] = <<>> /\ Len(chargedAt[k]) = 0 /\ 1 .. Len(chargedAt[k]) = {}
                           /\ windows[k].count = 0 /\ windows[k].start = 0
  BY <1>1 DEF NoSlot
<1>5. InMemoryInv
  BY <1>1, <1>3, <1>4 DEF InMemoryInv, InOrder, Accounts, Paced
<1>6. \A k \in LimitKeys : \A b : Charged(k, b) = 0
  <2>1. \A k \in LimitKeys : \A b : InBucket(chargedAt[k], b) = {}
    BY <1>4 DEF InBucket
  <2> QED
    BY <2>1, FS_EmptySet DEF Charged
<1>7. StoreInv
  BY <1>3, <1>4, <1>6 DEF StoreInv
<1>8. CountersInv
  <2>1. \A k \in LimitKeys : \A b \in 0 .. MaxLimiterTime : counters[k][b].count = 0
    BY <1>1 DEF NoCounter
  <2> QED
    BY <1>3, <1>6, <2>1 DEF CountersInv
<1>9. RefusalsEarned
  BY <1>1 DEF RefusalsEarned
<1> QED
  BY <1>2, <1>5, <1>7, <1>8, <1>9 DEF LimiterInv

-----------------------------------------------------------------------------
\* Its steps

\* What a verdict notes.
LEMMA VerdictNotes ==
    ASSUME LimiterTyped, RefusalsEarned, NEW k \in LimitKeys, NEW t \in Nat, NEW ok \in BOOLEAN,
           NEW heard \in BOOLEAN, Verdict(k, t, ok, heard), limiter' = limiter,
           ok \/ Cardinality(Near(chargedAt[k], t)) >= limiter.limit
    PROVE  /\ chargedAt' \in [LimitKeys -> Seq(Nat)] /\ refusedAt' \in [LimitKeys -> SUBSET Nat]
           /\ \A x \in LimitKeys : chargedAt'[x] = IF ok /\ x = k THEN Append(chargedAt[x], t) ELSE chargedAt[x]
           /\ RefusalsEarned'
<1>1. chargedAt \in [LimitKeys -> Seq(Nat)] /\ refusedAt \in [LimitKeys -> SUBSET Nat]
  BY DEF LimiterTyped
<1>2. \A x \in LimitKeys : chargedAt[x] \in Seq(Nat) /\ Append(chargedAt[x], t) \in Seq(Nat)
  BY <1>1
<1>3. chargedAt' \in [LimitKeys -> Seq(Nat)]
  BY <1>1, <1>2 DEF Verdict
<1>4. \A x \in LimitKeys : chargedAt'[x] = IF ok /\ x = k THEN Append(chargedAt[x], t) ELSE chargedAt[x]
  BY <1>1 DEF Verdict
<1>5. refusedAt' \in [LimitKeys -> SUBSET Nat]
  BY <1>1 DEF Verdict
<1>6. \A x \in LimitKeys : refusedAt'[x] = IF ~ok /\ heard /\ x = k THEN refusedAt[x] \cup {t} ELSE refusedAt[x]
  BY <1>1 DEF Verdict
<1>7. ASSUME NEW x \in LimitKeys, NEW r \in refusedAt'[x]
      PROVE  Cardinality(Near(chargedAt'[x], r)) >= limiter.limit
  <2>1. limiter.limit \in Nat
    BY NumbersTyped
  <2>2. /\ Cardinality(Near(chargedAt[x], r)) \in Nat
        /\ Cardinality(Near(Append(chargedAt[x], t), r)) \in Nat
        /\ Cardinality(Near(chargedAt[x], r)) <= Cardinality(Near(Append(chargedAt[x], t), r))
    BY <1>2, NearGrows
  <2>3. Cardinality(Near(chargedAt[x], r)) >= limiter.limit
    BY <1>6, <1>7 DEF RefusalsEarned
  <2>4. CASE ok /\ x = k
    BY <1>4, <2>1, <2>2, <2>3, <2>4
  <2>5. CASE ~(ok /\ x = k)
    BY <1>4, <2>3, <2>5
  <2> QED
    BY <2>4, <2>5
<1>8. RefusalsEarned'
  BY <1>7 DEF RefusalsEarned, Near
<1> QED
  BY <1>3, <1>4, <1>5, <1>8

\* The clock.
LEMMA TickKeeps ==
    ASSUME LimiterInv, LimiterTick
    PROVE  LimiterInv'
<1>1. /\ limiterNow' = limiterNow + 1 /\ limiterNow < MaxLimiterTime
      /\ UNCHANGED <<limiter, windows, inserted, counters, sent, hits, chargedAt, refusedAt, evicted, strayHits>>
  BY DEF LimiterTick
<1>2. /\ limiterNow \in Nat /\ LimiterTyped /\ limiter.limit \in Nat \ {0} /\ limiter.window \in Nat \ {0}
      /\ \A k \in LimitKeys : windows[k] \in Slots /\ chargedAt[k] \in Seq(Nat)
  BY NumbersTyped DEF LimiterInv
<1>3. LimiterTyped'
  <2>1. limiterNow' \in 0 .. MaxLimiterTime
    BY <1>1, <1>2, LimiterAssumption
  <2> QED
    BY <1>1, <1>2, <2>1 DEF LimiterTyped
<1>4. ASSUME NEW k \in LimitKeys, limiter.kind \in {"runtime", "local"}
      PROVE  /\ InOrder(chargedAt[k], limiterNow') /\ Accounts(windows[k], chargedAt[k], limiterNow', Live(k))
             /\ Live(k) => Paced(chargedAt[k])
  <2>1. /\ InOrder(chargedAt[k], limiterNow) /\ Accounts(windows[k], chargedAt[k], limiterNow, Live(k))
        /\ Live(k) => Paced(chargedAt[k])
    BY <1>4 DEF LimiterInv, InMemoryInv
  <2>2. /\ \A i \in 1 .. Len(chargedAt[k]) : chargedAt[k][i] \in Nat
        /\ windows[k].start \in Nat /\ windows[k].count \in Nat
    BY <1>2 DEF Slots
  <2>3. InOrder(chargedAt[k], limiterNow')
    BY <1>1, <1>2, <2>1, <2>2 DEF InOrder
  <2>4. Accounts(windows[k], chargedAt[k], limiterNow', Live(k))
    <3>1. PICK m \in Nat : m = limiterNow' /\ limiterNow <= m
      BY <1>1, <1>2
    <3>2. Accounts(windows[k], chargedAt[k], m, Live(k))
      BY <1>2, <2>1, <3>1, AccountsLater
    <3> QED
      BY <3>1, <3>2
  <2> QED
    BY <2>1, <2>3, <2>4
<1>5. InMemoryInv'
  BY <1>1, <1>4 DEF InMemoryInv, InOrder, Accounts, Paced, Live
<1>6. StoreInv'
  <2>1. ASSUME NEW k \in LimitKeys, limiter.kind = "memory", windows[k].count > 0
        PROVE  windows[k].start <= Bucket(limiterNow')
    <3>1. windows[k].start <= Bucket(limiterNow) /\ windows[k].start \in Nat
      BY <1>2, <2>1 DEF LimiterInv, StoreInv, Slots
    <3>2. PICK m \in Nat : m = limiterNow' /\ limiterNow <= m
      BY <1>1, <1>2
    <3>3. Bucket(limiterNow) \in Nat /\ Bucket(m) \in Nat /\ Bucket(limiterNow) <= Bucket(m)
      BY <1>2, <3>2, BucketBounds, BucketsGrow DEF Bucket
    <3>4. windows[k].start <= Bucket(m)
      BY <3>1, <3>3
    <3> QED
      BY <3>2, <3>4
  <2> QED
    BY <1>1, <2>1 DEF LimiterInv, StoreInv, Charged, InBucket, Bucket
<1>7. CountersInv' /\ RefusalsEarned'
  BY <1>1 DEF LimiterInv, CountersInv, Charged, InBucket, Bucket, RefusalsEarned, Near
<1> QED
  BY <1>3, <1>5, <1>6, <1>7 DEF LimiterInv

\* A call of an in-memory limiter.
LEMMA InMemoryKeeps ==
    ASSUME LimiterInv, NEW k \in LimitKeys, AllowInMemory(k)
    PROVE  LimiterInv'
<1> DEFINE gone == Dropped(k)
           kept == [x \in LimitKeys |-> IF x \in gone THEN NoSlot ELSE windows[x]]
           ok == Elapsed(kept[k]) \/ kept[k].count < limiter.limit
           still(x) == limiter.kind = "runtime" \/ x \notin evicted'
<1>1. /\ limiter.kind \in {"runtime", "local"} /\ hits' = hits + 1
      /\ UNCHANGED <<limiter, limiterNow, counters, sent, strayHits>>
      /\ Verdict(k, limiterNow, ok, TRUE)
      /\ evicted' = evicted \cup {x \in gone : ~Elapsed(windows[x])}
      /\ windows' = [kept EXCEPT ![k] =
             IF Elapsed(kept[k]) THEN [start |-> limiterNow, count |-> 1]
             ELSE [start |-> kept[k].start, count |-> IF ok THEN kept[k].count + 1 ELSE kept[k].count]]
  BY DEF AllowInMemory, AllowCalled
<1>2. /\ LimiterTyped /\ LimiterNumbers /\ limiterNow \in Nat /\ limiter.limit \in Nat \ {0}
      /\ \A x \in LimitKeys : windows[x] \in Slots /\ chargedAt[x] \in Seq(Nat)
  BY NumbersTyped DEF LimiterInv
<1>3. ASSUME NEW x \in LimitKeys
      PROVE  /\ kept[x] \in Slots /\ Accounts(kept[x], chargedAt[x], limiterNow, still(x))
             /\ InOrder(chargedAt[x], limiterNow) /\ (still(x) => Paced(chargedAt[x]))
  <2>1. /\ Accounts(windows[x], chargedAt[x], limiterNow, Live(x)) /\ InOrder(chargedAt[x], limiterNow)
        /\ Live(x) => Paced(chargedAt[x])
    BY <1>1 DEF LimiterInv, InMemoryInv
  <2>2. still(x) => Live(x)
    BY <1>1 DEF Live
  <2>3. CASE x \in gone
    <3>1. still(x) => Elapsed(windows[x])
      <4>1. CASE limiter.kind = "runtime"
        BY <2>3, <4>1 DEF Dropped, SweepExpired
      <4>2. CASE x \notin evicted'
        BY <1>1, <2>3, <4>2
      <4> QED
        BY <4>1, <4>2
    <3>2. kept[x] = NoSlot
      BY <2>3
    <3> HIDE DEF still, kept, gone
    <3>3. Accounts(NoSlot, chargedAt[x], limiterNow, still(x))
      BY <1>2, <2>1, <2>2, <3>1, ForgetOver
    <3> QED
      BY <2>1, <2>2, <3>2, <3>3 DEF NoSlot, Slots
  <2>4. CASE x \notin gone
    <3>1. kept[x] = windows[x]
      BY <2>4
    <3> HIDE DEF still, kept, gone
    <3>2. Accounts(windows[x], chargedAt[x], limiterNow, still(x))
      BY <2>1, <2>2 DEF Accounts
    <3> QED
      BY <1>2, <2>1, <2>2, <3>1, <3>2
  <2> QED
    BY <2>3, <2>4
<1>4. ok \in BOOLEAN /\ (ok \/ (~Elapsed(kept[k]) /\ ~(kept[k].count < limiter.limit)))
  BY DEF Elapsed
<1>5. \A x \in LimitKeys : windows'[x] =
          IF x # k THEN kept[x]
          ELSE IF Elapsed(kept[k]) THEN [start |-> limiterNow, count |-> 1]
          ELSE [start |-> kept[k].start, count |-> IF ok THEN kept[k].count + 1 ELSE kept[k].count]
  <2>1. DOMAIN kept = LimitKeys
    OBVIOUS
  <2> HIDE DEF kept, gone, ok
  <2>2. PICK v : v = IF Elapsed(kept[k]) THEN [start |-> limiterNow, count |-> 1]
                     ELSE [start |-> kept[k].start, count |-> IF ok THEN kept[k].count + 1 ELSE kept[k].count]
    OBVIOUS
  <2>3. windows' = [kept EXCEPT ![k] = v]
    BY <1>1, <2>2
  <2> QED
    BY <2>1, <2>2, <2>3
<1>6. windows' = [x \in LimitKeys |-> windows'[x]]
  BY <1>1
<1>7. ok <=> Elapsed(kept[k]) \/ kept[k].count < limiter.limit
  OBVIOUS
<1> HIDE DEF gone, kept, ok
<1>8. ok \/ Cardinality(Near(chargedAt[k], limiterNow)) >= limiter.limit
  <2> HIDE DEF still
  <2> QED
    BY <1>2, <1>3, <1>4, RefusedInWindow
<1>9. /\ chargedAt' \in [LimitKeys -> Seq(Nat)] /\ refusedAt' \in [LimitKeys -> SUBSET Nat]
      /\ \A x \in LimitKeys : chargedAt'[x] = IF ok /\ x = k THEN Append(chargedAt[x], limiterNow) ELSE chargedAt[x]
      /\ RefusalsEarned'
  BY <1>1, <1>2, <1>4, <1>8, VerdictNotes DEF LimiterInv
<1>10. ASSUME NEW x \in LimitKeys
       PROVE  /\ windows'[x] \in Slots
              /\ InOrder(chargedAt'[x], limiterNow) /\ Accounts(windows'[x], chargedAt'[x], limiterNow, still(x))
              /\ (still(x) => Paced(chargedAt'[x]))
  <2> HIDE DEF still
  <2>1. CASE x # k
    BY <1>3, <1>5, <1>9, <2>1
  <2>2. CASE x = k /\ Elapsed(kept[k])
    <3>1. windows'[x] = [start |-> limiterNow, count |-> 1] /\ chargedAt'[x] = Append(chargedAt[x], limiterNow)
      BY <1>5, <1>7, <1>9, <2>2
    <3> QED
      BY <1>2, <1>3, <2>2, <3>1, OpenWindow
  <2>3. CASE x = k /\ ~Elapsed(kept[k]) /\ kept[k].count < limiter.limit
    <3>1. windows'[x] = [start |-> kept[x].start, count |-> kept[x].count + 1] /\ chargedAt'[x] = Append(chargedAt[x], limiterNow)
      BY <1>5, <1>7, <1>9, <2>3
    <3>2. ~Elapsed(kept[x]) /\ kept[x].count < limiter.limit
      BY <2>3
    <3> QED
      BY <1>2, <1>3, <3>1, <3>2, WithinWindow
  <2>4. CASE x = k /\ ~Elapsed(kept[k]) /\ ~(kept[k].count < limiter.limit)
    <3>1. windows'[x] = [start |-> kept[x].start, count |-> kept[x].count] /\ chargedAt'[x] = chargedAt[x]
      BY <1>5, <1>7, <1>9, <2>4
    <3>2. windows'[x] = kept[x]
      BY <1>3, <3>1 DEF Slots
    <3> QED
      BY <1>3, <3>1, <3>2
  <2> QED
    BY <2>1, <2>2, <2>3, <2>4
<1>11. LimiterTyped'
  <2>1. windows' \in [LimitKeys -> Slots]
    BY <1>6, <1>10
  <2> QED
    BY <1>1, <1>2, <1>9, <2>1 DEF LimiterTyped
<1>12. InMemoryInv'
  BY <1>1, <1>10 DEF InMemoryInv, InOrder, Accounts, Paced, Live
<1>13. StoreInv' /\ CountersInv'
  BY <1>1 DEF StoreInv, CountersInv
<1> QED
  BY <1>9, <1>11, <1>12, <1>13 DEF LimiterInv

\* A call counted by the memory store.
LEMMA MemoryStoreKeeps ==
    ASSUME LimiterInv, NEW k \in LimitKeys, AllowMemoryStore(k)
    PROVE  LimiterInv'
<1>1. /\ LimiterTyped /\ limiterNow \in Nat /\ limiter.limit \in Nat \ {0} /\ limiter.window \in Nat \ {0}
      /\ \A x \in LimitKeys : windows[x] \in Slots /\ chargedAt[x] \in Seq(Nat)
  BY NumbersTyped DEF LimiterInv
<1>2. PICK now \in Nat : now = Bucket(limiterNow)
  BY <1>1, BucketBounds DEF Bucket
<1>3. PICK s \in Nat, c \in Nat : s = windows[k].start /\ c = windows[k].count
  BY <1>1 DEF Slots
<1>4. PICK n \in Nat : n = IF c = 0 \/ s # now THEN 1 ELSE c + 1
  OBVIOUS
<1>5. /\ limiter.kind = "memory" /\ hits' = hits + 1
      /\ UNCHANGED <<limiter, limiterNow, counters, sent, strayHits>>
      /\ windows' = [windows EXCEPT ![k] = [start |-> now, count |-> n]]
      /\ Verdict(k, limiterNow, n <= limiter.limit, TRUE)
  BY <1>2, <1>3, <1>4 DEF AllowMemoryStore, AllowCalled
<1>6. /\ \A x \in LimitKeys : \A b : Charged(x, b) \in Nat
      /\ c > 0 => s <= now /\ Charged(k, s) = IF c <= limiter.limit THEN c ELSE limiter.limit
      /\ \A b \in Nat : c = 0 \/ b > s => Charged(k, b) = 0
      /\ \A b \in Nat : Charged(k, b) <= limiter.limit
  <2>1. \A x \in LimitKeys : \A b : Charged(x, b) \in Nat
    BY <1>1, BucketGrows DEF Charged
  <2> QED
    BY <1>2, <1>3, <1>5, <2>1 DEF LimiterInv, StoreInv
\* How many calls of this bucket were allowed so far.
<1>7. Charged(k, now) = IF c = 0 \/ s # now THEN 0 ELSE IF c <= limiter.limit THEN c ELSE limiter.limit
  BY <1>6
<1>8. (n <= limiter.limit) \in BOOLEAN /\ (n <= limiter.limit \/ Charged(k, now) = limiter.limit)
  BY <1>1, <1>4, <1>7
<1>9. n <= limiter.limit \/ Cardinality(Near(chargedAt[k], limiterNow)) >= limiter.limit
  <2>1. /\ Charged(k, now) \in Nat /\ Cardinality(Near(chargedAt[k], limiterNow)) \in Nat
        /\ Charged(k, now) <= Cardinality(Near(chargedAt[k], limiterNow))
    BY <1>1, <1>2, BucketIsNear DEF Charged
  <2> QED
    BY <1>1, <1>8, <2>1
<1>10. /\ chargedAt' \in [LimitKeys -> Seq(Nat)] /\ refusedAt' \in [LimitKeys -> SUBSET Nat]
       /\ \A x \in LimitKeys : chargedAt'[x] =
              IF n <= limiter.limit /\ x = k THEN Append(chargedAt[x], limiterNow) ELSE chargedAt[x]
       /\ RefusalsEarned'
  BY <1>1, <1>5, <1>8, <1>9, VerdictNotes DEF LimiterInv
<1> DEFINE after(x, b) == Cardinality(InBucket(chargedAt'[x], b))
<1>11. ASSUME NEW x \in LimitKeys, NEW b
       PROVE  after(x, b) = IF n <= limiter.limit /\ x = k /\ b = now THEN Charged(x, b) + 1 ELSE Charged(x, b)
  <2>1. Cardinality(InBucket(Append(chargedAt[x], limiterNow), b)) =
            IF Bucket(limiterNow) = b THEN Charged(x, b) + 1 ELSE Charged(x, b)
    BY <1>1, BucketGrows DEF Charged
  <2>2. CASE n <= limiter.limit /\ x = k
    BY <1>2, <1>10, <2>1, <2>2
  <2>3. CASE ~(n <= limiter.limit /\ x = k)
    BY <1>10, <2>3 DEF Charged
  <2> QED
    BY <2>2, <2>3
<1>12. \A x \in LimitKeys : \A b : after(x, b) = Charged(x, b)'
  BY <1>5 DEF Charged, InBucket, Bucket
<1> HIDE DEF after
<1>13. windows' \in [LimitKeys -> Slots] /\ \A x \in LimitKeys : windows'[x] = IF x = k THEN [start |-> now, count |-> n] ELSE windows[x]
  <2>1. [start |-> now, count |-> n] \in Slots
    BY DEF Slots
  <2> QED
    BY <1>1, <1>5, <2>1 DEF LimiterTyped
<1>14. LimiterTyped'
  BY <1>1, <1>5, <1>10, <1>13 DEF LimiterTyped
<1>15. ASSUME NEW x \in LimitKeys
       PROVE  /\ windows'[x].count > 0 =>
                     /\ windows'[x].start <= Bucket(limiterNow)
                     /\ after(x, windows'[x].start) =
                            IF windows'[x].count <= limiter.limit THEN windows'[x].count ELSE limiter.limit
              /\ \A b \in Nat : windows'[x].count = 0 \/ b > windows'[x].start => after(x, b) = 0
              /\ \A b \in Nat : after(x, b) <= limiter.limit
  <2>1. CASE x # k
    <3>1. windows'[x] = windows[x] /\ \A b : after(x, b) = Charged(x, b)
      BY <1>11, <1>13, <2>1
    <3> QED
      BY <1>5, <3>1 DEF LimiterInv, StoreInv
  <2>2. CASE x = k
    <3>1. windows'[x].start = now /\ windows'[x].count = n /\ n > 0
      BY <1>4, <1>13, <2>2
    <3>2. after(k, now) = IF n <= limiter.limit THEN n ELSE limiter.limit
      <4>1. CASE n <= limiter.limit
        BY <1>1, <1>4, <1>7, <1>11, <4>1
      <4>2. CASE ~(n <= limiter.limit)
        BY <1>8, <1>11, <4>2
      <4> QED
        BY <4>1, <4>2
    <3>3. \A b \in Nat : b > now => after(k, b) = 0
      <4>1. \A b \in Nat : b > now => after(k, b) = Charged(k, b) /\ (c = 0 \/ b > s)
        BY <1>6, <1>11
      <4> QED
        BY <1>6, <4>1
    <3>4. \A b \in Nat : after(k, b) <= limiter.limit
      <4>1. after(k, now) <= limiter.limit
        BY <1>1, <3>2
      <4>2. \A b \in Nat : b # now => after(k, b) = Charged(k, b)
        BY <1>11
      <4> QED
        BY <1>6, <4>1, <4>2
    <3> QED
      BY <1>2, <2>2, <3>1, <3>2, <3>3, <3>4
  <2> QED
    BY <2>1, <2>2
<1>16. StoreInv'
  <2>1. Bucket(limiterNow)' = Bucket(limiterNow) /\ limiter' = limiter
    BY <1>5 DEF Bucket
  <2> QED
    BY <1>12, <1>15, <2>1 DEF StoreInv
<1>17. InMemoryInv' /\ CountersInv'
  BY <1>5 DEF InMemoryInv, CountersInv
<1> QED
  BY <1>10, <1>14, <1>16, <1>17 DEF LimiterInv

\* A hit on its way to Redis.
LEMMA SendHitKeeps ==
    ASSUME LimiterInv, NEW k \in LimitKeys, SendHit(k)
    PROVE  LimiterInv'
<1>1. PICK t \in ReplicaTimes :
          sent' = sent \cup {[key |-> k, at |-> t, id |-> hits, heard |-> TRUE]}
  BY DEF SendHit
<1>2. /\ limiter.kind = "redis" /\ hits' = hits + 1
      /\ UNCHANGED <<limiter, limiterNow, windows, counters, chargedAt, refusedAt, evicted, strayHits>>
  BY DEF SendHit, AllowCalled
<1>3. LimiterTyped /\ hits \in Nat
  BY DEF LimiterInv, LimiterTyped
<1>4. LimiterTyped'
  <2>1. PICK m : m = [key |-> k, at |-> t, id |-> hits, heard |-> TRUE]
    OBVIOUS
  <2>2. m \in [key : LimitKeys, at : 0 .. MaxLimiterTime, id : Nat, heard : BOOLEAN]
    BY <1>3, <2>1 DEF ReplicaTimes
  <2>3. sent' \in SUBSET [key : LimitKeys, at : 0 .. MaxLimiterTime, id : Nat, heard : BOOLEAN]
    BY <1>1, <1>3, <2>1, <2>2 DEF LimiterTyped
  <2>4. hits' \in Nat
    BY <1>2, <1>3
  <2> QED
    BY <1>2, <1>3, <2>3, <2>4 DEF LimiterTyped
<1>5. InMemoryInv' /\ StoreInv'
  BY <1>2 DEF InMemoryInv, StoreInv
<1>6. CountersInv' /\ RefusalsEarned'
  BY <1>2 DEF LimiterInv, CountersInv, Charged, InBucket, Bucket, RefusalsEarned, Near
<1> QED
  BY <1>4, <1>5, <1>6 DEF LimiterInv

\* A hit whose eval() rejects, and one that never reaches Redis.
LEMMA UnheardKeeps ==
    ASSUME LimiterInv, NEW m \in sent, HitRejected(m) \/ HitLost(m)
    PROVE  LimiterInv'
<1>1. UNCHANGED <<limiter, limiterNow, windows, counters, hits, chargedAt, refusedAt, evicted, strayHits>>
  BY DEF HitRejected, HitLost
<1>2. LimiterTyped
  BY DEF LimiterInv
<1>3. LimiterTyped'
  <2>1. PICK n : n = [m EXCEPT !.heard = FALSE]
    OBVIOUS
  <2>2. n \in [key : LimitKeys, at : 0 .. MaxLimiterTime, id : Nat, heard : BOOLEAN]
    BY <1>2, <2>1 DEF LimiterTyped
  <2>3. sent' = (sent \ {m}) \cup {n} \/ sent' = sent \ {m}
    BY <2>1 DEF HitRejected, HitLost
  <2> QED
    BY <1>1, <1>2, <2>2, <2>3 DEF LimiterTyped
<1>4. limiter.kind = "redis"
  BY <1>2 DEF LimiterTyped
<1>5. InMemoryInv' /\ StoreInv'
  BY <1>1, <1>4 DEF InMemoryInv, StoreInv
<1>6. CountersInv' /\ RefusalsEarned'
  BY <1>1 DEF LimiterInv, CountersInv, Charged, InBucket, Bucket, RefusalsEarned, Near
<1> QED
  BY <1>3, <1>5, <1>6 DEF LimiterInv

\* A hit that Redis counts, in its bucket or outside it, with its caller or
\* without.
LEMMA CountHitKeeps ==
    ASSUME LimiterInv, NEW m \in sent, CountHit(m)
    PROVE  LimiterInv'
<1>1. /\ LimiterTyped /\ limiterNow \in Nat /\ limiter.limit \in Nat \ {0} /\ limiter.window \in Nat \ {0}
      /\ \A x \in LimitKeys : chargedAt[x] \in Seq(Nat)
      /\ limiter.kind \in {"runtime", "local", "memory", "redis"}
  BY NumbersTyped DEF LimiterInv
<1>2. PICK k \in LimitKeys, t \in Nat, heard \in BOOLEAN :
          k = m.key /\ t = m.at /\ heard = m.heard /\ t <= MaxLimiterTime
  <2>1. m.key \in LimitKeys /\ m.at \in 0 .. MaxLimiterTime /\ m.heard \in BOOLEAN
    BY <1>1 DEF LimiterTyped
  <2> QED
    BY <2>1, LimiterAssumption
<1>3. PICK x \in 0 .. MaxLimiterTime : x = Bucket(t) /\ x \in Nat
  <2>1. Bucket(t) \in Nat /\ Bucket(t) <= t
    BY <1>1, BucketBounds DEF Bucket
  <2> QED
    BY <1>1, <1>2, <2>1, LimiterAssumption
<1>4. PICK c \in Nat, e \in Nat : c = counters[k][x].count /\ e = counters[k][x].expires
  BY <1>1 DEF LimiterTyped
<1> DEFINE gone == c = 0 \/ limiterNow >= e
<1>5. PICK n \in Nat : n = IF gone THEN 1 ELSE c + 1
  OBVIOUS
<1>6. PICK f \in Nat : f = IF gone THEN limiterNow + limiter.window ELSE e
  BY <1>1
<1>7. /\ UNCHANGED <<limiter, limiterNow, windows, hits, evicted>> /\ sent' = sent \ {m}
      /\ counters' = [counters EXCEPT ![k][x] = [count |-> n, expires |-> f]]
      /\ Verdict(k, t, n <= limiter.limit, heard)
      /\ strayHits' = IF Bucket(limiterNow) # x THEN strayHits \cup {k} ELSE strayHits
  BY <1>2, <1>3, <1>4, <1>5, <1>6 DEF CountHit
<1>8. limiter.kind = "redis" =>
          /\ Charged(k, x) >= c \/ Charged(k, x) >= limiter.limit
          /\ k \notin strayHits =>
                 /\ Charged(k, x) <= limiter.limit /\ Charged(k, x) <= c
                 /\ c > 0 => e >= x * limiter.window + limiter.window
  BY <1>4 DEF LimiterInv, CountersInv
<1>9. limiter.kind = "redis"
  BY <1>1 DEF LimiterTyped
<1>10. /\ \A y \in LimitKeys : \A b : Charged(y, b) \in Nat
       /\ n = 1 \/ n = c + 1
  BY <1>1, <1>5, BucketGrows DEF Charged
<1>11. n <= limiter.limit \/ Cardinality(Near(chargedAt[k], t)) >= limiter.limit
  <2>1. /\ Cardinality(Near(chargedAt[k], t)) \in Nat
        /\ Charged(k, x) <= Cardinality(Near(chargedAt[k], t))
    BY <1>1, <1>3, BucketIsNear DEF Charged
  <2>2. n <= limiter.limit \/ Charged(k, x) >= limiter.limit
    BY <1>1, <1>8, <1>9, <1>10
  <2> QED
    BY <1>1, <1>10, <2>1, <2>2
<1>12. (n <= limiter.limit) \in BOOLEAN
  OBVIOUS
<1>13. /\ chargedAt' \in [LimitKeys -> Seq(Nat)] /\ refusedAt' \in [LimitKeys -> SUBSET Nat]
       /\ \A y \in LimitKeys : chargedAt'[y] =
              IF n <= limiter.limit /\ y = k THEN Append(chargedAt[y], t) ELSE chargedAt[y]
       /\ RefusalsEarned'
  <2>1. RefusalsEarned
    BY DEF LimiterInv
  <2>2. PICK ok \in BOOLEAN : ok = (n <= limiter.limit)
    BY <1>12
  <2>3. Verdict(k, t, ok, heard)
    BY <1>7, <2>2
  <2>4. ok \/ Cardinality(Near(chargedAt[k], t)) >= limiter.limit
    BY <1>11, <2>2
  <2>5. limiter' = limiter
    BY <1>7
  <2>6. /\ chargedAt' \in [LimitKeys -> Seq(Nat)] /\ refusedAt' \in [LimitKeys -> SUBSET Nat]
        /\ \A y \in LimitKeys : chargedAt'[y] = IF ok /\ y = k THEN Append(chargedAt[y], t) ELSE chargedAt[y]
        /\ RefusalsEarned'
    BY <1>1, <2>1, <2>3, <2>4, <2>5, VerdictNotes
  <2> QED
    BY <2>2, <2>6
<1> DEFINE after(y, b) == Cardinality(InBucket(chargedAt'[y], b))
<1>14. ASSUME NEW y \in LimitKeys, NEW b
       PROVE  after(y, b) = IF n <= limiter.limit /\ y = k /\ b = x THEN Charged(y, b) + 1 ELSE Charged(y, b)
  <2>1. Cardinality(InBucket(Append(chargedAt[y], t), b)) =
            IF Bucket(t) = b THEN Charged(y, b) + 1 ELSE Charged(y, b)
    BY <1>1, BucketGrows DEF Charged
  <2>2. CASE n <= limiter.limit /\ y = k
    BY <1>3, <1>13, <2>1, <2>2
  <2>3. CASE ~(n <= limiter.limit /\ y = k)
    BY <1>13, <2>3 DEF Charged
  <2> QED
    BY <2>2, <2>3
<1>15. \A y \in LimitKeys : \A b : after(y, b) = Charged(y, b)'
  BY <1>7 DEF Charged, InBucket, Bucket
<1> HIDE DEF after
<1>16. /\ counters' \in [LimitKeys -> [0 .. MaxLimiterTime -> [count : Nat, expires : Nat]]]
       /\ \A y \in LimitKeys : \A b \in 0 .. MaxLimiterTime :
              counters'[y][b] = IF y = k /\ b = x THEN [count |-> n, expires |-> f] ELSE counters[y][b]
  <2>1. [count |-> n, expires |-> f] \in [count : Nat, expires : Nat]
    OBVIOUS
  <2> QED
    BY <1>1, <1>7, <2>1 DEF LimiterTyped
<1>17. LimiterTyped'
  BY <1>1, <1>7, <1>9, <1>13, <1>16 DEF LimiterTyped
\* Within its bucket its counter does not expire.
<1>18. ASSUME k \notin strayHits'
       PROVE  /\ k \notin strayHits /\ (gone => c = 0)
              /\ limiterNow >= x * limiter.window /\ x * limiter.window \in Nat
  <2>1. k \notin strayHits /\ Bucket(limiterNow) = x
    BY <1>7, <1>18
  <2>2. x * limiter.window <= limiterNow /\ limiterNow < x * limiter.window + limiter.window
    BY <1>1, <2>1, BucketBounds DEF Bucket
  <2>3. x * limiter.window \in Nat
    BY <1>1, <1>3
  <2>4. c > 0 => e >= x * limiter.window + limiter.window
    BY <1>8, <1>9, <2>1
  <2>5. c > 0 => ~(limiterNow >= e)
    BY <1>1, <2>2, <2>3, <2>4
  <2> QED
    BY <1>1, <2>1, <2>2, <2>3, <2>5
<1>19. after(k, x) >= n \/ after(k, x) >= limiter.limit
  <2>1. CASE n <= limiter.limit
    <3>1. after(k, x) = Charged(k, x) + 1
      BY <1>14, <2>1
    <3> QED
      BY <1>1, <1>8, <1>9, <1>10, <3>1
  <2>2. CASE ~(n <= limiter.limit)
    <3>1. after(k, x) = Charged(k, x) /\ n = c + 1
      BY <1>1, <1>10, <1>14, <2>2
    <3> QED
      BY <1>1, <1>8, <1>9, <1>10, <2>2, <3>1
  <2> QED
    BY <2>1, <2>2
<1>20. ASSUME k \notin strayHits'
       PROVE  /\ after(k, x) <= limiter.limit /\ after(k, x) <= n
              /\ f >= x * limiter.window + limiter.window
  <2>1. /\ k \notin strayHits /\ (gone => c = 0)
        /\ limiterNow >= x * limiter.window /\ x * limiter.window \in Nat
    BY <1>18, <1>20
  <2>2. Charged(k, x) <= limiter.limit /\ Charged(k, x) <= c /\ Charged(k, x) \in Nat
    BY <1>8, <1>9, <1>10, <2>1
  <2>3. n = c + 1
    BY <1>5, <2>1
  <2>4. f >= x * limiter.window + limiter.window
    <3>1. CASE gone
      BY <1>1, <1>6, <2>1, <3>1
    <3>2. CASE ~gone
      BY <1>6, <1>8, <1>9, <2>1, <3>2
    <3> QED
      BY <3>1, <3>2
  <2>5. after(k, x) <= limiter.limit /\ after(k, x) <= n
    <3>1. after(k, x) = IF n <= limiter.limit THEN Charged(k, x) + 1 ELSE Charged(k, x)
      BY <1>14
    <3> QED
      BY <1>1, <2>2, <2>3, <3>1
  <2> QED
    BY <2>4, <2>5
<1>21. ASSUME NEW y \in LimitKeys, NEW b \in 0 .. MaxLimiterTime
       PROVE  /\ after(y, b) >= counters'[y][b].count \/ after(y, b) >= limiter.limit
              /\ y \notin strayHits' =>
                     /\ after(y, b) <= limiter.limit /\ after(y, b) <= counters'[y][b].count
                     /\ counters'[y][b].count > 0 =>
                            counters'[y][b].expires >= b * limiter.window + limiter.window
  <2>1. CASE y = k /\ b = x
    <3>1. counters'[y][b].count = n /\ counters'[y][b].expires = f
      BY <1>16, <2>1
    <3> QED
      BY <1>19, <1>20, <2>1, <3>1
  <2>2. CASE ~(y = k /\ b = x)
    <3>1. counters'[y][b] = counters[y][b] /\ after(y, b) = Charged(y, b) /\ (y \notin strayHits' => y \notin strayHits)
      BY <1>7, <1>14, <1>16, <2>2
    <3> QED
      BY <1>9, <3>1 DEF LimiterInv, CountersInv
  <2> QED
    BY <2>1, <2>2
<1>22. CountersInv'
  BY <1>7, <1>15, <1>21 DEF CountersInv
<1>23. InMemoryInv' /\ StoreInv'
  BY <1>7, <1>9 DEF InMemoryInv, StoreInv
<1> QED
  BY <1>13, <1>17, <1>22, <1>23 DEF LimiterInv

\* Every step of a limiter keeps the invariant.
LEMMA LimiterStep ==
    ASSUME LimiterInv, [LimiterNext]_limiterVars
    PROVE  LimiterInv'
<1>1. CASE UNCHANGED limiterVars
  <2>1. UNCHANGED <<limiter, limiterNow, windows, inserted, counters, sent, hits, chargedAt, refusedAt, evicted, strayHits>>
    BY <1>1 DEF limiterVars
  <2>2. LimiterTyped' /\ InMemoryInv'
    BY <2>1 DEF LimiterInv, LimiterTyped, InMemoryInv, InOrder, Accounts, Paced, Live
  <2>3. StoreInv'
    BY <2>1 DEF LimiterInv, StoreInv, Charged, InBucket, Bucket
  <2>4. CountersInv' /\ RefusalsEarned'
    BY <2>1 DEF LimiterInv, CountersInv, Charged, InBucket, Bucket, RefusalsEarned, Near
  <2> QED
    BY <2>2, <2>3, <2>4 DEF LimiterInv
<1> QED
  BY <1>1, InMemoryKeeps, MemoryStoreKeeps, SendHitKeeps, UnheardKeeps, CountHitKeeps, TickKeeps DEF LimiterNext

\* The rate limiters keep their budget for any number of keys, calls and hits
\* under way, at every limit and window: in memory at most twice the limit
\* falls into any one window, unless a live window of the key was evicted; a
\* bucket of the shared limiter is charged at most the limit, unless a hit of
\* the key was counted outside its bucket; and a refused key was charged the
\* limit within a window.  Answers may be lost and replicas' clocks may differ.
THEOREM LimitersKeepBudget == LimiterSpec => []BudgetKept
<1>1. (\E c \in LimiterConfigs : LimiterInit(c)) => LimiterInv
  BY LimiterInitially
<1>2. LimiterInv /\ [LimiterNext]_limiterVars => LimiterInv'
  BY LimiterStep
<1>3. LimiterInv => BudgetKept
  BY BudgetFromInv
<1> QED
  BY <1>1, <1>2, <1>3, PTL DEF LimiterSpec

-----------------------------------------------------------------------------
\* The audit file as the dashboard sees it

\* A nonempty set of naturals has a least element.
LEMMA LeastNat ==
    ASSUME NEW T \in SUBSET Nat, T # {}
    PROVE  \E x \in T : \A y \in T : x <= y
<1>1. \E x \in T : \A y \in T : ~(<<y, x>> \in OpToRel(<, Nat))
  BY NatLessThanWellFounded, WFMin
<1>2. PICK x \in T : \A y \in T : ~(<<y, x>> \in OpToRel(<, Nat))
  BY <1>1
<1>3. \A y \in T : ~(y < x)
  BY <1>2 DEF OpToRel
<1> QED
  BY <1>3

\* The offsets of the records of a log s, as a function of s, and the part of
\* it up to record n.
OffsetOf(s) == CHOOSE f : f = [i \in Nat |-> IF i <= 1 THEN 0 ELSE f[i - 1] + s[i - 1]]
IsOffset(f, s, n) == f = [i \in 0 .. n |-> IF i <= 1 THEN 0 ELSE f[i - 1] + s[i - 1]]

\* There is such a part for every n ...
LEMMA OffsetParts ==
    ASSUME NEW s, NEW n \in Nat
    PROVE  \E f : IsOffset(f, s, n)
<1> DEFINE B == {m \in Nat : ~\E f : IsOffset(f, s, m)}
<1>1. SUFFICES ASSUME B # {} PROVE FALSE
  OBVIOUS
<1>2. PICK m \in B : \A y \in B : m <= y
  BY <1>1, LeastNat
<1>3. m \in Nat /\ ~\E f : IsOffset(f, s, m)
  BY <1>2
<1>4. m # 0
  <2>1. IsOffset([i \in 0 .. 0 |-> 0], s, 0)
    BY DEF IsOffset
  <2> QED
    BY <1>3, <2>1
<1>5. m - 1 \in Nat /\ m - 1 \notin B
  BY <1>2, <1>3, <1>4
<1>6. PICK f : IsOffset(f, s, m - 1)
  BY <1>5
<1> DEFINE g == [i \in 0 .. m |-> IF i <= 1 THEN 0 ELSE f[i - 1] + s[i - 1]]
<1>7. \A i \in 0 .. m - 1 : f[i] = IF i <= 1 THEN 0 ELSE f[i - 1] + s[i - 1]
  BY <1>6 DEF IsOffset
<1>8. \A i \in 0 .. m : ~(i <= 1) => g[i - 1] = f[i - 1]
  <2>1. ASSUME NEW i \in 0 .. m, ~(i <= 1) PROVE g[i - 1] = f[i - 1]
    <3>1. i - 1 \in 0 .. m - 1 /\ i - 1 \in 0 .. m
      BY <1>3, <2>1
    <3> QED
      BY <1>7, <3>1
  <2> QED
    BY <2>1
<1>9. IsOffset(g, s, m)
  BY <1>8 DEF IsOffset
<1> QED
  BY <1>3, <1>9

\* ... the parts agree ...
LEMMA OffsetPartsAgree ==
    ASSUME NEW s, NEW n \in Nat, NEW m \in Nat, NEW f, NEW g, IsOffset(f, s, n), IsOffset(g, s, m),
           NEW k \in Nat, k <= n, k <= m
    PROVE  f[k] = g[k]
<1> DEFINE B == {i \in Nat : i <= n /\ i <= m /\ f[i] # g[i]}
<1>1. SUFFICES ASSUME B # {} PROVE FALSE
  OBVIOUS
<1>2. PICK i \in B : \A y \in B : i <= y
  BY <1>1, LeastNat
<1>3. i \in Nat /\ i <= n /\ i <= m /\ f[i] # g[i] /\ i \in 0 .. n /\ i \in 0 .. m
  BY <1>2
<1>4. /\ f[i] = IF i <= 1 THEN 0 ELSE f[i - 1] + s[i - 1]
      /\ g[i] = IF i <= 1 THEN 0 ELSE g[i - 1] + s[i - 1]
  BY <1>3 DEF IsOffset
<1>5. ~(i <= 1)
  BY <1>3, <1>4
<1>6. i - 1 \in Nat /\ i - 1 <= n /\ i - 1 <= m /\ i - 1 \notin B
  BY <1>2, <1>3, <1>5
<1>7. f[i - 1] = g[i - 1]
  BY <1>6
<1> QED
  BY <1>3, <1>4, <1>7

\* ... so Offset is what its recursive definition says.
LEMMA OffsetIs ==
    ASSUME NEW s
    PROVE  \A i \in Nat : OffsetOf(s)[i] = IF i <= 1 THEN 0 ELSE OffsetOf(s)[i - 1] + s[i - 1]
<1> DEFINE F == [n \in Nat |-> CHOOSE f : IsOffset(f, s, n)]
           h == [i \in Nat |-> F[i][i]]
<1>1. \A n \in Nat : IsOffset(F[n], s, n)
  BY OffsetParts
<1>2. ASSUME NEW i \in Nat PROVE h[i] = IF i <= 1 THEN 0 ELSE h[i - 1] + s[i - 1]
  <2>1. F[i][i] = IF i <= 1 THEN 0 ELSE F[i][i - 1] + s[i - 1]
    <3>1. i \in 0 .. i
      OBVIOUS
    <3>2. PICK f : f = F[i]
      OBVIOUS
    <3>3. f = [j \in 0 .. i |-> IF j <= 1 THEN 0 ELSE f[j - 1] + s[j - 1]]
      BY <1>1, <3>2 DEF IsOffset
    <3>4. f[i] = IF i <= 1 THEN 0 ELSE f[i - 1] + s[i - 1]
      BY <3>1, <3>3
    <3> QED
      BY <3>2, <3>4
  <2>2. CASE i <= 1
    BY <2>1, <2>2
  <2>3. CASE ~(i <= 1)
    <3>1. i - 1 \in Nat /\ i - 1 <= i /\ i - 1 <= i - 1
      BY <2>3
    <3>2. IsOffset(F[i], s, i) /\ IsOffset(F[i - 1], s, i - 1)
      BY <1>1, <3>1
    <3> HIDE DEF F
    <3>3. F[i][i - 1] = F[i - 1][i - 1]
      <4>1. PICK k \in Nat : k = i - 1 /\ k <= i
        BY <3>1
      <4>2. PICK f, g : f = F[i] /\ g = F[k]
        OBVIOUS
      <4>3. IsOffset(f, s, i) /\ IsOffset(g, s, k)
        BY <3>2, <4>1, <4>2
      <4>4. f[k] = g[k]
        BY <4>1, <4>3, OffsetPartsAgree
      <4> QED
        BY <4>1, <4>2, <4>4
    <3> QED
      BY <2>1, <2>3, <3>1, <3>3
  <2> QED
    BY <2>2, <2>3
<1>3. h = [i \in Nat |-> IF i <= 1 THEN 0 ELSE h[i - 1] + s[i - 1]]
  <2>1. h = [i \in Nat |-> h[i]]
    OBVIOUS
  <2> HIDE DEF h
  <2> QED
    BY <1>2, <2>1
<1> HIDE DEF h
<1>4. OffsetOf(s) = [i \in Nat |-> IF i <= 1 THEN 0 ELSE OffsetOf(s)[i - 1] + s[i - 1]]
  BY <1>3 DEF OffsetOf
<1> QED
  BY <1>4

\* The offsets of a log of records with lengths: numbers that do not fall, and
\* that an appended record leaves alone.
LEMMA OffsetSteps ==
    ASSUME NEW s \in Seq(Nat)
    PROVE  /\ OffsetOf(s)[1] = 0
           /\ \A i \in 1 .. Len(s) : OffsetOf(s)[i + 1] = OffsetOf(s)[i] + s[i]
           /\ \A i \in 1 .. Len(s) : s[i] \in Nat
<1>1. \A i \in 1 .. Len(s) : i + 1 \in Nat /\ ~(i + 1 <= 1) /\ (i + 1) - 1 = i
  OBVIOUS
<1>2. \A i \in 1 .. Len(s) : OffsetOf(s)[i + 1] = OffsetOf(s)[(i + 1) - 1] + s[(i + 1) - 1]
  BY <1>1, OffsetIs
<1> QED
  BY <1>1, <1>2, OffsetIs

\* An offset is a number ...
LEMMA OffsetNat ==
    ASSUME NEW s \in Seq(Nat), NEW k \in 1 .. Len(s) + 1
    PROVE  OffsetOf(s)[k] \in Nat
<1> DEFINE B == {i \in Nat : 1 <= i /\ i <= Len(s) + 1 /\ OffsetOf(s)[i] \notin Nat}
<1>1. SUFFICES ASSUME B # {} PROVE FALSE
  OBVIOUS
<1>2. PICK i \in B : \A y \in B : i <= y
  BY <1>1, LeastNat
<1>3. i \in Nat /\ 1 <= i /\ i <= Len(s) + 1 /\ OffsetOf(s)[i] \notin Nat
  BY <1>2
<1>4. i # 1
  BY <1>3, OffsetSteps
<1>5. PICK j \in 1 .. Len(s) : i = j + 1
  <2>1. i - 1 \in 1 .. Len(s) /\ i = (i - 1) + 1
    BY <1>3, <1>4
  <2> QED
    BY <2>1
<1>6. OffsetOf(s)[j] \in Nat
  BY <1>2, <1>5
<1>7. OffsetOf(s)[i] = OffsetOf(s)[j] + s[j] /\ s[j] \in Nat
  BY <1>5, OffsetSteps
<1> QED
  BY <1>3, <1>6, <1>7

\* ... that does not fall from one record to the next ...
LEMMA OffsetGrows ==
    ASSUME NEW s \in Seq(Nat), NEW i \in 1 .. Len(s) + 1, NEW k \in 1 .. Len(s) + 1, i <= k
    PROVE  OffsetOf(s)[i] <= OffsetOf(s)[k]
<1> DEFINE B == {j \in Nat : i <= j /\ j <= Len(s) + 1 /\ ~(OffsetOf(s)[i] <= OffsetOf(s)[j])}
<1>1. SUFFICES ASSUME B # {} PROVE FALSE
  OBVIOUS
<1>2. PICK j \in B : \A y \in B : j <= y
  BY <1>1, LeastNat
<1>3. j \in Nat /\ i <= j /\ j <= Len(s) + 1 /\ ~(OffsetOf(s)[i] <= OffsetOf(s)[j])
  BY <1>2
<1>4. i # j
  BY <1>3, OffsetNat
<1>5. PICK l \in 1 .. Len(s) : j = l + 1
  <2>1. j - 1 \in 1 .. Len(s) /\ j = (j - 1) + 1
    BY <1>3, <1>4
  <2> QED
    BY <2>1
<1>6. l \in Nat /\ i <= l /\ l <= Len(s) + 1 /\ l \notin B
  BY <1>2, <1>3, <1>4, <1>5
<1>7. OffsetOf(s)[i] <= OffsetOf(s)[l]
  BY <1>6
<1>8. OffsetOf(s)[i] \in Nat /\ OffsetOf(s)[l] \in Nat
  BY <1>5, OffsetNat
<1>9. OffsetOf(s)[j] = OffsetOf(s)[l] + s[l] /\ s[l] \in Nat
  BY <1>5, OffsetSteps
<1> QED
  BY <1>3, <1>7, <1>8, <1>9

\* ... and that a record appended later leaves alone.
LEMMA OffsetAppend ==
    ASSUME NEW s \in Seq(Nat), NEW n \in Nat
    PROVE  /\ \A k \in 1 .. Len(s) + 1 : OffsetOf(Append(s, n))[k] = OffsetOf(s)[k]
           /\ OffsetOf(Append(s, n))[Len(s) + 2] = OffsetOf(s)[Len(s) + 1] + n
<1>1. PICK t \in Seq(Nat) : t = Append(s, n)
  <2>1. Append(s, n) \in Seq(Nat)
    OBVIOUS
  <2> QED
    BY <2>1
<1>2. Len(t) = Len(s) + 1 /\ t[Len(s) + 1] = n /\ \A i \in 1 .. Len(s) : t[i] = s[i]
  BY <1>1
<1> DEFINE B == {k \in Nat : 1 <= k /\ k <= Len(s) + 1 /\ OffsetOf(t)[k] # OffsetOf(s)[k]}
<1>3. ASSUME B # {} PROVE FALSE
  <2>1. PICK j \in B : \A y \in B : j <= y
    BY <1>3, LeastNat
  <2>2. j \in Nat /\ 1 <= j /\ j <= Len(s) + 1 /\ OffsetOf(t)[j] # OffsetOf(s)[j]
    BY <2>1
  <2>3. j # 1
    BY <2>2, OffsetSteps
  <2>4. PICK l \in 1 .. Len(s) : j = l + 1
    <3>1. j - 1 \in 1 .. Len(s) /\ j = (j - 1) + 1
      BY <2>2, <2>3
    <3> QED
      BY <3>1
  <2>5. OffsetOf(t)[l] = OffsetOf(s)[l]
    BY <2>1, <2>4
  <2>6. l \in 1 .. Len(t)
    BY <1>2, <2>4
  <2>7. OffsetOf(t)[j] = OffsetOf(t)[l] + t[l] /\ OffsetOf(s)[j] = OffsetOf(s)[l] + s[l]
    BY <2>4, <2>6, OffsetSteps
  <2> QED
    BY <1>2, <2>2, <2>4, <2>5, <2>7
<1>4. \A k \in 1 .. Len(s) + 1 : OffsetOf(t)[k] = OffsetOf(s)[k]
  <2>1. \A k \in 1 .. Len(s) + 1 : k \in Nat /\ 1 <= k /\ k <= Len(s) + 1
    OBVIOUS
  <2> QED
    BY <1>3, <2>1
<1>5. OffsetOf(t)[(Len(s) + 1) + 1] = OffsetOf(t)[Len(s) + 1] + t[Len(s) + 1]
  <2>1. Len(s) + 1 \in 1 .. Len(t)
    BY <1>2
  <2> QED
    BY <2>1, OffsetSteps
<1>6. (Len(s) + 1) + 1 = Len(s) + 2 /\ Len(s) + 1 \in 1 .. Len(s) + 1
  OBVIOUS
<1> QED
  BY <1>1, <1>2, <1>4, <1>5, <1>6

\* The size of the file: partial units after the records of the log.
Records == log \in Seq(Nat \ {0}) /\ partial \in Nat

\* LogSize in terms of the records.
LEMMA SizeIs ==
    ASSUME Records
    PROVE  /\ Offset = OffsetOf(log) /\ LogSize = OffsetOf(log)[Len(log) + 1] + partial
           /\ log \in Seq(Nat) /\ Len(log) \in Nat /\ LogSize \in Nat
<1>1. Offset = OffsetOf(log)
  BY DEF Offset, OffsetOf
<1>2. log \in Seq(Nat) /\ Len(log) \in Nat /\ Len(log) + 1 \in 1 .. Len(log) + 1
  BY DEF Records
<1>3. LogSize = OffsetOf(log)[Len(log) + 1] + partial
  BY <1>1 DEF LogSize
<1> QED
  BY <1>1, <1>2, <1>3, OffsetNat DEF Records

\* Every append makes the file longer.
LEMMA FileGrows ==
    ASSUME Records, LogGrows
    PROVE  /\ Records' /\ LogSize' \in Nat /\ LogSize < LogSize'
           /\ Len(log') \in Nat /\ Len(log) <= Len(log')
           /\ UNCHANGED <<dash, pager, chainCache, walk, caller>>
<1>1. CASE AppendPart
  <2>1. log' = log /\ partial = 0 /\ partial' = 1 /\ UNCHANGED <<dash, pager, chainCache, walk, caller>>
    BY <1>1 DEF AppendPart
  <2>2. LogSize' = OffsetOf(log)[Len(log) + 1] + partial'
    BY <2>1 DEF LogSize, Offset, OffsetOf
  <2>3. OffsetOf(log)[Len(log) + 1] \in Nat
    BY SizeIs, OffsetNat
  <2> QED
    BY <2>1, <2>2, <2>3, SizeIs DEF Records
<1>2. ASSUME NEW n \in Lengths, AppendRecord(n)
      PROVE  /\ Records' /\ LogSize' \in Nat /\ LogSize < LogSize'
             /\ Len(log') \in Nat /\ Len(log) <= Len(log')
             /\ UNCHANGED <<dash, pager, chainCache, walk, caller>>
  <2>1. /\ log' = Append(log, n) /\ partial < n /\ partial' = 0 /\ UNCHANGED <<dash, pager, chainCache, walk, caller>>
    BY <1>2 DEF AppendRecord
  <2>2. n \in Nat \ {0}
    BY DashAssumption
  <2>3. Records' /\ Len(log') = Len(log) + 1
    BY <2>1, <2>2 DEF Records
  <2>4. LogSize' = OffsetOf(log')[Len(log') + 1] + partial'
    BY DEF LogSize, Offset, OffsetOf
  <2>5. OffsetOf(log')[Len(log) + 2] = OffsetOf(log)[Len(log) + 1] + n
    BY <2>1, <2>2, SizeIs, OffsetAppend
  <2>6. OffsetOf(log)[Len(log) + 1] \in Nat /\ Len(log') + 1 = Len(log) + 2
    BY <2>3, SizeIs, OffsetNat
  <2>7. LogSize' = OffsetOf(log)[Len(log) + 1] + n
    BY <2>1, <2>2, <2>4, <2>5, <2>6
  <2> QED
    BY <2>1, <2>2, <2>3, <2>6, <2>7, SizeIs DEF Records
<1> QED
  BY <1>1, <1>2 DEF LogGrows

-----------------------------------------------------------------------------
\* The chain's status

Results == [status : Nat, records : Nat]
Callers == {NoCaller} \cup
    [at : {"waits", "answered"}, status : Nat, records : Nat, floor : Nat, hit : BOOLEAN]

\* A result that was right when the file had the size k still is, or the file
\* has grown since.
FreshAt(result, k) ==
    /\ k \in Nat /\ k <= LogSize
    /\ result.status = 200 /\ k = LogSize => result.records = Len(log)

CacheFresh == chainCache \in [key : Nat, status : Nat, records : Nat] /\ FreshAt(chainCache, chainCache.key)

\* What a walk will answer is at least what was there when it began.
WalkFresh ==
    \/ walk = NoWalk
    \/ /\ walk \in [at : {"walks"}, key : Nat, floor : Nat]
       /\ walk.key <= LogSize /\ walk.floor <= Len(log)
    \/ /\ walk \in [at : {"read"}, key : Nat, floor : Nat, result : Results]
       /\ FreshAt(walk.result, walk.key)
       /\ walk.result.status = 200 => walk.result.records >= walk.floor

CallersTyped ==
    /\ caller \in [ChainCallers -> Callers]
    /\ \A r \in ChainCallers : caller[r].at = "waits" => ~caller[r].hit

ChainInv == Records /\ CacheFresh /\ WalkFresh /\ CallersTyped /\ ChainAnswerCurrent

\* What was fresh stays fresh while the file grows.
LEMMA GrowthKeepsChain ==
    ASSUME ChainInv, LogGrows
    PROVE  ChainInv'
<1>1. /\ Records' /\ LogSize \in Nat /\ LogSize' \in Nat /\ LogSize < LogSize'
      /\ Len(log) \in Nat /\ Len(log') \in Nat /\ Len(log) <= Len(log')
      /\ chainCache' = chainCache /\ walk' = walk /\ caller' = caller
  BY FileGrows, SizeIs DEF ChainInv
<1>2. ASSUME NEW result, NEW k, FreshAt(result, k)
      PROVE  /\ k \in Nat /\ k <= LogSize'
             /\ result.status = 200 /\ k = LogSize' => result.records = Len(log')
  BY <1>1, <1>2 DEF FreshAt
<1>3. CacheFresh'
  <2>1. /\ chainCache.key \in Nat /\ chainCache.key <= LogSize'
        /\ chainCache.status = 200 /\ chainCache.key = LogSize' => chainCache.records = Len(log')
    BY <1>2 DEF ChainInv, CacheFresh
  <2> QED
    BY <1>1, <2>1 DEF ChainInv, CacheFresh, FreshAt
<1>4. WalkFresh'
  <2>1. CASE walk = NoWalk
    BY <1>1, <2>1 DEF WalkFresh
  <2>2. CASE walk \in [at : {"walks"}, key : Nat, floor : Nat] /\ walk.key <= LogSize /\ walk.floor <= Len(log)
    <3>1. walk.key \in Nat /\ walk.floor \in Nat
      BY <2>2
    <3>2. walk.key <= LogSize' /\ walk.floor <= Len(log')
      BY <1>1, <2>2, <3>1
    <3> QED
      BY <1>1, <2>2, <3>2 DEF WalkFresh
  <2>3. CASE /\ walk \in [at : {"read"}, key : Nat, floor : Nat, result : Results]
             /\ FreshAt(walk.result, walk.key)
             /\ walk.result.status = 200 => walk.result.records >= walk.floor
    <3>1. /\ walk.key \in Nat /\ walk.key <= LogSize'
          /\ walk.result.status = 200 /\ walk.key = LogSize' => walk.result.records = Len(log')
      BY <1>2, <2>3
    <3> QED
      BY <1>1, <2>3, <3>1 DEF WalkFresh, FreshAt
  <2> QED
    BY <2>1, <2>2, <2>3 DEF ChainInv, WalkFresh
<1>5. CallersTyped' /\ ChainAnswerCurrent'
  BY <1>1 DEF ChainInv, CallersTyped, ChainAnswerCurrent
<1> QED
  BY <1>1, <1>3, <1>4, <1>5 DEF ChainInv

\* A walk that reads the file reads it as it is.
LEMMA ComputedIsFresh ==
    ASSUME Records
    PROVE  /\ Computed \in Results
           /\ Computed.status = 200 => Computed.records = Len(log)
<1>1. Len(log) \in Nat
  BY SizeIs
<1> QED
  BY <1>1 DEF Computed, Results

\* The file is not touched by a step of the dashboard.
LEMMA FileStays ==
    ASSUME log' = log, partial' = partial
    PROVE  LogSize' = LogSize /\ (Records => Records') /\ \A result, k : FreshAt(result, k)' = FreshAt(result, k)
<1>1. LogSize' = LogSize
  BY DEF LogSize, Offset
<1> QED
  BY <1>1 DEF Records, FreshAt

\* One lemma for each step of the chain route.
LEMMA ChainGetKeeps ==
    ASSUME ChainInv, NEW r \in ChainCallers, ChainGet(r)
    PROVE  ChainInv'
<1>1. /\ log' = log /\ partial' = partial /\ chainCache' = chainCache
  BY DEF ChainGet
<1>2. LogSize' = LogSize /\ Records' /\ LogSize \in Nat /\ Len(log) \in Nat /\ CacheFresh'
  BY <1>1, FileStays, SizeIs DEF ChainInv, CacheFresh, FreshAt
<1> DEFINE began == [at |-> "waits", status |-> 0, records |-> 0, floor |-> Len(log), hit |-> FALSE]
           hit == [at |-> "answered", status |-> chainCache.status, records |-> chainCache.records,
                   floor |-> Len(log), hit |-> TRUE]
<1>3. CASE chainCache.key = LogSize /\ chainCache.status # 0
  <2>1. caller' = [caller EXCEPT ![r] = hit] /\ walk' = walk
    BY <1>3 DEF ChainGet, Answered
  <2>2. hit \in Callers
    BY <1>2 DEF ChainInv, CacheFresh, Callers
  <2>3. hit.status = 200 => hit.records = hit.floor /\ hit.records >= hit.floor
    BY <1>2, <1>3 DEF ChainInv, CacheFresh, FreshAt
  <2>4. hit.at = "answered"
    OBVIOUS
  <2> HIDE DEF hit
  <2>5. caller' \in [ChainCallers -> Callers]
    BY <2>1, <2>2 DEF ChainInv, CallersTyped
  <2>6. \A x \in ChainCallers : caller'[x] = IF x = r THEN hit ELSE caller[x]
    BY <2>1 DEF ChainInv, CallersTyped
  <2>7. CallersTyped'
    BY <2>4, <2>5, <2>6 DEF ChainInv, CallersTyped
  <2>8. ChainAnswerCurrent'
    BY <2>3, <2>6 DEF ChainInv, ChainAnswerCurrent
  <2>9. WalkFresh'
    BY <1>1, <1>2, <2>1 DEF ChainInv, WalkFresh, FreshAt
  <2> QED
    BY <1>2, <2>7, <2>8, <2>9 DEF ChainInv
<1>4. CASE ~(chainCache.key = LogSize /\ chainCache.status # 0)
  <2>1. /\ caller' = [caller EXCEPT ![r] = began]
        /\ walk' = IF walk # NoWalk THEN walk ELSE [at |-> "walks", key |-> LogSize, floor |-> Len(log)]
    BY <1>4 DEF ChainGet
  <2>2. began \in Callers /\ began.at = "waits" /\ ~began.hit
    BY <1>2 DEF Callers
  <2> HIDE DEF began
  <2>3. caller' \in [ChainCallers -> Callers]
    BY <2>1, <2>2 DEF ChainInv, CallersTyped
  <2>4. \A x \in ChainCallers : caller'[x] = IF x = r THEN began ELSE caller[x]
    BY <2>1 DEF ChainInv, CallersTyped
  <2>5. CallersTyped'
    BY <2>2, <2>3, <2>4 DEF ChainInv, CallersTyped
  <2>6. ChainAnswerCurrent'
    BY <2>2, <2>4 DEF ChainInv, ChainAnswerCurrent
  <2>7. WalkFresh'
    BY <1>1, <1>2, <2>1 DEF ChainInv, WalkFresh, FreshAt
  <2> QED
    BY <1>2, <2>5, <2>6, <2>7 DEF ChainInv
<1> QED
  BY <1>3, <1>4

LEMMA WalkReadsKeeps ==
    ASSUME ChainInv, WalkReads
    PROVE  ChainInv'
<1>1. /\ log' = log /\ partial' = partial /\ chainCache' = chainCache /\ caller' = caller
      /\ walk.at = "walks"
      /\ walk' = [at |-> "read", key |-> walk.key, floor |-> walk.floor, result |-> Computed]
  BY DEF WalkReads
<1>2. LogSize' = LogSize /\ Records' /\ LogSize \in Nat /\ Len(log) \in Nat /\ CacheFresh'
  BY <1>1, FileStays, SizeIs DEF ChainInv, CacheFresh, FreshAt
<1>3. walk.key \in Nat /\ walk.floor \in Nat /\ walk.key <= LogSize /\ walk.floor <= Len(log)
  BY <1>1 DEF ChainInv, WalkFresh, NoWalk
<1>4. PICK w : w = walk'
  OBVIOUS
<1>5. PICK c \in Results : c = Computed /\ (c.status = 200 => c.records = Len(log))
  BY ComputedIsFresh DEF ChainInv
<1>6. /\ w \in [at : {"read"}, key : Nat, floor : Nat, result : Results]
      /\ w.key = walk.key /\ w.floor = walk.floor /\ w.result = c
  BY <1>1, <1>3, <1>4, <1>5
<1>7. w.result.status = 200 => w.result.records = Len(log) /\ w.result.records >= w.floor
  BY <1>2, <1>3, <1>5, <1>6
<1>8. WalkFresh'
  BY <1>1, <1>2, <1>3, <1>4, <1>6, <1>7 DEF WalkFresh, FreshAt
<1>9. CallersTyped' /\ ChainAnswerCurrent'
  BY <1>1 DEF ChainInv, CallersTyped, ChainAnswerCurrent
<1> QED
  BY <1>2, <1>8, <1>9 DEF ChainInv

\* Whoever waits for a walk gets an answer as good as the walk's.
LEMMA SettledIsCurrent ==
    ASSUME ChainInv, NEW result \in Results, NEW floor \in Nat, floor = walk.floor,
           result.status = 200 => result.records >= floor, caller' = Settled(result)
    PROVE  CallersTyped' /\ ChainAnswerCurrent'
<1>1. ASSUME NEW r \in ChainCallers
      PROVE  /\ caller'[r] \in Callers /\ caller'[r].at # "waits"
             /\ caller'[r].at = "answered" /\ caller'[r].status = 200 =>
                    /\ caller'[r].records >= caller'[r].floor
                    /\ caller'[r].hit => caller'[r].records = caller'[r].floor
  <2>1. CASE caller[r].at = "waits"
    <3>1. PICK c : c = caller[r] /\ c \in Callers /\ c.at = "waits" /\ ~c.hit
      BY <2>1 DEF ChainInv, CallersTyped
    <3>2. c \in [at : {"waits", "answered"}, status : Nat, records : Nat, floor : Nat, hit : BOOLEAN]
      BY <3>1 DEF Callers, NoCaller
    <3>3. PICK d : d = [c EXCEPT !.at = "answered", !.status = result.status,
                                 !.records = result.records, !.floor = floor]
      OBVIOUS
    <3>4. caller'[r] = d
      BY <2>1, <3>1, <3>3 DEF Settled, Answered
    <3>5. /\ d \in Callers /\ d.at = "answered" /\ d.status = result.status
          /\ d.records = result.records /\ d.floor = floor /\ d.hit = c.hit
      BY <3>2, <3>3 DEF Callers, Results
    <3> QED
      BY <3>1, <3>4, <3>5
  <2>2. CASE caller[r].at # "waits"
    <3>1. caller'[r] = caller[r]
      BY <2>2 DEF Settled
    <3> QED
      BY <2>2, <3>1 DEF ChainInv, CallersTyped, ChainAnswerCurrent
  <2> QED
    BY <2>1, <2>2
<1>2. caller' \in [ChainCallers -> Callers]
  <2>1. caller' = [r \in ChainCallers |-> caller'[r]]
    BY DEF Settled
  <2> QED
    BY <1>1, <2>1
<1> QED
  BY <1>1, <1>2 DEF CallersTyped, ChainAnswerCurrent

LEMMA WalkEndsKeeps ==
    ASSUME ChainInv, WalkEnds
    PROVE  ChainInv'
<1>1. /\ log' = log /\ partial' = partial /\ walk.at = "read" /\ walk' = NoWalk
      /\ chainCache' = [key |-> walk.key, status |-> walk.result.status, records |-> walk.result.records]
      /\ caller' = Settled(walk.result)
  BY DEF WalkEnds, CacheKey
<1>2. LogSize' = LogSize /\ Records'
  BY <1>1, FileStays DEF ChainInv
<1>3. /\ walk.key \in Nat /\ walk.floor \in Nat /\ walk.result \in Results /\ FreshAt(walk.result, walk.key)
      /\ walk.result.status = 200 => walk.result.records >= walk.floor
  BY <1>1 DEF ChainInv, WalkFresh, NoWalk
<1>4. walk.result.status \in Nat /\ walk.result.records \in Nat
  BY <1>3 DEF Results
<1>5. CacheFresh'
  BY <1>1, <1>2, <1>3, <1>4 DEF CacheFresh, FreshAt
<1>6. CallersTyped' /\ ChainAnswerCurrent'
  BY <1>1, <1>3, SettledIsCurrent
<1>7. WalkFresh'
  BY <1>1 DEF WalkFresh
<1> QED
  BY <1>2, <1>5, <1>6, <1>7 DEF ChainInv

LEMMA WalkFailsKeeps ==
    ASSUME ChainInv, WalkFails
    PROVE  ChainInv'
<1>1. /\ log' = log /\ partial' = partial /\ walk # NoWalk /\ walk' = NoWalk /\ chainCache' = chainCache
      /\ caller' = Settled([status |-> 500, records |-> 0])
  BY DEF WalkFails
<1>2. LogSize' = LogSize /\ Records' /\ CacheFresh'
  BY <1>1, FileStays DEF ChainInv, CacheFresh, FreshAt
<1>3. walk.floor \in Nat
  BY <1>1 DEF ChainInv, WalkFresh
<1>4. PICK c \in Results : c = [status |-> 500, records |-> 0] /\ c.status = 500
  <2>1. [status |-> 500, records |-> 0] \in Results
    BY DEF Results
  <2> QED
    BY <2>1
<1>5. CallersTyped' /\ ChainAnswerCurrent'
  BY <1>1, <1>3, <1>4, SettledIsCurrent
<1>6. WalkFresh'
  BY <1>1 DEF WalkFresh
<1> QED
  BY <1>2, <1>5, <1>6 DEF ChainInv

\* The other steps leave it alone.
LEMMA ChainRests ==
    ASSUME ChainInv, UNCHANGED <<log, partial, chainCache, walk, caller>>
    PROVE  ChainInv'
<1>1. LogSize' = LogSize /\ Records'
  BY FileStays DEF ChainInv
<1> QED
  BY <1>1 DEF ChainInv, CacheFresh, WalkFresh, FreshAt, CallersTyped, ChainAnswerCurrent

\* The chain's invariant holds at first.
LEMMA ChainInitially ==
    ASSUME NEW c \in DashConfigs, DashInit(c)
    PROVE  ChainInv
<1>1. /\ log = <<>> /\ partial = 0 /\ chainCache = NoCache /\ walk = NoWalk
      /\ caller = [r \in ChainCallers |-> NoCaller]
  BY DEF DashInit
<1>2. Records
  BY <1>1 DEF Records
<1>3. LogSize \in Nat
  BY <1>2, SizeIs
<1>4. CacheFresh
  BY <1>1, <1>3 DEF CacheFresh, FreshAt, NoCache
<1>5. WalkFresh /\ CallersTyped
  BY <1>1 DEF WalkFresh, CallersTyped, Callers, NoCaller
<1>6. ChainAnswerCurrent
  BY <1>1 DEF ChainAnswerCurrent, NoCaller
<1> QED
  BY <1>2, <1>4, <1>5, <1>6 DEF ChainInv

-----------------------------------------------------------------------------
\* Paging through the events

Pages == [refused : BOOLEAN, cursor : Nat, first : Nat, seen : SUBSET Nat, exceeded : BOOLEAN, over : BOOLEAN]

PagesInLog ==
    /\ pager \in [Pagers -> Pages]
    /\ \A u \in Pagers : pager[u].cursor # 0 =>
           pager[u].cursor <= pager[u].first /\ pager[u].first <= Len(log)

PagingInv == Records /\ dash \in DashConfigs /\ PagesInLog /\ PagedWithoutGap

\* The newest events of an interval of them, up to the limit, are again one.
LEMMA PageIs ==
    ASSUME NEW n \in Nat, NEW T \in SUBSET (1 .. n), T # {},
           \A i \in T : \A j \in i .. n : j \in T, dash.limit \in Nat \ {0}
    PROVE  \E c \in 1 .. n : FirstPage(T) = c .. n
<1>1. PICK a \in T : \A y \in T : a <= y
  BY LeastNat
<1>2. a \in 1 .. n /\ T = a .. n
  <2>1. a \in 1 .. n /\ a \in Nat /\ \A y \in T : y \in Nat /\ y <= n
    BY <1>1
  <2>2. \A y \in T : y \in a .. n
    BY <1>1, <2>1
  <2>3. \A y \in a .. n : y \in T
    BY <1>1
  <2> QED
    BY <2>1, <2>2, <2>3
<1>3. ASSUME NEW i \in T PROVE Cardinality({j \in T : j > i}) = n - i
  <2>1. i \in Nat /\ i <= n /\ a <= i
    BY <1>1, <1>2
  <2>2. {j \in T : j > i} = i + 1 .. n
    BY <1>2, <2>1
  <2>3. Cardinality(i + 1 .. n) = IF i + 1 > n THEN 0 ELSE n - (i + 1) + 1
    BY <2>1, FS_Interval
  <2>4. (IF i + 1 > n THEN 0 ELSE n - (i + 1) + 1) = n - i
    BY <2>1
  <2> QED
    BY <2>2, <2>3, <2>4
<1>4. FirstPage(T) = {i \in T : n - i < dash.limit}
  BY <1>3 DEF FirstPage
<1>5. CASE n - a < dash.limit
  <2>1. \A i \in T : n - i < dash.limit
    BY <1>2, <1>5
  <2>2. FirstPage(T) = a .. n
    BY <1>2, <1>4, <2>1
  <2> QED
    BY <1>2, <2>2
<1>6. CASE ~(n - a < dash.limit)
  <2>1. PICK c \in 1 .. n : c = (n - dash.limit) + 1
    <3>1. (n - dash.limit) + 1 \in 1 .. n
      BY <1>2, <1>6
    <3> QED
      BY <3>1
  <2>2. \A i \in T : n - i < dash.limit <=> c <= i
    BY <1>2, <2>1
  <2>3. a <= c
    BY <1>2, <1>6, <2>1
  <2>4. FirstPage(T) = {i \in T : c <= i}
    BY <1>4, <2>2
  <2>5. {i \in T : c <= i} = c .. n
    BY <1>2, <2>3
  <2> QED
    BY <2>4, <2>5
<1> QED
  BY <1>5, <1>6

\* Its first and its last event.
LEMMA PageEnds ==
    ASSUME NEW n \in Nat, NEW c \in 1 .. n
    PROVE  Oldest(c .. n) = c /\ Newest(c .. n) = n /\ c .. n # {}
<1>1. /\ c \in c .. n /\ \A j \in c .. n : c <= j
      /\ n \in c .. n /\ \A j \in c .. n : j <= n
  OBVIOUS
<1>2. \A i \in c .. n : (\A j \in c .. n : i <= j) => i = c
  BY <1>1
<1>3. \A i \in c .. n : (\A j \in c .. n : j <= i) => i = n
  BY <1>1
<1>4. Oldest(c .. n) = c
  <2>1. Oldest(c .. n) \in c .. n /\ \A j \in c .. n : Oldest(c .. n) <= j
    BY <1>1 DEF Oldest
  <2> QED
    BY <1>2, <2>1
<1>5. Newest(c .. n) = n
  <2>1. Newest(c .. n) \in c .. n /\ \A j \in c .. n : j <= Newest(c .. n)
    BY <1>1 DEF Newest
  <2> QED
    BY <1>3, <2>1
<1> QED
  BY <1>1, <1>4, <1>5

\* The window shows the newest records, without a gap.
LEMMA TailIsSuffix ==
    ASSUME Records, dash \in DashConfigs
    PROVE  /\ TailEvents \in SUBSET (1 .. Len(log)) /\ Len(log) \in Nat
           /\ \A i \in TailEvents : \A j \in i .. Len(log) : j \in TailEvents
           /\ CoveredFromStart => TailEvents = 1 .. Len(log)
           /\ dash.limit \in Nat \ {0}
<1>1. Offset = OffsetOf(log) /\ log \in Seq(Nat) /\ Len(log) \in Nat /\ LogSize \in Nat
  BY SizeIs
<1>2. dash.limit \in Nat \ {0} /\ dash.window \in Nat
  BY DashAssumption DEF DashConfig
<1>3. WindowStart \in Nat
  BY <1>1, <1>2 DEF WindowStart
<1>4. ASSUME NEW i \in TailEvents, NEW j \in i .. Len(log) PROVE j \in TailEvents
  <2>1. i \in 1 .. Len(log) /\ (CoveredFromStart \/ Offset[i] > WindowStart)
    BY DEF TailEvents
  <2>2. j \in 1 .. Len(log) /\ i <= j /\ i \in 1 .. Len(log) + 1 /\ j \in 1 .. Len(log) + 1
    BY <1>1, <2>1
  <2>3. Offset[i] <= Offset[j] /\ Offset[i] \in Nat /\ Offset[j] \in Nat
    BY <1>1, <2>2, OffsetGrows, OffsetNat
  <2>4. CASE CoveredFromStart
    BY <2>2, <2>4 DEF TailEvents
  <2>5. CASE Offset[i] > WindowStart
    <3>1. Offset[j] > WindowStart
      BY <1>3, <2>3, <2>5
    <3> QED
      BY <2>2, <3>1 DEF TailEvents
  <2> QED
    BY <2>1, <2>4, <2>5
<1> QED
  BY <1>1, <1>2, <1>4 DEF TailEvents

\* A page, for whoever asks for it.
LEMMA PagerMoves ==
    ASSUME PagingInv, NEW u \in Pagers, NEW p \in Pages, pager' = [pager EXCEPT ![u] = p],
           UNCHANGED <<dash, log, partial>>,
           p.cursor # 0 =>
               /\ p.cursor <= p.first /\ p.first <= Len(log) /\ p.seen = p.cursor .. p.first
               /\ p.over => p.cursor = 1 \/ p.exceeded
    PROVE  PagingInv'
<1>1. \A x \in Pagers : pager'[x] = IF x = u THEN p ELSE pager[x]
  BY DEF PagingInv, PagesInLog
<1>2. pager' \in [Pagers -> Pages]
  BY DEF PagingInv, PagesInLog
<1>3. Records' /\ dash' \in DashConfigs
  BY DEF PagingInv, Records
<1>4. PagesInLog'
  BY <1>1, <1>2 DEF PagingInv, PagesInLog
<1>5. PagedWithoutGap'
  BY <1>1 DEF PagingInv, PagedWithoutGap
<1> QED
  BY <1>3, <1>4, <1>5 DEF PagingInv

\* One lemma for each step of the events route.
LEMMA RefuseKeeps ==
    ASSUME PagingInv, NEW u \in Pagers, Refuse(u)
    PROVE  PagingInv'
<1>1. PICK q \in Pages : q = pager[u]
  BY DEF PagingInv, PagesInLog
<1>2. PICK p : p = [q EXCEPT !.refused = TRUE]
  OBVIOUS
<1>3. /\ p \in Pages /\ p.cursor = q.cursor /\ p.first = q.first /\ p.seen = q.seen
      /\ p.over = q.over /\ p.exceeded = q.exceeded
  BY <1>1, <1>2 DEF Pages
<1>4. pager' = [pager EXCEPT ![u] = p] /\ UNCHANGED <<dash, log, partial>>
  BY <1>1, <1>2 DEF Refuse
<1>5. q.cursor # 0 =>
          /\ q.cursor <= q.first /\ q.first <= Len(log) /\ q.seen = q.cursor .. q.first
          /\ q.over => q.cursor = 1 \/ q.exceeded
  BY <1>1 DEF PagingInv, PagesInLog, PagedWithoutGap
<1> QED
  BY <1>3, <1>4, <1>5, PagerMoves

LEMMA FirstEventsKeeps ==
    ASSUME PagingInv, NEW u \in Pagers, FirstEvents(u)
    PROVE  PagingInv'
<1> DEFINE page == FirstPage(TailEvents)
           n == Len(log)
<1>1. /\ page # {} /\ UNCHANGED <<dash, log, partial>>
      /\ pager' = [pager EXCEPT ![u] = [refused |-> FALSE, cursor |-> Oldest(page), first |-> Newest(page),
                                        seen |-> page, exceeded |-> FALSE, over |-> FALSE]]
  BY DEF FirstEvents
<1>2. /\ TailEvents \in SUBSET (1 .. n) /\ n \in Nat /\ dash.limit \in Nat \ {0}
      /\ \A i \in TailEvents : \A j \in i .. n : j \in TailEvents
  BY TailIsSuffix DEF PagingInv
<1>3. TailEvents # {}
  BY <1>1 DEF FirstPage
<1>4. PICK c \in 1 .. n : page = c .. n
  BY <1>2, <1>3, PageIs
<1>5. Oldest(page) = c /\ Newest(page) = n
  BY <1>2, <1>4, PageEnds
<1> HIDE DEF page
<1>6. PICK p : p = [refused |-> FALSE, cursor |-> c, first |-> n, seen |-> c .. n,
                    exceeded |-> FALSE, over |-> FALSE]
  OBVIOUS
<1>7. /\ p \in Pages /\ p.cursor = c /\ p.first = n /\ p.seen = c .. n /\ p.over = FALSE
  <2>1. c .. n \in SUBSET Nat /\ c \in Nat
    BY <1>2
  <2> QED
    BY <1>2, <1>6, <2>1 DEF Pages
<1>8. pager' = [pager EXCEPT ![u] = p]
  BY <1>1, <1>4, <1>5, <1>6
<1>9. c <= n /\ n <= Len(log)
  BY <1>2
<1>10. /\ p.cursor <= p.first /\ p.first <= Len(log) /\ p.seen = p.cursor .. p.first
       /\ p.over => p.cursor = 1 \/ p.exceeded
  BY <1>7, <1>9
<1> QED
  BY <1>1, <1>7, <1>8, <1>10, PagerMoves

\* The page below a cursor joins it, and if there is none the client is at the
\* first record or is told.
LEMMA OlderEventsKeeps ==
    ASSUME PagingInv, NEW u \in Pagers, OlderEvents(u)
    PROVE  PagingInv'
<1>1. PICK q \in Pages : q = pager[u]
  BY DEF PagingInv, PagesInLog
<1>2. /\ q.cursor \in Nat \ {0} /\ q.first \in Nat /\ ~q.over /\ Len(log) \in Nat
      /\ q.cursor <= q.first /\ q.first <= Len(log) /\ q.seen = q.cursor .. q.first
  BY <1>1, TailIsSuffix DEF PagingInv, PagesInLog, PagedWithoutGap, OlderEvents, Pages
<1> DEFINE below == {i \in TailEvents : i < q.cursor}
           page == FirstPage(below)
<1>3. /\ UNCHANGED <<dash, log, partial>>
      /\ pager' = [pager EXCEPT ![u] =
             [refused |-> FALSE, first |-> q.first, seen |-> q.seen \cup page,
              cursor |-> IF page = {} THEN q.cursor ELSE Oldest(page),
              exceeded |-> PredatesWindow(q.cursor), over |-> page = {}]]
  BY <1>1 DEF OlderEvents
<1>4. PICK m \in Nat : q.cursor = m + 1
  <2>1. q.cursor - 1 \in Nat /\ q.cursor = (q.cursor - 1) + 1
    BY <1>2
  <2> QED
    BY <2>1
<1>5. /\ below \in SUBSET (1 .. m) /\ \A i \in below : \A j \in i .. m : j \in below
      /\ dash.limit \in Nat \ {0}
  <2>1. /\ TailEvents \in SUBSET (1 .. Len(log)) /\ dash.limit \in Nat \ {0}
        /\ \A i \in TailEvents : \A j \in i .. Len(log) : j \in TailEvents
    BY TailIsSuffix DEF PagingInv
  <2>2. m < Len(log)
    BY <1>2, <1>4
  <2>3. ASSUME NEW i \in below, NEW j \in i .. m PROVE j \in below
    <3>1. i \in TailEvents /\ i \in Nat
      BY <2>1
    <3>2. j \in i .. Len(log) /\ j < q.cursor
      BY <1>2, <1>4, <2>2, <3>1
    <3> QED
      BY <2>1, <3>1, <3>2
  <2>4. below \in SUBSET (1 .. m)
    <3>1. \A i \in TailEvents : i \in Nat /\ 1 <= i
      BY <2>1
    <3>2. \A i \in TailEvents : i < q.cursor => i \in 1 .. m
      BY <1>4, <3>1
    <3> QED
      BY <3>2
  <2> QED
    BY <2>1, <2>3, <2>4
<1>6. PredatesWindow(q.cursor) \in BOOLEAN
  BY DEF PredatesWindow
<1>7. CASE below = {}
  <2>1. page = {}
    BY <1>7 DEF FirstPage
  <2>2. q.cursor = 1 \/ PredatesWindow(q.cursor)
    <3>1. CASE CoveredFromStart
      <4>1. TailEvents = 1 .. Len(log)
        BY <3>1, TailIsSuffix DEF PagingInv
      <4>2. 1 \in TailEvents
        BY <1>2, <4>1
      <4>3. ~(1 < q.cursor)
        BY <1>7, <4>2
      <4> QED
        BY <1>2, <4>3
    <3>2. CASE ~CoveredFromStart
      <4>1. \A i \in TailEvents : i \in Nat
        BY TailIsSuffix DEF PagingInv
      <4>2. \A i \in TailEvents : q.cursor <= i
        BY <1>2, <1>7, <4>1
      <4> QED
        BY <3>2, <4>2 DEF PredatesWindow
    <3> QED
      BY <3>1, <3>2
  <2> HIDE DEF page
  <2>3. PICK p : p = [refused |-> FALSE, first |-> q.first, seen |-> q.seen, cursor |-> q.cursor,
                      exceeded |-> PredatesWindow(q.cursor), over |-> TRUE]
    OBVIOUS
  <2>4. /\ p \in Pages /\ p.cursor = q.cursor /\ p.first = q.first /\ p.seen = q.seen
        /\ p.exceeded = PredatesWindow(q.cursor)
    BY <1>6, <2>3 DEF Pages
  <2>5. pager' = [pager EXCEPT ![u] = p]
    <3>1. q.seen \cup page = q.seen
      BY <2>1
    <3> QED
      BY <1>3, <2>1, <2>3, <3>1
  <2> QED
    BY <1>2, <1>3, <2>2, <2>4, <2>5, PagerMoves
<1>8. CASE below # {}
  <2> HIDE DEF below
  <2>1. PICK c \in 1 .. m : page = c .. m
    BY <1>4, <1>5, <1>8, PageIs
  <2>2. Oldest(page) = c /\ page # {}
    BY <1>4, <2>1, PageEnds
  <2> HIDE DEF page
  <2>3. q.seen \cup page = c .. q.first
    BY <1>2, <1>4, <2>1
  <2>4. PICK p : p = [refused |-> FALSE, first |-> q.first, seen |-> c .. q.first, cursor |-> c,
                      exceeded |-> PredatesWindow(q.cursor), over |-> FALSE]
    OBVIOUS
  <2>5. p \in Pages /\ p.cursor = c /\ p.first = q.first /\ p.seen = c .. q.first /\ p.over = FALSE
    <3>1. c \in Nat /\ c .. q.first \in SUBSET Nat
      BY <1>2, <1>4
    <3> QED
      BY <1>2, <1>6, <2>4, <3>1 DEF Pages
  <2>6. pager' = [pager EXCEPT ![u] = p]
    BY <1>3, <2>2, <2>3, <2>4
  <2>7. c <= q.first
    BY <1>2, <1>4
  <2>8. /\ p.cursor <= p.first /\ p.first <= Len(log) /\ p.seen = p.cursor .. p.first
        /\ p.over => p.cursor = 1 \/ p.exceeded
    BY <1>2, <2>5, <2>7
  <2> QED
    BY <1>3, <2>5, <2>6, <2>8, PagerMoves
<1> QED
  BY <1>7, <1>8

\* Growth of the log leaves the pages alone.
LEMMA PagingRests ==
    ASSUME PagingInv, Records', Len(log') \in Nat, Len(log) <= Len(log'), pager' = pager, dash' = dash
    PROVE  PagingInv'
<1>1. Len(log) \in Nat
  BY SizeIs DEF PagingInv
<1>2. PagesInLog'
  <2>1. ASSUME NEW u \in Pagers, pager[u].cursor # 0
        PROVE  pager[u].cursor <= pager[u].first /\ pager[u].first <= Len(log')
    <3>1. pager[u].first \in Nat /\ pager[u].cursor <= pager[u].first /\ pager[u].first <= Len(log)
      BY <2>1 DEF PagingInv, PagesInLog, Pages
    <3> QED
      BY <1>1, <3>1
  <2> QED
    BY <2>1 DEF PagingInv, PagesInLog
<1> QED
  BY <1>2 DEF PagingInv, PagedWithoutGap

\* The dashboard as a whole.
DashInv == ChainInv /\ PagingInv

\* The dashboard's invariant holds at first ...
LEMMA DashInitially ==
    ASSUME NEW c \in DashConfigs, DashInit(c)
    PROVE  DashInv
<1>1. ChainInv
  BY ChainInitially
<1>2. dash = c /\ pager = [u \in Pagers |-> NoPage]
  BY DEF DashInit
<1>3. PagesInLog /\ PagedWithoutGap
  BY <1>2 DEF PagesInLog, PagedWithoutGap, Pages, NoPage
<1> QED
  BY <1>1, <1>2, <1>3 DEF DashInv, ChainInv, PagingInv

\* ... is kept by every step ...
LEMMA DashStep ==
    ASSUME DashInv, [DashNext]_dashVars
    PROVE  DashInv'
<1>1. ChainInv /\ PagingInv /\ Len(log) \in Nat /\ Records
  BY SizeIs DEF DashInv, ChainInv
<1>2. CASE LogGrows
  BY <1>1, <1>2, FileGrows, GrowthKeepsChain, PagingRests DEF DashInv
<1>3. CASE EventsRoute
  <2>1. PagingInv'
    BY <1>1, <1>3, RefuseKeeps, FirstEventsKeeps, OlderEventsKeeps DEF EventsRoute
  <2>2. UNCHANGED <<log, partial, chainCache, walk, caller>>
    BY <1>3 DEF EventsRoute, Refuse, FirstEvents, OlderEvents
  <2> QED
    BY <1>1, <2>1, <2>2, ChainRests DEF DashInv
<1>4. CASE ChainRoute
  <2>1. ChainInv'
    BY <1>1, <1>4, ChainGetKeeps, WalkReadsKeeps, WalkEndsKeeps, WalkFailsKeeps DEF ChainRoute
  <2>2. UNCHANGED <<log, partial, dash, pager>>
    BY <1>4 DEF ChainRoute, ChainGet, WalkReads, WalkEnds, WalkFails
  <2> QED
    BY <1>1, <2>1, <2>2, PagingRests DEF DashInv, ChainInv
<1>5. CASE UNCHANGED dashVars
  <2>1. UNCHANGED <<log, partial, chainCache, walk, caller, dash, pager>>
    BY <1>5 DEF dashVars
  <2> QED
    BY <1>1, <2>1, ChainRests, PagingRests DEF DashInv, ChainInv
<1> QED
  BY <1>2, <1>3, <1>4, <1>5 DEF DashNext

\* ... and so always holds.
LEMMA DashInvHolds == DashSpec => []DashInv
<1>1. (\E c \in DashConfigs : DashInit(c)) => DashInv
  BY DashInitially
<1>2. DashInv /\ [DashNext]_dashVars => DashInv'
  BY DashStep
<1> QED
  BY <1>1, <1>2, PTL DEF DashSpec

\* For any number of requests, records of any lengths and any configuration,
\* /api/chain never reports less than the walk it began or joined had to see,
\* and a cached status is that of the file as it is.
THEOREM ChainStaysCurrent == DashSpec => []ChainAnswerCurrent
<1>1. DashInv => ChainAnswerCurrent
  BY DEF DashInv, ChainInv
<1> QED
  BY <1>1, DashInvHolds, PTL

\* However the log grows and the window moves between two pages, paging back
\* through /api/events leaves no gap, and ends at the first record or with the
\* window reported as exceeded.
THEOREM PagesJoin == DashSpec => []PagedWithoutGap
<1>1. DashInv => PagedWithoutGap
  BY DEF DashInv, PagingInv
<1> QED
  BY <1>1, DashInvHolds, PTL
=============================================================================
