------------------------------ MODULE KeyFetch ------------------------------
(***************************************************************************)
(* The two cached key fetchers: the JWKS cache of the JWT verifier         *)
(* (satellites/auth-jwt), which also serves the OIDC broker, and the key   *)
(* document fetched for a process-isolated plugin (packages/ssrf).  Both   *)
(* share one fetch among their callers, keep a result for a TTL and space  *)
(* their fetches by a cooldown; they differ in what they ask first.        *)
(*                                                                         *)
(* A key is its kid.  A fetch is a request the issuer answers with the     *)
(* keys it has at that moment, or that fails: blocked address, timeout,    *)
(* status, size, JSON.  The rest of the verification of a token (parsing,  *)
(* signature, claims, times) is a verdict on it once its key is known.     *)
(***************************************************************************)
EXTENDS Naturals

CONSTANTS
    Kids,          \* key ids
    Verifiers,     \* concurrent callers
    FetchConfigs,  \* [kind, ttl, cooldown]
    MaxFetchTime,  \* bound: clock ticks
    MaxRotations   \* bound: changes of the issuer's keys

\* The construction checks; a cooldown longer than the TTL is accepted.
FetchConfig(c) ==
    /\ c.kind \in {"jwks", "document"}
    /\ c.ttl \in Nat /\ c.cooldown \in Nat

ASSUME FetchAssumption ==
    /\ \A c \in FetchConfigs : FetchConfig(c)
    /\ MaxFetchTime \in Nat /\ MaxRotations \in Nat

VARIABLES
    fetcher,       \* the configuration
    fetchNow,      \* now(); 0 is before the first call
    published,     \* the issuer's current keys
    rotations,
    cacheKeys,     \* keysByKid, or the keys of the cached document
    fetchedAt,     \* 0 while nothing was fetched
    lastRefetchAt, \* lastRefetchAt, lastAttemptAt; 0 for never
    fetch,         \* inflight
    verifier,      \* caller -> the kid it waits for
    lastStart,     \* history: when the latest fetch was started
    outcome,       \* history: how the latest fetch stands
    accepted       \* history: the latest key handed out

fetchVars == <<fetcher, fetchNow, published, rotations, cacheKeys, fetchedAt, lastRefetchAt,
               fetch, verifier, lastStart, outcome, accepted>>

NoFetch == [at |-> "none"]
NotWaiting == [at |-> "idle"]
Nothing == [age |-> 0, outcome |-> "none"]

FetchInit(c) ==
    /\ fetcher = c
    /\ fetchNow = 1
    /\ published = Kids
    /\ rotations = 0
    /\ cacheKeys = {}
    /\ fetchedAt = 0
    /\ lastRefetchAt = 0
    /\ fetch = NoFetch
    /\ verifier = [v \in Verifiers |-> NotWaiting]
    /\ lastStart = 0
    /\ outcome = "none"
    /\ accepted = Nothing

cacheVars == <<cacheKeys, fetchedAt>>
fetchState == <<fetch, lastRefetchAt, lastStart, outcome>>

FetchTick ==
    /\ fetchNow < MaxFetchTime
    /\ fetchNow' = fetchNow + 1
    /\ UNCHANGED <<fetcher, published, rotations, cacheVars, fetchState, verifier, accepted>>

\* The issuer replaces its keys.
Rotate(keys) ==
    /\ rotations < MaxRotations
    /\ keys # published
    /\ published' = keys
    /\ rotations' = rotations + 1
    /\ UNCHANGED <<fetcher, fetchNow, cacheVars, fetchState, verifier, accepted>>

-----------------------------------------------------------------------------
\* resolveJwk(kid) and get()

Cached(kid) == IF fetcher.kind = "jwks" THEN kid \in cacheKeys ELSE fetchedAt # 0
Fresh == fetchedAt # 0 /\ fetchNow - fetchedAt < fetcher.ttl

\* Mutant: a cooldown that lasts to the end of its last tick.
CooldownElapsedLate ==
    \/ fetcher.kind = "jwks" /\ fetchedAt = 0
    \/ lastRefetchAt = 0 \/ fetchNow - lastRefetchAt > fetcher.cooldown

\* The JWKS cache asks nothing of the cooldown before its first success.
CooldownElapsed ==
    \/ fetcher.kind = "jwks" /\ fetchedAt = 0
    \/ lastRefetchAt = 0 \/ fetchNow - lastRefetchAt >= fetcher.cooldown

Accept == accepted' = [age |-> fetchNow - fetchedAt, outcome |-> outcome]

\* Served from the cache: fresh, or stale with no fetch allowed now.  A
\* document fetch that is under way is joined before the cooldown is asked.
FromCache(v, kid) ==
    /\ verifier[v] = NotWaiting
    /\ Cached(kid)
    /\ Fresh \/ (~CooldownElapsed /\ (fetcher.kind = "jwks" \/ fetch = NoFetch))
    /\ Accept
    /\ UNCHANGED <<fetcher, fetchNow, published, rotations, cacheVars, fetchState, verifier>>

\* Mutant: the time of the attempt is noted when it has succeeded.
NotedAttemptLate(t) == lastRefetchAt

\* The attempt is noted before it is awaited.
NotedAttempt(t) == t

\* refreshOnce: one fetch at a time.
StartFetch ==
    IF fetch = NoFetch
    THEN fetch' = [at |-> "asked"] /\ lastStart' = fetchNow /\ outcome' = "inflight"
    ELSE UNCHANGED <<fetch, lastStart, outcome>>

\* Not served from the cache: fetch, or join the fetch under way.  A call that
\* may do neither and finds nothing cached is denied and changes nothing.
AwaitFetch(v, kid) ==
    /\ verifier[v] = NotWaiting
    /\ ~(Cached(kid) /\ Fresh)
    /\ \/ /\ CooldownElapsed
          /\ fetcher.kind = "jwks" \/ fetch = NoFetch
          /\ StartFetch
          /\ lastRefetchAt' = NotedAttempt(fetchNow)
       \/ /\ fetcher.kind = "document" /\ fetch # NoFetch
          /\ UNCHANGED fetchState
    /\ verifier' = [verifier EXCEPT ![v] = [at |-> "fetch", kid |-> kid]]
    /\ UNCHANGED <<fetcher, fetchNow, published, rotations, cacheVars, accepted>>

-----------------------------------------------------------------------------
\* The fetch

\* The issuer sends its keys as they are now; the body may take a while.
IssuerAnswers ==
    /\ fetch.at = "asked"
    /\ fetch' = [at |-> "body", keys |-> published]
    /\ UNCHANGED <<fetcher, fetchNow, published, rotations, cacheVars, lastRefetchAt, lastStart,
                   outcome, verifier, accepted>>

Released == verifier' = [v \in Verifiers |-> NotWaiting]

\* The body is read and parsed: the cache is replaced as a whole, and every
\* waiting caller goes on with what it holds.
Fetched ==
    /\ fetch.at = "body"
    /\ fetch' = NoFetch
    /\ cacheKeys' = fetch.keys
    /\ fetchedAt' = fetchNow
    /\ outcome' = "ok"
    /\ Released
    /\ accepted' =
           IF \E v \in Verifiers : verifier[v].at = "fetch" /\ verifier[v].kid \in fetch.keys
           THEN [age |-> 0, outcome |-> "ok"] ELSE accepted
    /\ UNCHANGED <<fetcher, fetchNow, published, rotations, lastRefetchAt, lastStart>>

\* Whatever fails, every waiting caller is denied and the cache stays.
FetchFails ==
    /\ fetch # NoFetch
    /\ fetch' = NoFetch
    /\ outcome' = "failed"
    /\ Released
    /\ UNCHANGED <<fetcher, fetchNow, published, rotations, cacheVars, lastRefetchAt, lastStart, accepted>>

FetchNext ==
    \/ \E v \in Verifiers, kid \in Kids : FromCache(v, kid) \/ AwaitFetch(v, kid)
    \/ \E keys \in SUBSET Kids : Rotate(keys)
    \/ IssuerAnswers \/ Fetched \/ FetchFails \/ FetchTick

FetchSpec == (\E c \in FetchConfigs : FetchInit(c)) /\ [][FetchNext]_fetchVars

-----------------------------------------------------------------------------
\* Properties

\* The document fetcher starts its fetches at least one cooldown apart,
\* whatever the callers ask for and however the issuer fails (ssrf/index.mjs
\* :190-194), and so does the JWKS cache from its first success on.  Before
\* that nothing spaces the JWKS fetches: see OneFetchPerCooldown.
FetchesSpaced ==
    [][fetch = NoFetch /\ fetch' # NoFetch /\ lastStart # 0 /\ (fetchedAt # 0 \/ fetcher.kind = "document")
       => fetchNow - lastStart >= fetcher.cooldown]_fetchVars

\* What the JWT verifier says of itself (auth-jwt/index.mjs:355-360): one rule
\* governs "stale cache, empty cache, and unknown kid", so that no flood "can
\* exceed one JWKS fetch per cooldown, even when the cache is stale or the IdP
\* is failing".  The code violates it: :366 skips the cooldown while the cache
\* is empty.
OneFetchPerCooldown ==
    [][fetch = NoFetch /\ fetch' # NoFetch /\ lastStart # 0
       => fetchNow - lastStart >= fetcher.cooldown]_fetchVars

\* With a cooldown no longer than the TTL, a key older than the TTL is handed
\* out only while the latest fetch has failed or is still under way: a key the
\* issuer withdrew does not outlive a fetch that worked.
StaleOnlyUnrefreshed ==
    fetcher.cooldown <= fetcher.ttl /\ accepted.age > 0 /\ accepted.age >= fetcher.ttl
        => accepted.outcome \in {"inflight", "failed"}
=============================================================================
