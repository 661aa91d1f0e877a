---------------------------- MODULE OidcSessions ----------------------------
(***************************************************************************)
(* The OIDC session broker of the dashboard (satellites/auth-oidc):        *)
(* login, callback, logout, the guard authenticate(), and the silent       *)
(* renewal of a session with its refresh token.  One Node process serves   *)
(* several requests; a handler runs without interruption up to an await.   *)
(*                                                                         *)
(* A login is its pre-auth id: state, nonce and verifier are drawn with it *)
(* and are as unique.  The in-memory session store hands out the session   *)
(* object itself, so a refresh goes on holding an object whose id has left *)
(* the store: session is the object, stored the ids the store still maps.  *)
(* Awaits that only touch a handler's own values (DNS, the token request,  *)
(* the ID token's signature) are one step whose outcome is chosen.         *)
(* Rate limiting is in module RateLimiters; here it is a refusal.          *)
(***************************************************************************)
EXTENDS Naturals, FiniteSets

CONSTANTS
    Subjects,     \* users the identity provider knows
    OidcConfigs,  \* configurations of the broker
    MaxAtOnce,    \* bound: requests at work at the same time
    MaxLogins,    \* bound: pre-auth ids drawn
    MaxSessions,  \* bound: session ids drawn
    MaxOidcTime,  \* bound: clock ticks
    MaxVisits     \* bound: requests received

\* What normalizeOidcConfig lets through: positive lifetimes and capacity.
OidcConfig(c) ==
    /\ c.enableRefresh \in BOOLEAN
    /\ \A n \in {c.sessionTtl, c.idleTtl, c.refreshMaxLifetime, c.pendingTtl, c.pendingCap} :
           n \in Nat \ {0}

ASSUME OidcAssumption ==
    /\ \A c \in OidcConfigs : OidcConfig(c)
    /\ \A n \in {MaxAtOnce, MaxLogins, MaxSessions, MaxOidcTime, MaxVisits} : n \in Nat

\* Requests, logins and sessions are numbered in the order they are used.
Visits == 1..MaxAtOnce
Logins == 1..MaxLogins
Sessions == 1..MaxSessions

VARIABLES
    oidcConfig,   \* the broker's configuration
    oidcNow,      \* now()
    discovery,    \* discovery and discoveryInflight: "none", "inflight" or "ready"
    pending,      \* login -> expiry of its record in the pending store, 0 when absent
    logins,       \* number of pre-auth ids drawn
    session,      \* session id -> the session object once it was made
    stored,       \* session ids the session store maps
    refreshInflight, \* session id -> the refresh under way
    visit,        \* request -> where its handler waits
    visits,       \* requests received
    ended,        \* history: sessions logged out or evicted
    lastServed    \* history: session -> arrival of the latest request it authenticated

oidcVars == <<oidcConfig, oidcNow, discovery, pending, logins, session, stored,
              refreshInflight, visit, visits, ended, lastServed>>

Idle == [at |-> "idle"]
NoRefresh == [at |-> "none"]
NoSession == [at |-> "none"]

OidcInit(c) ==
    /\ oidcConfig = c
    /\ oidcNow = 1
    /\ discovery = "none"
    /\ pending = [l \in Logins |-> 0]
    /\ logins = 0
    /\ session = [s \in Sessions |-> NoSession]
    /\ stored = {}
    /\ refreshInflight = [s \in Sessions |-> NoRefresh]
    /\ visit = [q \in Visits |-> Idle]
    /\ visits = 0
    /\ ended = {}
    /\ lastServed = [s \in Sessions |-> 0]

sessionVars == <<session, stored, refreshInflight, ended, lastServed>>
loginVars == <<discovery, pending, logins>>

OidcTick ==
    /\ oidcNow < MaxOidcTime
    /\ oidcNow' = oidcNow + 1
    /\ UNCHANGED <<oidcConfig, loginVars, sessionVars, visit, visits>>

\* A request reaches its handler, which runs to its first await.
Arrives(q) ==
    /\ visit[q] = Idle /\ \A p \in 1..(q - 1) : visit[p] # Idle
    /\ visits < MaxVisits
    /\ visits' = visits + 1
    /\ UNCHANGED <<oidcConfig, oidcNow>>

\* The handler of q goes on after an await.
Resumes(q, at) ==
    /\ visit[q].at = at
    /\ UNCHANGED <<oidcConfig, oidcNow, visits>>

Waits(q, w) == visit' = [visit EXCEPT ![q] = w]
Answers(q) == visit' = [visit EXCEPT ![q] = Idle]

\* Refused before any state changes: rate limit, a missing cookie or CSRF
\* header, a URL that does not parse.
Refused(q) ==
    /\ Arrives(q)
    /\ UNCHANGED <<loginVars, sessionVars, visit>>

-----------------------------------------------------------------------------
\* /auth/login

\* handleLogin up to discover(), which is cached and single-flight.
Login(q) ==
    /\ Arrives(q)
    /\ discovery' = IF discovery = "none" THEN "inflight" ELSE discovery
    /\ Waits(q, [at |-> "discover"])
    /\ UNCHANGED <<pending, logins, sessionVars>>

\* The discovery document arrives and passes its checks.
Discovered ==
    /\ discovery = "inflight"
    /\ discovery' = "ready"
    /\ UNCHANGED <<oidcConfig, oidcNow, pending, logins, sessionVars, visit, visits>>

\* The fetch is blocked, fails or is refused: every login that waits gets 503,
\* and the next one fetches again.
DiscoveryFails ==
    /\ discovery = "inflight"
    /\ discovery' = "none"
    /\ visit' = [q \in Visits |-> IF visit[q].at = "discover" THEN Idle ELSE visit[q]]
    /\ UNCHANGED <<oidcConfig, oidcNow, pending, logins, sessionVars, visits>>

\* pendingStore.set prunes what has expired and keeps to its cap.
PendingAfterPrune == [l \in Logins |-> IF pending[l] <= oidcNow THEN 0 ELSE pending[l]]
PendingHasRoom ==
    Cardinality({l \in Logins : PendingAfterPrune[l] # 0}) < oidcConfig.pendingCap

\* The rest of handleLogin: draw the ids, store the record, or answer 429.
StorePending(q) ==
    /\ Resumes(q, "discover")
    /\ discovery = "ready"
    /\ logins < MaxLogins
    /\ logins' = logins + 1
    /\ pending' = [PendingAfterPrune EXCEPT
           ![logins'] = IF PendingHasRoom THEN oidcNow + oidcConfig.pendingTtl ELSE 0]
    /\ Answers(q)
    /\ UNCHANGED <<discovery, sessionVars>>

-----------------------------------------------------------------------------
\* /auth/callback

\* Mutant: the record stays in the store until the session is made.
TakeAndKeep(l) == pending

\* pendingStore.take: read and delete in one turn.
Take(l) == [pending EXCEPT ![l] = 0]

\* handleCallback up to the token request: cookie l, state parameter st, and
\* the code the provider gave to login c for user u.
Callback(q, l, st, c, u) ==
    /\ Arrives(q)
    /\ pending' = Take(l)
    /\ IF pending[l] > oidcNow /\ st = l
       THEN \/ Waits(q, [at |-> "exchange", login |-> l, code |-> c, subject |-> u])
            \/ UNCHANGED visit    \* another issuer, or no code
       ELSE UNCHANGED visit
    /\ UNCHANGED <<discovery, logins, sessionVars>>

NewSession(q, s, renewable) ==
    [at |-> "made", login |-> visit[q].login, subject |-> visit[q].subject,
     createdAt |-> oidcNow, lastSeen |-> oidcNow, gen |-> 0,
     renewable |-> renewable, originalCreatedAt |-> oidcNow]

\* exchangeCode, the verification of the ID token against the login's nonce,
\* its audience and age, and buildExternalIdentity succeed; a session without
\* a refresh token is stored, one with a token waits for its encryption.
Exchanged(q) ==
    /\ Resumes(q, "exchange")
    /\ visit[q].code = visit[q].login
    /\ \E s \in Sessions, hasToken \in BOOLEAN :
           /\ s = Cardinality({r \in Sessions : session[r] # NoSession}) + 1
           /\ LET renewable == oidcConfig.enableRefresh /\ hasToken IN
              /\ session' = [session EXCEPT ![s] = NewSession(q, s, renewable)]
              /\ IF renewable
                 THEN Waits(q, [at |-> "seal", session |-> s]) /\ UNCHANGED stored
                 ELSE Answers(q) /\ stored' = stored \cup {s}
    /\ UNCHANGED <<loginVars, refreshInflight, ended, lastServed>>

\* encryptRefreshToken settles and sessionStore.set runs.
Sealed(q) ==
    /\ Resumes(q, "seal")
    /\ stored' = stored \cup {visit[q].session}
    /\ Answers(q)
    /\ UNCHANGED <<loginVars, session, refreshInflight, ended, lastServed>>

\* Any failure after the record was taken: the generic 401.
CallbackDenied(q) ==
    /\ Resumes(q, visit[q].at)
    /\ visit[q].at \in {"exchange", "seal"}
    /\ Answers(q)
    /\ UNCHANGED <<loginVars, sessionVars>>

-----------------------------------------------------------------------------
\* The session store: destroySessionSync, and evictSession up to its hash

Destroy(s) ==
    /\ stored' = stored \ {s}
    /\ ended' = ended \cup {s}

\* /auth/logout: the hash for the audit event is awaited before the session
\* goes; a session already gone leaves nothing to wait for.
Logout(q, s) ==
    /\ Arrives(q)
    /\ IF s \in stored
       THEN Waits(q, [at |-> "logout", session |-> s]) /\ UNCHANGED sessionVars
       ELSE UNCHANGED visit /\ Destroy(s) /\ UNCHANGED <<session, refreshInflight, lastServed>>
    /\ UNCHANGED loginVars

LoggedOut(q) ==
    /\ Resumes(q, "logout")
    /\ Destroy(visit[q].session)
    /\ Answers(q)
    /\ UNCHANGED <<loginVars, session, refreshInflight, lastServed>>

\* sessionIdHash rejects: the handler fails and the session stays.
LogoutFails(q) ==
    /\ Resumes(q, "logout")
    /\ Answers(q)
    /\ UNCHANGED <<loginVars, sessionVars>>

-----------------------------------------------------------------------------
\* authenticate(req), up to its first await

IdleExpiry(s) == session[s].lastSeen + oidcConfig.idleTtl
AbsoluteExpiry(s) == session[s].createdAt + oidcConfig.sessionTtl
Ceiling(s) == session[s].originalCreatedAt + oidcConfig.refreshMaxLifetime
RenewalWindow == (oidcConfig.sessionTtl + 3) \div 4   \* a quarter, rounded up

Served(s, t) == lastServed' = [lastServed EXCEPT ![s] = IF t > @ THEN t ELSE @]

\* Idle or past its absolute expiry: evicted.
AuthenticateExpired(q, s) ==
    /\ Arrives(q)
    /\ s \in stored
    /\ oidcNow >= IdleExpiry(s) \/ oidcNow >= AbsoluteExpiry(s)
    /\ Destroy(s)
    /\ UNCHANGED <<loginVars, session, refreshInflight, lastServed, visit>>

InRenewalWindow(s) ==
    /\ oidcNow < IdleExpiry(s) /\ oidcNow < AbsoluteExpiry(s)
    /\ session[s].renewable
    /\ oidcNow >= AbsoluteExpiry(s) - RenewalWindow

\* refreshSingleFlight: join the refresh under way, or start performRefresh,
\* which evicts a session at its ceiling before it asks for anything.
AuthenticateRenewing(q, s) ==
    /\ Arrives(q)
    /\ s \in stored
    /\ InRenewalWindow(s)
    /\ IF refreshInflight[s] = NoRefresh /\ oidcNow >= Ceiling(s)
       THEN Destroy(s) /\ UNCHANGED <<refreshInflight, visit>>
       ELSE /\ refreshInflight' = [refreshInflight EXCEPT ![s] =
                   IF @ = NoRefresh THEN [at |-> "grant", t |-> oidcNow, gen |-> session[s].gen]
                                    ELSE @]
            /\ Waits(q, [at |-> "refresh", session |-> s, t |-> oidcNow])
            /\ UNCHANGED <<stored, ended>>
    /\ UNCHANGED <<loginVars, session, lastServed>>

\* A live session: lastSeen moves, in the turn that read it.
Authenticate(q, s) ==
    /\ Arrives(q)
    /\ s \in stored
    /\ oidcNow < IdleExpiry(s) /\ oidcNow < AbsoluteExpiry(s) /\ ~InRenewalWindow(s)
    /\ session' = [session EXCEPT ![s].lastSeen = oidcNow]
    /\ Served(s, oidcNow)
    /\ UNCHANGED <<loginVars, stored, refreshInflight, ended, visit>>

-----------------------------------------------------------------------------
\* performRefresh

Joined(s) == {q \in Visits : visit[q].at = "refresh" /\ visit[q].session = s}
Release(s) == visit' = [q \in Visits |-> IF q \in Joined(s) THEN Idle ELSE visit[q]]

\* Every failure evicts and denies all who joined: discovery, decryption, the
\* grant, the ID token, another subject, the encryption of a rotated token.
RefreshFails(s) ==
    /\ refreshInflight[s].at \in {"grant", "rotate"}
    /\ Destroy(s)
    /\ refreshInflight' = [refreshInflight EXCEPT ![s] = NoRefresh]
    /\ Release(s)
    /\ UNCHANGED <<oidcConfig, oidcNow, loginVars, session, lastServed, visits>>

\* Mutant: the renewed subject is not compared with the pinned one.
SameSubjectNever(s, u) == TRUE

\* ANTI-SWAP: the renewed ID token names the session's own subject.
SameSubject(s, u) == u = session[s].subject

\* Mutant: the session is saved without asking the store whether it lives.
ResurrectionAllowed(s) == TRUE

\* RESURRECTION GUARD: the store still maps the id to the same generation.
ResurrectionGuard(s) == s \in stored /\ session[s].gen = refreshInflight[s].gen

\* The end of performRefresh, in one turn: set, unless the session is gone.
Commit(s, object) ==
    IF ResurrectionGuard(s)
    THEN /\ session' = [session EXCEPT ![s] = [object EXCEPT !.gen = @ + 1]]
         /\ stored' = stored \cup {s}
         /\ refreshInflight' = [refreshInflight EXCEPT ![s].at = "report"]
         /\ UNCHANGED visit
    ELSE /\ session' = [session EXCEPT ![s] = object]
         /\ refreshInflight' = [refreshInflight EXCEPT ![s] = NoRefresh]
         /\ Release(s)
         /\ UNCHANGED stored

\* The grant and the verification succeed for user u.  createdAt and lastSeen
\* of the live object become the time the refresh started; a rotated token is
\* encrypted before the commit.
Refreshed(s, u) ==
    /\ refreshInflight[s].at = "grant"
    /\ SameSubject(s, u)
    /\ LET t == refreshInflight[s].t
           renewed == [session[s] EXCEPT !.createdAt = t, !.lastSeen = t]
       IN  \/ Commit(s, [renewed EXCEPT !.subject = u])
           \/ /\ session' = [session EXCEPT ![s] = renewed]
              /\ refreshInflight' =
                     [refreshInflight EXCEPT ![s] = [at |-> "rotate", t |-> t, gen |-> @.gen,
                                                     subject |-> u]]
              /\ UNCHANGED <<stored, visit>>
    /\ UNCHANGED <<oidcConfig, oidcNow, loginVars, ended, lastServed, visits>>

Rotated(s) ==
    /\ refreshInflight[s].at = "rotate"
    /\ Commit(s, [session[s] EXCEPT !.subject = refreshInflight[s].subject])
    /\ UNCHANGED <<oidcConfig, oidcNow, loginVars, ended, lastServed, visits>>

\* The hash for the audit event settles; all who joined are authenticated.
RefreshReported(s) ==
    /\ refreshInflight[s].at = "report"
    /\ refreshInflight' = [refreshInflight EXCEPT ![s] = NoRefresh]
    /\ lastServed' = [lastServed EXCEPT ![s] =
           CHOOSE t \in {@} \cup {visit[q].t : q \in Joined(s)} :
               \A u \in {@} \cup {visit[q].t : q \in Joined(s)} : u <= t]
    /\ Release(s)
    /\ UNCHANGED <<oidcConfig, oidcNow, loginVars, session, stored, visits, ended>>

-----------------------------------------------------------------------------
OidcHandler(q) ==
    \/ Refused(q) \/ Login(q) \/ StorePending(q)
    \/ \E l, st, c \in 1..logins, u \in Subjects : Callback(q, l, st, c, u)
    \/ Exchanged(q) \/ Sealed(q) \/ CallbackDenied(q)
    \/ \E s \in stored \cup ended :    \* ids that browsers hold
           \/ Logout(q, s)
           \/ AuthenticateExpired(q, s) \/ AuthenticateRenewing(q, s) \/ Authenticate(q, s)
    \/ LoggedOut(q) \/ LogoutFails(q)

OidcRefresh(s) ==
    \/ RefreshFails(s) \/ Rotated(s) \/ RefreshReported(s)
    \/ \E u \in Subjects : Refreshed(s, u)

OidcNext ==
    \/ \E q \in Visits : OidcHandler(q)
    \/ \E s \in Sessions : OidcRefresh(s)
    \/ Discovered \/ DiscoveryFails \/ OidcTick

OidcSpec == (\E c \in OidcConfigs : OidcInit(c)) /\ [][OidcNext]_oidcVars

-----------------------------------------------------------------------------
\* Properties

Made(s) == session[s] # NoSession

\* A session that was logged out or evicted never authenticates again: no
\* refresh that was waiting for the provider, and no request in flight, puts
\* it back into the store (auth-oidc/index.mjs:1524-1530).
EndedStaysEnded == ended \cap stored = {}

\* A login record opens at most one session, however many callbacks carry its
\* cookie and however they overlap (auth-oidc/index.mjs:147-149).
LoginUsedOnce ==
    \A r, s \in Sessions : Made(r) /\ Made(s) /\ session[r].login = session[s].login => r = s

\* Whatever the provider answers to a refresh, a session stays with the user
\* who logged in (auth-oidc/index.mjs:1488-1512).
SubjectPinned ==
    [][\A s \in Sessions : Made(s) => Made(s)' /\ session'[s].subject = session[s].subject]_oidcVars

\* refreshMaxLifetimeSeconds as auth-oidc/index.mjs:510-512 states it: "the
\* ABSOLUTE hard ceiling on total session age across all silent refreshes. No
\* refresh may extend a session beyond originalCreatedAt +
\* refreshMaxLifetimeSeconds".
CeilingIsAbsolute ==
    \A s \in Sessions : Made(s) /\ session[s].renewable => lastServed[s] < Ceiling(s)
=============================================================================
