---------------------------- MODULE RateLimiters ----------------------------
(***************************************************************************)
(* The fixed-window rate limiters: the gateway's in-memory one             *)
(* (cli/runtime.mjs, "runtime"), those of the dashboard and of the OIDC    *)
(* broker ("local"), and the shared limiter of satellites/ratelimit-redis  *)
(* over its in-memory store ("memory") or over Redis ("redis"), where a    *)
(* hit is sent at one time and counted at a later one, if at all, and the  *)
(* replicas' clocks differ.                                                *)
(***************************************************************************)
EXTENDS Naturals, Sequences, FiniteSets

CONSTANTS
    LimitKeys,       \* identities or addresses
    LimiterConfigs,  \* [kind, limit, window, maxKeys]
    MaxLimiterTime,  \* bound: clock ticks
    MaxHits,         \* bound: allow() calls
    MaxSkew,         \* how far a replica's clock may be off
    MaxSentHits      \* bound: hits on their way to Redis at a time

\* A positive limit and window; maxKeys is the sweep threshold or the key cap.
LimiterConfig(c) ==
    /\ c.kind \in {"runtime", "local", "memory", "redis"}
    /\ \A n \in {c.limit, c.window, c.maxKeys} : n \in Nat \ {0}

ASSUME LimiterAssumption ==
    /\ \A c \in LimiterConfigs : LimiterConfig(c)
    /\ MaxLimiterTime \in Nat /\ MaxHits \in Nat /\ MaxSkew \in Nat /\ MaxSentHits \in Nat

VARIABLES
    limiter,      \* the configuration
    limiterNow,   \* the time
    windows,      \* key -> its slot [start, count]; count 0 for none
    inserted,     \* the keys of the in-memory map, oldest first
    counters,     \* Redis: key and bucket -> [count, expires]
    sent,         \* Redis: hits on their way
    hits,
    chargedAt,    \* history: key -> times of the calls charged to the budget: those that were
                  \* allowed, and those counted within the limit whose answer was lost
    refusedAt,    \* history: key -> times of the calls that were refused
    evicted,      \* history: keys whose live window was dropped
    strayHits     \* history: keys with a hit counted before or after its bucket

limiterVars == <<limiter, limiterNow, windows, inserted, counters, sent, hits,
                 chargedAt, refusedAt, evicted, strayHits>>

NoSlot == [start |-> 0, count |-> 0]
NoCounter == [count |-> 0, expires |-> 0]
Bucket(t) == t \div limiter.window

LimiterInit(c) ==
    /\ limiter = c
    /\ limiterNow = 0
    /\ windows = [k \in LimitKeys |-> NoSlot]
    /\ inserted = <<>>
    /\ counters = [k \in LimitKeys |-> [b \in 0..MaxLimiterTime |-> NoCounter]]
    /\ sent = {}
    /\ hits = 0
    /\ chargedAt = [k \in LimitKeys |-> <<>>]
    /\ refusedAt = [k \in LimitKeys |-> {}]
    /\ evicted = {}
    /\ strayHits = {}

LimiterTick ==
    /\ limiterNow < MaxLimiterTime
    /\ limiterNow' = limiterNow + 1
    /\ UNCHANGED <<limiter, windows, inserted, counters, sent, hits, chargedAt, refusedAt, evicted, strayHits>>

AllowCalled ==
    /\ hits < MaxHits
    /\ hits' = hits + 1
    /\ UNCHANGED <<limiter, limiterNow>>

\* A call made at t was found within the limit or not, and its caller told.
Verdict(k, t, ok, heard) ==
    /\ chargedAt' = IF ok THEN [chargedAt EXCEPT ![k] = Append(@, t)] ELSE chargedAt
    /\ refusedAt' = IF ok \/ ~heard THEN refusedAt ELSE [refusedAt EXCEPT ![k] = @ \cup {t}]

-----------------------------------------------------------------------------
\* The two in-memory limiters: a window starts with the first call.

Elapsed(slot) == slot.count = 0 \/ limiterNow - slot.start >= limiter.window
InMap(k) == \E i \in 1..Len(inserted) : inserted[i] = k

\* Mutant: the sweep drops the oldest entry whatever its age.
SweepOldest == IF Len(inserted) < limiter.maxKeys THEN {} ELSE {inserted[1]}

\* sweepExpired at the threshold: the oldest entry (a budget of one), if its
\* window is over.
SweepExpired ==
    IF Len(inserted) < limiter.maxKeys THEN {} ELSE {x \in {inserted[1]} : Elapsed(windows[x])}

\* prune, for a key not in the map: what has expired, then the oldest entries
\* until there is room.
Prune(k) ==
    LET live == SelectSeq(inserted, LAMBDA x : ~Elapsed(windows[x]))
        over == IF Len(live) >= limiter.maxKeys THEN Len(live) - limiter.maxKeys + 1 ELSE 0
    IN  IF InMap(k) THEN {}
        ELSE {inserted[i] : i \in 1..Len(inserted)} \ {live[i] : i \in (over + 1)..Len(live)}

Dropped(k) == IF limiter.kind = "runtime" THEN SweepExpired ELSE Prune(k)

\* allow(key) of the in-memory limiters.
AllowInMemory(k) ==
    /\ limiter.kind \in {"runtime", "local"}
    /\ AllowCalled
    /\ LET gone == Dropped(k)
           kept == [x \in LimitKeys |-> IF x \in gone THEN NoSlot ELSE windows[x]]
           order == SelectSeq(inserted, LAMBDA x : x \notin gone)
           slot == kept[k]
           ok == Elapsed(slot) \/ slot.count < limiter.limit
       IN  /\ windows' = [kept EXCEPT ![k] =
                  IF Elapsed(slot) THEN [start |-> limiterNow, count |-> 1]
                  ELSE [start |-> slot.start, count |-> IF ok THEN slot.count + 1 ELSE slot.count]]
           /\ inserted' = IF InMap(k) /\ k \notin gone THEN order ELSE Append(order, k)
           /\ Verdict(k, limiterNow, ok, TRUE)
           /\ evicted' = evicted \cup {x \in gone : ~Elapsed(windows[x])}
    /\ UNCHANGED <<counters, sent, strayHits>>

-----------------------------------------------------------------------------
\* createSharedRateLimiter: allowed iff the counter of the bucket is in limit

\* createMemoryStore.hit
AllowMemoryStore(k) ==
    /\ limiter.kind = "memory"
    /\ AllowCalled
    /\ LET bucket == Bucket(limiterNow)
           count == IF windows[k].count = 0 \/ windows[k].start # bucket THEN 1
                    ELSE windows[k].count + 1
       IN  /\ windows' = [windows EXCEPT ![k] = [start |-> bucket, count |-> count]]
           /\ Verdict(k, limiterNow, count <= limiter.limit, TRUE)
    /\ UNCHANGED <<inserted, counters, sent, evicted, strayHits>>

\* Date.now() of some replica.
ReplicaTimes == {t \in 0..MaxLimiterTime : t <= limiterNow + MaxSkew /\ limiterNow <= t + MaxSkew}

\* createRedisStore.hit: the bucket is computed here, by the replica's clock;
\* the script runs later, by the clock of Redis.
SendHit(k) ==
    /\ limiter.kind = "redis"
    /\ Cardinality(sent) < MaxSentHits
    /\ AllowCalled
    /\ \E t \in ReplicaTimes :
           sent' = sent \cup {[key |-> k, at |-> t, id |-> hits, heard |-> TRUE]}
    /\ UNCHANGED <<windows, inserted, counters, chargedAt, refusedAt, evicted, strayHits>>

\* eval() rejects, so allow() throws; the script may have run or may yet run
\* (CountHit of a hit nobody hears), or not (HitLost).
HitRejected(m) ==
    /\ m.heard
    /\ sent' = (sent \ {m}) \cup {[m EXCEPT !.heard = FALSE]}
    /\ UNCHANGED <<limiter, limiterNow, windows, inserted, counters, hits, chargedAt, refusedAt, evicted, strayHits>>

HitLost(m) ==
    /\ ~m.heard
    /\ sent' = sent \ {m}
    /\ UNCHANGED <<limiter, limiterNow, windows, inserted, counters, hits, chargedAt, refusedAt, evicted, strayHits>>

\* FIXED_WINDOW_SCRIPT: INCR, and PEXPIRE on the first hit.
CountHit(m) ==
    /\ sent' = sent \ {m}
    /\ LET bucket == Bucket(m.at)
           old == counters[m.key][bucket]
           gone == old.count = 0 \/ limiterNow >= old.expires
           count == IF gone THEN 1 ELSE old.count + 1
       IN  /\ counters' = [counters EXCEPT ![m.key][bucket] =
                  [count |-> count, expires |-> IF gone THEN limiterNow + limiter.window ELSE old.expires]]
           /\ Verdict(m.key, m.at, count <= limiter.limit, m.heard)
           /\ strayHits' = IF Bucket(limiterNow) # bucket THEN strayHits \cup {m.key} ELSE strayHits
    /\ UNCHANGED <<limiter, limiterNow, windows, inserted, hits, evicted>>

LimiterNext ==
    \/ \E k \in LimitKeys : AllowInMemory(k) \/ AllowMemoryStore(k) \/ SendHit(k)
    \/ \E m \in sent : CountHit(m) \/ HitRejected(m) \/ HitLost(m)
    \/ LimiterTick

LimiterSpec == (\E c \in LimiterConfigs : LimiterInit(c)) /\ [][LimiterNext]_limiterVars

-----------------------------------------------------------------------------
\* Properties

\* Calls charged to k at times that satisfy P.
CountCharged(k, P(_)) == Cardinality({i \in 1..Len(chargedAt[k]) : P(chargedAt[k][i])})

\* The budget holds at every edge of a window.  In memory no span of one
\* window sees more than twice the limit: the gateway's sweep drops no live
\* window, the key cap of the others may, for that key.  A bucket of the shared
\* limiter is charged no more than the limit, unless a hit of the key was
\* counted outside its bucket: late, or early for a replica's clock is ahead
\* (its counter may then expire within the bucket).  And nobody is refused for
\* nothing: a refused key was charged the full limit within one window of the
\* refusal, though an answer that was lost may have cost some of it.
BudgetKept ==
    \A k \in LimitKeys :
        /\ IF limiter.kind \in {"runtime", "local"}
           THEN limiter.kind = "runtime" \/ k \notin evicted =>
                    \A i \in 1..Len(chargedAt[k]) :
                        i + 2 * limiter.limit <= Len(chargedAt[k]) =>
                            chargedAt[k][i + 2 * limiter.limit] - chargedAt[k][i] >= limiter.window
           ELSE k \notin strayHits =>
                    \A b \in 0..MaxLimiterTime :
                        CountCharged(k, LAMBDA t : Bucket(t) = b) <= limiter.limit
        /\ \A r \in refusedAt[k] :
               CountCharged(k, LAMBDA t : t < r + limiter.window /\ r < t + limiter.window) >= limiter.limit
=============================================================================
