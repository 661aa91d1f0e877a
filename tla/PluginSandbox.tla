---------------------------- MODULE PluginSandbox ----------------------------
(***************************************************************************)
(* A signed auth plugin behind its sandbox: a worker thread                *)
(* (packages/plugin/sandbox.mjs) or a child process (process-sandbox.mjs). *)
(* authenticate() calls take turns; each sends its credential to the       *)
(* plugin under a fresh correlation id and waits for the reply, a timeout  *)
(* or the plugin's death.  A timeout or a crash ends the plugin, the next  *)
(* call starts it again after the whole load gate has run again.           *)
(*                                                                         *)
(* A call is its correlation id.  The claims a plugin returns matter only  *)
(* by the call they answer, the gate (loadAndVerifyPlugin) by its verdict, *)
(* and a plugin that exits cleanly by its silence.  Replies already sent   *)
(* are delivered even if their sender has been killed meanwhile.           *)
(***************************************************************************)
EXTENDS Naturals, Sequences, FiniteSets

CONSTANTS
    MaxAuthCalls,    \* bound: authenticate() calls
    SandboxConfigs,  \* configurations of the provider
    MaxSandboxTime,  \* bound: clock ticks
    MaxReplies       \* bound: replies on the wire at a time

\* The constructor's checks.
SandboxConfig(c) ==
    /\ c.runtime \in {"worker", "process"}
    /\ c.keyMaterial \in BOOLEAN /\ (c.keyMaterial => c.runtime = "process")
    /\ c.maxPendingCalls \in Nat \ {0}
    /\ c.respawnMaxKills \in Nat \ {0} /\ c.respawnWindow \in Nat \ {0}

ASSUME SandboxAssumption ==
    /\ \A c \in SandboxConfigs : SandboxConfig(c)
    /\ MaxAuthCalls \in Nat /\ MaxSandboxTime \in Nat /\ MaxReplies \in Nat

AuthCalls == 1..MaxAuthCalls   \* numbered as they arrive
NoCall == 0

VARIABLES
    sandbox,      \* the configuration
    sandboxNow,   \* now()
    ready,        \* the conformance gate: "running", "passed" or "failed"
    plugin,       \* number of the live worker or child, 0 for none
    spawned,      \* workers or children started so far
    sandboxClosed,
    line,         \* calls in the serialization chain; the head is in roundTrip
    callAt,       \* call -> where it is
    awaiting,     \* the keys of the pending map
    asked,        \* requests the live plugin has received
    replies,      \* replies on their way to the host
    killTimes, breakerTripped,
    granted       \* history: call -> the call whose claims became its identity

sandboxVars == <<sandbox, sandboxNow, ready, plugin, spawned, sandboxClosed, line, callAt,
                 awaiting, asked, replies, killTimes, breakerTripped, granted>>

\* The worker starts at construction, the child with the first call.
SandboxInit(c) ==
    /\ sandbox = c
    /\ sandboxNow = 0
    /\ ready = "running"
    /\ plugin = IF c.runtime = "worker" THEN 1 ELSE 0
    /\ spawned = plugin
    /\ sandboxClosed = FALSE
    /\ line = <<>>
    /\ callAt = [k \in AuthCalls |-> "new"]
    /\ awaiting = {}
    /\ asked = {}
    /\ replies = {}
    /\ killTimes = <<>>
    /\ breakerTripped = FALSE
    /\ granted = [k \in AuthCalls |-> NoCall]

hostVars == <<sandbox, sandboxNow, ready, sandboxClosed>>
pluginVars == <<plugin, spawned, asked, killTimes, breakerTripped>>

\* Only the kill times of a child read the clock.
SandboxTick ==
    /\ sandbox.runtime = "process"
    /\ sandboxNow < MaxSandboxTime
    /\ sandboxNow' = sandboxNow + 1
    /\ UNCHANGED <<sandbox, ready, sandboxClosed, pluginVars, line, callAt, awaiting, replies, granted>>

At(k, where) == callAt' = [callAt EXCEPT ![k] = where]

-----------------------------------------------------------------------------
\* The factories: calls wait for the conformance run, which calls the same
\* provider itself.

\* provider.authenticate: no credential, or too many calls waiting, is a denial.
Enqueue(k) ==
    \/ At(k, "done") /\ UNCHANGED line
    \/ /\ Len(line) < sandbox.maxPendingCalls
       /\ At(k, "queued")
       /\ line' = Append(line, k)

Arrived(k) == callAt[k] = "new" /\ \A j \in 1..(k - 1) : callAt[j] # "new"

\* A vector of assertAuthProviderConformance.
Probe(k) ==
    /\ ready = "running"
    /\ Arrived(k)
    /\ Enqueue(k)
    /\ UNCHANGED <<hostVars, pluginVars, awaiting, replies, granted>>

\* The authenticate() of the synchronous factory.
SandboxAuthenticate(k) ==
    /\ Arrived(k)
    /\ At(k, "gate")
    /\ UNCHANGED <<hostVars, pluginVars, line, awaiting, replies, granted>>

PassGate(k) ==
    /\ callAt[k] = "gate"
    /\ \/ ready = "passed" /\ Enqueue(k)
       \/ ready = "failed" /\ At(k, "done") /\ UNCHANGED line
    /\ UNCHANGED <<hostVars, pluginVars, awaiting, replies, granted>>

ConformancePasses ==
    /\ ready = "running" /\ line = <<>>
    /\ ready' = "passed"
    /\ UNCHANGED <<sandbox, sandboxNow, sandboxClosed, pluginVars, line, callAt, awaiting, replies, granted>>

\* close(): the pending calls are forgotten, not settled; their timers remain.
CloseNow ==
    /\ sandboxClosed' = TRUE
    /\ plugin' = 0
    /\ asked' = {}
    /\ awaiting' = {}
    /\ UNCHANGED <<spawned, killTimes, breakerTripped>>

ConformanceFails ==
    /\ ready = "running" /\ line = <<>>
    /\ ready' = "failed"
    /\ CloseNow
    /\ UNCHANGED <<sandbox, sandboxNow, line, callAt, replies, granted>>

SandboxClose ==
    /\ ~sandboxClosed
    /\ CloseNow
    /\ UNCHANGED <<sandbox, sandboxNow, ready, line, callAt, replies, granted>>

-----------------------------------------------------------------------------
\* roundTrip

\* The call returns: queueDepth falls and the next call has its turn.
Settles(k) ==
    /\ At(k, "done")
    /\ line' = Tail(line)

DeniedNow(k) ==
    /\ Settles(k)
    /\ UNCHANGED <<hostVars, pluginVars, awaiting, replies, granted>>

\* The message goes to plugin w, with a pending entry and a timer.
Send(k, w) ==
    /\ At(k, "waiting")
    /\ awaiting' = awaiting \cup {k}
    /\ asked' = asked \cup {k}
    /\ plugin' = w
    /\ UNCHANGED <<hostVars, line, replies, killTimes, breakerTripped, granted>>

\* After ensureWorker or ensureChild: the key document is fetched first.
Dispatch(k, w) ==
    IF sandbox.keyMaterial
    THEN /\ At(k, "keys")
         /\ plugin' = w
         /\ UNCHANGED <<hostVars, line, awaiting, asked, replies, killTimes, breakerTripped, granted>>
    ELSE Send(k, w)

Turn(k) == line # <<>> /\ Head(line) = k /\ callAt[k] = "queued"

\* The plugin lives: send.  An oversized credential is denied.
TurnLive(k) ==
    /\ Turn(k)
    /\ plugin # 0
    /\ \/ Dispatch(k, plugin) /\ UNCHANGED spawned
       \/ DeniedNow(k)

\* Nothing to start: the provider is closed or its breaker has tripped.
TurnRefused(k) ==
    /\ Turn(k)
    /\ plugin = 0
    /\ sandboxClosed \/ breakerTripped
    /\ DeniedNow(k)

\* The whole gate runs again and refuses (a worker or child is not started).
GateRefuses(k) ==
    /\ Turn(k) \/ callAt[k] = "backoff"
    /\ plugin = 0 /\ ~sandboxClosed /\ ~breakerTripped
    /\ spawned # 0     \* the first start uses the construction load
    /\ DeniedNow(k)

\* A worker starts in the turn that verified it.
WorkerSpawns(k) ==
    /\ Turn(k)
    /\ sandbox.runtime = "worker"
    /\ plugin = 0 /\ ~sandboxClosed
    /\ spawned' = spawned + 1
    /\ \/ Dispatch(k, spawned + 1)
       \/ /\ plugin' = spawned + 1    \* oversized credential
          /\ Settles(k)
          /\ UNCHANGED <<hostVars, awaiting, asked, replies, killTimes, breakerTripped, granted>>

\* ensureChild: recent kills delay the start.
ChildBacksOff(k) ==
    /\ Turn(k)
    /\ sandbox.runtime = "process"
    /\ plugin = 0 /\ ~sandboxClosed /\ ~breakerTripped
    /\ killTimes # <<>>
    /\ At(k, "backoff")
    /\ UNCHANGED <<hostVars, pluginVars, line, awaiting, replies, granted>>

\* The child is spawned and the ready/load/loaded handshake begins.
ChildSpawns(k) ==
    /\ sandbox.runtime = "process"
    /\ (Turn(k) /\ killTimes = <<>>) \/ callAt[k] = "backoff"
    /\ plugin = 0 /\ ~sandboxClosed /\ ~breakerTripped
    /\ spawned' = spawned + 1
    /\ At(k, "handshake")
    /\ UNCHANGED <<hostVars, line, plugin, awaiting, asked, replies, killTimes, breakerTripped, granted>>

\* Closed, or tripped, during the backoff.
BackoffRefused(k) ==
    /\ callAt[k] = "backoff"
    /\ sandboxClosed \/ breakerTripped
    /\ DeniedNow(k)

\* Mutant: a child that is ready is taken on whatever happened meanwhile.
ChildLoadedAnyway(k) ==
    /\ callAt[k] = "handshake"
    /\ Dispatch(k, spawned) /\ UNCHANGED spawned

\* The handshake ends well; a provider closed meanwhile kills the child.
ChildLoaded(k) ==
    /\ callAt[k] = "handshake"
    /\ IF sandboxClosed
       THEN DeniedNow(k)
       ELSE \/ Dispatch(k, spawned) /\ UNCHANGED spawned
            \/ /\ plugin' = spawned   \* oversized credential
               /\ Settles(k)
               /\ UNCHANGED <<hostVars, spawned, awaiting, asked, replies, killTimes, breakerTripped, granted>>

\* It times out, the plugin fails to load or the child dies: no kill is counted.
HandshakeFails(k) ==
    /\ callAt[k] = "handshake"
    /\ DeniedNow(k)

\* keyFetcher.get() settles; the child may be gone by now, and send() throws.
KeysFetched(k) ==
    /\ callAt[k] = "keys"
    /\ IF plugin # 0 THEN Send(k, plugin) /\ UNCHANGED spawned ELSE DeniedNow(k)

KeyFetchFails(k) ==
    /\ callAt[k] = "keys"
    /\ DeniedNow(k)

-----------------------------------------------------------------------------
\* Replies, timeouts, crashes

\* The plugin answers a request: claims, a refusal (or claims the host will
\* not take), or more than maxMessageBytes.  It may answer twice.
Reply(k, kind) ==
    /\ plugin # 0
    /\ k \in asked
    /\ Cardinality(replies) < MaxReplies
    /\ replies' = replies \cup {[cid |-> k, kind |-> kind]}
    /\ UNCHANGED <<hostVars, pluginVars, line, callAt, awaiting, granted>>

\* Mutant: the reply goes to the one call that waits, whatever its id.
MatchedByOccupancy(m) == awaiting

\* The calls a reply settles: the one with its id, or, unread because it is
\* oversized, every live one.
Matched(m) == IF m.kind = "oversized" THEN awaiting ELSE awaiting \cap {m.cid}

Deliver(m) ==
    /\ m \in replies
    /\ replies' = replies \ {m}
    /\ awaiting' = awaiting \ Matched(m)
    /\ IF Matched(m) = {} THEN UNCHANGED <<line, callAt, granted>>
       ELSE LET k == CHOOSE x \in Matched(m) : TRUE IN
            /\ Settles(k)
            /\ granted' = [granted EXCEPT ![k] = IF m.kind = "claims" THEN m.cid ELSE @]
    /\ UNCHANGED <<hostVars, pluginVars>>

\* killTimes.filter
RecentKills(ts) == SelectSeq(ts, LAMBDA t : sandboxNow - t < sandbox.respawnWindow)

\* terminateWorker and terminateChild: drop the plugin, count the kill of a
\* live child, trip the breaker for good.  The caller settles the calls.
Terminate ==
    /\ plugin' = 0
    /\ asked' = {}
    /\ IF plugin # 0 /\ sandbox.runtime = "process"
       THEN /\ killTimes' = RecentKills(Append(killTimes, sandboxNow))
            /\ breakerTripped' = (breakerTripped \/ Len(killTimes') >= sandbox.respawnMaxKills)
       ELSE UNCHANGED <<killTimes, breakerTripped>>
    /\ UNCHANGED spawned

\* Mutant: the timer only ends calls that are still in the pending map.
TimesOutPending(k) ==
    /\ callAt[k] = "waiting" /\ k \in awaiting
    /\ awaiting' = {}
    /\ Terminate
    /\ Settles(k)
    /\ UNCHANGED <<hostVars, replies, granted>>

\* The call's timer, which close() leaves running.
TimesOut(k) ==
    /\ callAt[k] = "waiting"
    /\ awaiting' = {}
    /\ Terminate
    /\ Settles(k)
    /\ UNCHANGED <<hostVars, replies, granted>>

\* The live plugin dies with an error; a waiting call is denied.
PluginCrashes ==
    /\ plugin # 0
    /\ Terminate
    /\ awaiting' = {}
    /\ IF awaiting = {} THEN UNCHANGED <<line, callAt>>
       ELSE Settles(CHOOSE x \in awaiting : TRUE)
    /\ UNCHANGED <<hostVars, replies, granted>>

-----------------------------------------------------------------------------
CallProgress(k) ==
    \/ PassGate(k)
    \/ TurnLive(k) \/ TurnRefused(k) \/ GateRefuses(k) \/ WorkerSpawns(k)
    \/ ChildBacksOff(k) \/ ChildSpawns(k) \/ BackoffRefused(k)
    \/ ChildLoaded(k) \/ HandshakeFails(k) \/ KeysFetched(k) \/ KeyFetchFails(k)
    \/ TimesOut(k)

ConformanceEnds == ConformancePasses \/ ConformanceFails

SandboxNext ==
    \/ \E k \in AuthCalls : Probe(k) \/ SandboxAuthenticate(k) \/ CallProgress(k)
    \/ \E k \in AuthCalls, kind \in {"claims", "refusal", "oversized"} : Reply(k, kind)
    \/ \E m \in replies : Deliver(m)
    \/ ConformanceEnds \/ SandboxClose \/ PluginCrashes \/ SandboxTick

\* Every await of a call is bounded: its turn comes when the calls before it
\* have settled, a handshake and a reply have the timer timeoutMs, a backoff
\* and a key fetch end, and the conformance run is a finite list of calls.
SandboxFairness == (\A k \in AuthCalls : WF_sandboxVars(CallProgress(k))) /\ WF_sandboxVars(ConformanceEnds)

SandboxSpec == (\E c \in SandboxConfigs : SandboxInit(c)) /\ [][SandboxNext]_sandboxVars /\ SandboxFairness

-----------------------------------------------------------------------------
\* Properties

\* A call is only ever granted on the claims the plugin gave for that call,
\* though replies of timed-out calls and of killed plugins arrive late:
\* "distinct cids guarantee replies never cross" (plugin/sandbox.mjs:307).
OwnClaimsOnly == \A k \in AuthCalls : granted[k] \in {k, NoCall}

\* Once closed, the provider has no live plugin, and none appears later from
\* a spawn that was under way (process-sandbox.mjs:396-403).
ClosedStaysDown == sandboxClosed => plugin = 0

\* Every authenticate() returns, whatever the plugin does and whenever the
\* provider is closed.
CallsReturn == \A k \in AuthCalls : callAt[k] # "new" ~> callAt[k] = "done"
=============================================================================
