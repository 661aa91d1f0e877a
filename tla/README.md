# A TLA+ development of haechi

haechi is a privacy gateway for LLM traffic: an HTTP proxy and an MCP stdio filter
that detect personal data and secrets in JSON payloads, replace, tokenize, encrypt or
block them, and record every decision in a hash-chained audit log.  This directory
holds TLA+ modules translated from its source, TLC models of them, and TLAPS proofs.

Nothing here models cryptography, regular expressions or wire formats.  What is
modelled is the control around them: who may change which file, key or buffer, at
which await something else can come in between, and what then still holds.

## 1. Inventory

State kept by each part, its operations, how it interacts, what is hard about it and
what makes it correct.  `PROJECT.json` lists the parts with their status and the
hazards with their source lines.

| part | state | operations | interacts with | hard | correct when |
|---|---|---|---|---|---|
| audit chain (`packages/audit`) | JSONL log, anchor stream | `buildIntegrityRecord`, `writeAnchor`, `verifyAuditChain` | every sink | truncation and false alarms are both about the *pair* log/anchors | one linear chain; verifier accuses no untouched log; a cut tail is noticed |
| file audit sink (`packages/audit`) | log file, anchor file, lock file, per-process `writeQueue` | `record()` | gateway and CLI processes share the files | stale locks, torn appends, death between persist and anchor | no fork, acknowledged events readable, every call settles |
| Redis audit sink (`satellites/store-redis/audit`, `lock`) | list, head, fence, lock key | `record()` with fenced append and retries | replicas share Redis | lapsed TTL, lost replies, late commands | no fork, at most one record per event, only own lock released |
| token vault (`packages/token-vault`, `satellites/store-redis/token-vault`) | token -> record map, envelope expiry | `tokenize`, `purge`, `purgeExpired`, `reveal`, `detokenize` | proxy (both directions), CLI | whole-map rewrite, stale snapshots, deterministic reuse | no token lost or cut short before its expiry; mutations atomic |
| local keys (`packages/crypto`) | key file, reserved nonce window | `encrypt`, `decrypt`, rotation by `haechi init --force` | CLI and gateway share the file | window taken across awaits, rewrite in place | usage never under-estimated, limit kept, no key lost |
| streaming redaction (`packages/core`, `packages/stream-filter`) | held tail, tallies, flush template | `push`, `flush`, `protectText`, `protectFrameExtras`, frame loop | proxy, filter, policy | a match split over frames; head detected again on its own | output independent of framing; blocked values never leave |
| core pipeline (`packages/core`) | none between calls | `protectJson` | filter, policy, crypto, vault, audit | order of decide, transform, audit | audited before answered; hard-block types never trimmed |
| proxy (`packages/proxy`) | in-flight count, draining flag | request handler, `close()` | everything above, upstream | drain vs. last request, ceiling, failures after headers | count exact, every request decided and audited, close ends |
| MCP stdio (`packages/mcp-stdio`) | line buffers, child process | filter, wrap | core | child exit vs. pending lines | lines that were read are dealt with, the wrapper ends with the child |
| plugins (`packages/plugin`) | queue of calls, pending map, worker or child, kill times | load, verify, call, time out, respawn, `close()` | authenticates for the proxy; `packages/ssrf` fetches its keys | late and oversized answers, respawn and handshake against `close()` | claims reach only the call they answer, closed means no plugin, every call returns |
| policy, profiles, bundles | none | `buildPolicy`, `decide`, `resolve` | core | merge order | overrides only strengthen |
| auth store (`packages/auth`) | token file | add, revoke, authenticate | CLI, proxy | unlocked read-modify-write | revoked stays revoked |
| rate limiters (`cli/runtime`, `ratelimit-redis`) | windows | `allow` | proxy | window edges, sweep | at most *limit* per window |
| key fetchers (`satellites/auth-jwt`, `packages/ssrf`) | cached keys, time of the last attempt, one fetch | `resolveJwk`, `get` | proxy, OIDC broker, process sandbox | cooldown against unknown ids and failures, stale keys | spaced fetches, no stale key after a fetch that worked |
| OIDC broker (`satellites/auth-oidc`) | pending logins, sessions, single-flight refreshes, discovery | login, callback, logout, authenticate, refresh | dashboard, identity provider | refresh across awaits vs. logout and eviction, overlapping callbacks | an ended session stays ended, a login is used once, a session keeps its user |
| KMS provider | none | encrypt, decrypt | cloud KMS | | one request, its failure passed on |
| dashboard (`satellites/dashboard`) | chain cache, one walk, rate limiter | `/api/events`, `/api/chain`, `/api/summary` | audit log | log grows between pages, and between the stat and the walk | no gap unannounced, no cached answer for another file |
| filter, adapters, SSRF guard, metrics, CLI | none, or counters | string processing, wiring | | | outside TLC's reach or without state |

## 2. Modules

| module | models | composed of |
|---|---|---|
| `AuditIntegrity` | digests, records, anchors, `verifyAuditChain` as operators | |
| `AuditLog` | abstract: what `record()` promises | |
| `RedisAuditStore` | the sink over Redis | `AuditIntegrity`; implements `AuditLog` |
| `FileLock` | `withFileLock` of audit and vault (same code in both) | |
| `FileAuditSink` | the sink over files | `FileLock`, `AuditIntegrity` |
| `TokenVaultOps` | the mutations of the vault as operators on the token map | |
| `TokenMap` | abstract: what `mutate()` promises | `TokenVaultOps` |
| `RedisTokenStore` | the vault over Redis | `TokenVaultOps`; implements `TokenMap` |
| `FileTokenStore` | the vault over a file | `FileLock`, `TokenVaultOps` |
| `LocalKeys` | key file, nonce budget, rotation | |
| `StreamFilter` | stream protector, frame loop, and what the filter finds in a piece of text | |
| `Gateway` | `requestHandler`, the in-flight ceiling and `close()` of the proxy | |
| `TokenStores` | the vault over the store a deployment chose | `RedisTokenStore`, `FileTokenStore` |
| `Protection` | what the core protects payloads with | `TokenStores`, `LocalKeys`, `StreamFilter` |
| `PluginSandbox` | a plugin behind `sandbox.mjs` or `process-sandbox.mjs` | |
| `KeyFetch` | the JWKS cache and the key fetcher of the process sandbox | |
| `BearerTokens` | the bearer token file, its CLI commands and its reader | |
| `RateLimiters` | all fixed-window limiters | |
| `McpStdio` | the MCP line filter and the wrapper around a child | |
| `OidcSessions` | the OIDC session broker | |
| `DashboardReads` | `/api/events` and `/api/chain` over a growing log | |
| `EntryPoints` | `PluginSandbox` to `DashboardReads`, as the ways into the program | all seven |
| `RedisAuditStoreProofs`, `FileLockProofs`, `GatewayProofs`, `LocalKeysProofs`, `StreamFilterProofs` | theorems about the module of that name | |
| `FileAuditSinkProofs` | theorems about the file sink | `FileLockProofs` |
| `TokenStoresProofs` | theorems about the vault over either store | `FileLockProofs` |
| `EntryPointsProofs` | theorems about `KeyFetch`, `BearerTokens`, `PluginSandbox`, `OidcSessions`, `RateLimiters`, `DashboardReads` | |
| `MC...` | constants and symmetry for TLC | one per run's module |

`EntryPoints` picks, as the configuration does, the auth provider, and follows in each
behaviour one part (`entry`) while the others stand still.  These parts share no mutable state while
they run: the gateway awaits a provider's answer, the dashboard only reads
the audit file, and the broker and the limiters keep their own maps.  What two parts could do to each other
is therefore what each can do alone, and the product of their states would add nothing.
`Protection` does the same (`part`) with the vault, the keys and the stream protector, which `core` calls one after the other.

Operators commented "Mutant" are plausible wrong versions of the definition below
them.  No behaviour uses them; each is there to show that a property notices it.

### Conventions

An action is one stretch of code between two awaits.  Where the code awaits, another
process, a timer, an error or a death may come first.  A digest is modelled by the
history it commits to (event, sequence, previous digest), so equal digests mean equal
histories and nothing else about SHA-256 is assumed.  Events, tokens, key ids and
processes are model values.  Constants named `Max...` are bounds of the model unless
the comment says that the code has them; bounded things are calls made, faults, deaths
and clock ticks.

### How state and actions correspond to the code

* **RedisAuditStore.** `chain`, `head`, `headHash`, `lock` are the four Redis keys;
  `queue` is `writeQueue`; `pc` follows `record()` through `withRedisLock`, `transaction`
  and `persist`.  `AppendScript` is the Lua script, fenced on the head hash.
  `PersistError` is a rejected `eval`: the script may have run, may be lost, or stays in
  `inFlight` to be run by `LateAppend` later; `NeverAnswered` is a command whose promise never
  settles, for which the code has no timeout.  `LockExpires` may happen whenever the lock is held.
* **FileLock.** `Enter`/`Exists` are `open(path, "wx")`; `Stat` and `Break` are
  the two separate steps of the stale path, and `BreakFails` is an unlink whose rejection is
  swallowed; `Ages` is the 30 s threshold; with `HoldersMayStall`, as in both passing runs, a live
  holder may cross it too (`stalled`).  `breaks` counts the unlinks of the stale path.
* **FileAuditSink.** `file` and `anchorFile` are lines that know whether they parse and
  end in a newline; `AppendText` continues an unterminated line.  A failing or dying
  write leaves nothing, a prefix, or the whole JSON without its newline.
* **TokenVaultOps / stores.** A record has the record's and the envelope's expiry.
  `Mutation` is the function handed to `mutate()`, on a view that tracks puts and deletes.
  Redis applies a diff fenced on a version; the file store replaces the whole file.
* **LocalKeys.** `keyFile` is what the file parses to; its `text` is whole, none while it is
  truncated, or mixed, when a shorter text was written over a longer one (`Truncate`, `Fill`: each
  `writeFile` truncates when it opens the file and writes from the beginning of its own descriptor).  `reservation`
  is the window.  `TakeIndex`, `ReadUsage`, `StartWrite`, `FinishWrite` are the stretches of `consumeNonceBudget`
  and `reserveNonceWindow`.
* **StreamFilter.** The delta text is positions; `hits` says where rules match and what they need around them.
  A rule matches once `least` has arrived and grows to `end`.  A lookbehind needs the text from `needs` on; `left` and
  `right` are "edge" for a match that exists only where the text handed to the filter begins or ends there: `\b`,
  negative lookarounds, and validators that reject the longer run.  `folds` is where NFKC changes the length, so that `scanEntry`
  answers with the whole leaf.  So `Found` is what the filter finds in one piece of text, and may differ from what it finds in another
  piece that contains it.  `base` is where `pending`
  begins.  `CommitPoint` is the arithmetic of `push`; `RemoveOverlaps` is the greedy filter step,
  written as the set it computes.  Frames are control, text, or JSON with delta text,
  other leaves and possibly a terminating type.
* **Gateway.** `req[r]` is what the handler of request `r` keeps: `pc` is the await it is at,
  `out` what it has written to the client, `up` what it has sent upstream, `audit` the records it
  has written.  `out` tells the answers of the catch block ("refused") and the refusals the code never records
  ("unrecorded": the checks at the door, streaming refused with 501, an oversized answer with response protection off) from recorded
  denials, and parts of a body (`StreamFrame`, `PipeRead`) from its end.  `Fail` is the catch block and `Leave` the finally block; every early
  return goes through both of them as in the code.  A socket is closed by the client
  (`left`) or by the gateway (`cut`).  Listeners registered on a closed
  connection hear nothing (`watched`), as in Node.  `grace` stands for both
  `resolveDrained` and the grace timer, which `close()` arms together.  The outcome of
  authentication, rate limit, detection and of every audit write is a choice, so each may fail
  at any request.  `protectJson` is one step: its event is the only state it shares
  with other requests here (the vault and the sinks have modules of their own).
* **TokenStores.** `backend` is the store in use.  The two stores keep their own
  variables (those of the file are named `file...`), and the one not in use stands still.
* **PluginSandbox.** A call is its correlation id.  `line` is the promise chain that serializes calls,
  `awaiting` the pending map, `plugin` the live worker or child.  `callAt` follows a
  call through the gate, its turn, backoff, handshake, key fetch and the reply.  `Terminate` is
  `terminateWorker`/`terminateChild`, including the kill times and the breaker.  `CloseNow` clears the
  pending map without settling anything, as the code does.
* **KeyFetch.** `fetch` is `inflight`; `IssuerAnswers` and `Fetched` separate the moment the issuer's keys are
  chosen from the moment they replace the cache.  The two fetchers differ in whether they ask for a
  fetch to join or for the cooldown first, and in the cold start.
* **BearerTokens.** `ReadAuthStore` and `WriteAuthStore` are the two halves of an unlocked
  read-modify-write; `Present` and `MatchRecord` those of `authenticate()`.
* **RateLimiters.** `Dropped` is the sweep of the gateway's limiter or the pruning of the others.
  `SendHit` computes the bucket by the replica's own clock (`ReplicaTimes`, at most `MaxSkew` from that of Redis), `CountHit` is
  the script Redis runs later, and `HitRejected`/`HitLost` are an `eval` that rejects though the script has run or may run,
  or that was never run.  `chargedAt` are the hits that were counted within the limit, whether or not anybody heard of it.
* **McpStdio.** `pipe`, `queued` and `pump` are what is written, what readline has read, and the
  line a pump is protecting.  `InputBreaks` is EPIPE on the child's input, which nobody listens for.  `ChildExits` closes both readers; `Resolve` is `Promise.allSettled`.
  `mcp.requireJsonRpc`, `protectParams` and `protectResults` have their default, on.
* **OidcSessions.** `stored` is the map, `session` the objects, which a refresh goes on changing after their id has left the
  map.  `Logout`/`LoggedOut` are split by the hash that is awaited; `Refreshed`, `Rotated` and
  `RefreshReported` are the stretches of `performRefresh`; `Joined` are the requests awaiting the same promise.
* **DashboardReads.** `log` is the lengths of the records, `partial` the beginning of one that is
  being written.  `ChainGet` takes the awaited `stat` and the comparison of its result with the cache as one step: nothing but
  the log changes between them, and a log that grows then is one that grew before the stat, or during the walk.  `TailEvents` is `readTailEvents`; `walk` is the shared `inFlight`, `chainCache` the keyed result.

## 3. Runs

Bounds are as small as the interesting case allows: two writers are enough for every
race listed here (a third only repeats the role of one of them, and the proofs cover
any number), one fault is enough to tear a write, and texts of six characters hold
three matches that touch, overlap and outgrow a window of two, among them one with a lookbehind, one that
exists only at an edge, and one behind a character that NFKC expands.  In `entry_points`: two
overlapping requests at the broker (one refreshes, one logs out), two sessions and logins, and time for a session
to be renewed and to reach its ceiling; three plugin calls, so that one waits behind a
call that is pending and one arrives after a restart; three limiter hits, one more of a key than a span of a
window may see with a limit of one, with clocks one unit apart; records of one or two units in windows of three and five, so that a
window may begin inside, at, and after a record.

| run | result | shows |
|---|---|---|
| `redis_audit` | pass | no fork, no accusing anchors, conflicts paid for, implements `AuditLog`, every call settles unless its own replica awaits a command that is never answered; 2 replicas, 2 events, 2 faults, 1 crash |
| `file_audit` | pass | exclusion until one stale break too many, damage only at the tail, acknowledged events readable, truncation caught, no false alarm, every call settles unless unlinking a stale lock fails for ever; 2 processes, 3 events, 1 fault or death, holders that stall |
| `file_audit_fork` | violation | the audit comment "never forked under concurrency" fails after one dead holder: two waiters see its lock file, the second unlinks the first one's |
| `protection` | pass | *vault:* over Redis no token lost or cut short, implements `TokenMap`; over the file none lost or cut short while the lock is intact; 2 replicas or processes, 2 tokens, 3 calls, 1 fault.  *keys:* budget covers sequential use, per-process limit, keys kept under live rotation; limit 3 with window 2, so that the last window is short.  *streams:* framing does not change the output, blocked values never leave, counts exact, as long as no head is cut off in the context of a match; tail before terminator; texts of 6 characters with 3 matches, both modes.  1.4 million states, 3 minutes |
| `keys_undercount` | violation | "never an under-estimate" fails when two `encrypt()` calls exhaust a window together |
| `redis_vault_envelope` | violation | a reused deterministic token outlives the envelope that holds its value |
| `stream_split` | violation | "a detection split across chunk boundaries is caught before the leading part is emitted" fails for a rule with a lookbehind: `push` emits the text the lookbehind needs, and what is left no longer shows the match |
| `gateway` | pass | count exact and below the ceiling; nothing forwarded, no recorded kind of denial, no byte in the clear and no end of a protected answer sent before its record; a draining `close()` cuts no working request early and ends, a client that leaves ends its pipe; 2 requests, 4 configurations that cover every streaming and response mode, with a ceiling of one and without |
| `gateway_gone` | violation | the resolution of CR2-001, "backpressure waits unpark on disconnect", fails when the client left before the pipe registered its listeners |
| `entry_points` | pass | ended sessions stay ended, a login opens one session, sessions keep their user; claims reach only their own call, a closed provider has no plugin, every call returns; fetches are spaced once one has worked and a stale key needs a fetch that did not work; a revoked token is refused; budgets hold at window edges, with lost replies and skewed clocks; the wrapper ends with its child after the lines it had read; pages have no unannounced gap and the chain's status is that of the file |
| `jwks_storm` | violation | "one JWKS fetch per cooldown, even when the cache is stale or the IdP is failing" fails while no fetch has ever worked |
| `oidc_ceiling` | violation | "no refresh may extend a session beyond originalCreatedAt + refreshMaxLifetimeSeconds" fails: the ceiling is compared when a refresh starts, and the lifetime that refresh opens runs past it |

Deadlock is not checked: every model is bounded, and a stream ends.

Exceptions stated inside properties rather than as runs of their own, each a real
behaviour of the code:

* An append that lost only its newline is continued by the next record, and neither
  line parses (`AckedReadable` excludes it; `audit/index.mjs:63`).
* A partial anchor line swallows the next anchor (`TruncationCaught`; `audit/index.mjs:133`).
* A death between truncating and filling the key file loses all keys
  (`NoOrphanedEnvelopes`; `crypto/index.mjs:113` and `265`).  So do two writers that have both truncated it, when
  the shorter text is written last: the file then ends in the tail of the longer one and does not parse.
* A stale lock file whose unlink fails every time keeps `acquireLock` in its loop for ever, since `continue` skips the deadline
  (`EveryRecordSettles` of the file sink; `audit/index.mjs:451`).
* A Redis command that is never answered hangs its replica's queue: no await of the store has a timeout
  (`EveryRecordSettles` of the Redis sink; `lock.mjs:74`, `audit.mjs:131`, `142`).
* Once a holder has stalled past 30 s no stale break is safe any more (`SafeBreaks`): the first one puts two processes inside.
* A key rotated into a running gateway can be lost when two `encrypt()` calls overlap: a call that
  read the file before the rotation writes it back after another call has used the new key.
  `NoOrphanedEnvelopes` therefore asks for one of the two, no overlap or no live rotation; without that premise the induction step
  of its proof fails, and TLC confirms it with three keys.
* The file vault loses a token when its lock is broken twice (`KeptWhileLocked`;
  `token-vault/index.mjs:464`), the same race as `file_audit_fork`.
* A match whose detectable beginning is longer than `maxMatchBytes` may be split
  (`TextsAssumption`; documented by the code).  A match that merely *grows* beyond the
  window is not split, as `SameAsOneShot` shows.
* A head that `push` cuts off in the context of a match can change what the filter finds (`Unsevered`, `Severs`): it takes a
  lookbehind's text away (`stream_split`), or makes a boundary that the text does not have.  `SameAsOneShot`, `BlockedNeverShown` and
  `EachCountedOnce` speak of streams without such a cut.  Where NFKC changes the length of the text any cut
  counts as one, since a detection there is of all the text the filter is given.
* The frames of an inspected stream reach the client before the stream's decision is recorded (`proxy/index.mjs:735`), and a plain JSON
  answer has no record with `responseProtection` off; `RecordedBeforeAnswered` asks for the request's record in these cases.
* The held tail of a stream is written after `[DONE]` and after Ollama's `done: true`
  frame, since no `flushOnType` is declared for them; the code and its documentation
  agree on that, so `TailBeforeTerminator` is stated for declared types.
* A `close()` called with nothing counted arms no timer (`proxy/index.mjs:472`).  An
  uncounted `/__haechi/ready` whose probe hangs, or a request that then arrives on an open
  connection, can hold it open; `CloseEnds` speaks of a `close()` that armed its timer.
* Any `GET /__haechi/...` other than the four known ones is handled like an ordinary request but
  is not counted (`ReservedPath`); `InFlightExact` and `OnlyGraceCuts` speak of counted ones.
* An inspected stream that breaks off, or whose final record fails, reaches the catch block with
  its head already sent: `writeHead` throws, the handler's promise rejects unhandled, and
  the process ends (`Crash`).  Every property holds up to that point, and nothing runs after it.
* A client that leaves while `authenticate()` or `allow()` is awaited leaves `readBody`
  listening on a destroyed request: that handler never returns and keeps its place in the count.
* Two overlapping CLI commands may undo a reported revocation, since the token file is rewritten without a
  lock (`RevokedIsRefused`, `overlapped`; `auth/index.mjs:84`).
* Before its first success the JWKS cache asks nothing of the cooldown (`auth-jwt/index.mjs:366`): `FetchesSpaced` speaks of it from
  then on, and `jwks_storm` shows the rest.
* The key cap of the dashboard's and the broker's limiter may drop a live window (`evicted`), and a hit that Redis counts outside
  its bucket, late or for a replica's clock that is ahead, gets a counter that expires at another time (`strayHits`).  A hit whose
  reply is lost is charged without anyone being let in.
* `EndedStaysEnded` speaks of the store: a request that joined the refresh of a session which is then logged out may still be answered once.
* `TokenMap` lets an operation that its caller gave up take effect later (`Land`), and does not say that it does so only once; an
  operation that is reported done takes effect exactly once.
* An oversized reply of an earlier plugin call may deny a later one; `OwnClaimsOnly` says that it grants nothing.
* A request that joins a chain walk gets what that walk read, which may be older than the request's own
  stat (`ChainAnswerCurrent` says "began or joined").  A first page is empty, with `windowExceeded` false, when one record
  fills the window; `PagedWithoutGap` begins with the first page that shows something.
* A handshake of the process sandbox that fails counts as no kill, so neither backoff nor breaker follows it.
* Lines of the child that nobody had read when it exits are lost, and a stderr line whose protection fails
  ends the wrapper process with an unhandled rejection (`"crashed"`; `WrapEnds`).

### Fairness

`EveryRecordSettles` needs it.  Assumed is weak fairness of the steps of a live
process: the event loop runs a ready continuation, and a timer that is due (the
deadline of the lock wait) fires.  Not assumed: that a lock key or file ever goes away,
that a connection recovers or a command is answered, that an unlink succeeds, that a process restarts, that anyone else makes progress.
`CloseEnds` needs the grace timer and the callback of `server.close()`.  The pipe properties
need the continuation of `tearDown`, and that an upstream read ends, which
`limits.upstreamTimeoutMs` sees to.  `CallsReturn` needs that each await of a plugin call ends: its turn comes when the calls
before it have settled, handshake and reply have a timer, backoff and key fetch end, and the conformance run is a finite list of
calls.  The plugin itself may be silent for ever.  `WrapEnds` needs that Node goes on reading pipes and that protecting a
line ends or fails; neither the client nor the child ever has to do anything.  Clients, providers, probes and sinks may hang for ever.

## 4. Proofs

All constants are arbitrary, subject to the named `ASSUME`s.  Every safety invariant, every
action property and both refinements that a passing run checks are also theorems.

* **`FileLockProofs`.**  `LockTypeCorrect`, and `LockExcludes`: the lock file excludes any number of
  processes until the stale path has unlinked one file too many.  Exclusion alone is not
  inductive.  The invariant adds that whoever is inside created the file at the path
  (`HoldersOwnFile`), that until a holder stalls a stale file has no live holder
  (`StaleIsOrphan`), and that before the first break a process about to unlink still faces
  the stale file it saw (`FirstBreakIsDue`).
* **`FileAuditSinkProofs`.**  `SinkTyped`, `DamageStaysAtTail`, `AckedStaysReadable`, `NoFalseAlarms`, `TruncationIsCaught`.
  The lock's invariant gives that one process at most is in its transaction, so a record that was built still continues the log
  it is appended to (`BuiltFresh`).  `LogSound` says that only the last line may be damaged or lack its
  newline, and that the others form the chain; `AnchorsOrdered` and `AnchorsTrue` that the anchors rise and are of records of the
  log, which is what keeps the verifier from accusing it.  For the truncation, `AnchorsOwed` follows a record that was due an anchor
  and has none: its caller has been rejected, or will be.  `Written` and `HeldOnce` carry an event from its queue to the line its
  caller is told of.  All of it is claimed only while the lock is intact; the step that breaks it needs no argument.
* **`RedisAuditStoreProofs`.**  `TypeCorrect`, `NeverForks`, `AnchorsAgree`, `ConflictsPaid`, `OwnReleaseOnly`.
  `ChainInv` says that head and fence describe the last element of the list, that each
  built record and each command still in flight extends *some* prefix of the chain, and that
  every anchor names a record of the chain.  Digests at different places of a linear
  chain differ (`HashesDiffer`), so a fence that holds means the record extends the
  present tail (`FenceMeansTail`).  The lock plays no part in it: the fence alone carries
  the safety, as the code's comments claim.
  `RedisImplementsAuditLog` is the refinement.  It needs besides that an event is held in one place (`HeldOnce`,
  `EventPlaced`), that until its command is sent no copy of it is in the list or in flight (`UntriedYet`),
  that of a sent one there is at most one copy, in the list or on its way (`OnTheirWay`),
  and that a resolved call has its event in the list (`DoneIsLogged`).  Every step then is an append of a new event, a
  change of one call's phase, or a stutter of `AuditLog`.
* **`TokenStoresProofs`.**  What each operation of the vault leaves, deletes and sets is stated once
  (`Effect`), and that a view's diff applied to the map it came from gives the view.  Over Redis, `FenceHolds` says: if the
  version is still the expected one, the diff, in a process or in flight, is its operation run on the present map at
  some earlier reading of the clock.  From this `TokensKeptUntilExpiry` (records expire within the retention of any clock reading used, so
  renewing never shortens one) and `RedisImplementsTokenMap`.  Over the file, `FileKeepsTokens`: while the lock is
  intact, what is about to be written was computed from the vault as it is (`ViewsFresh`).
  `StoresKeepTokens` carries all three over to the composed specification.
* **`LocalKeysProofs`.**  `TypesHold`; `FileCoversUse` and `LimitHolds` for sequential use: one key per process (`OneKey`), the
  versions held across an await are current (`HeldIsCurrent`), the window is within its grant and the limit (`WindowSound`) and
  the file is ahead of the IVs drawn by what is left of the window (`UsageCovers`).  `EnvelopesKeepTheirKeys`: every version of the
  file that may yet be written holds the keys in use (`VersionsHoldKeys`), since a call holds no key that the file has lost and the CLI
  holds every key of it (`VersionsOrdered`).  In sequential use no two writers' texts are ever mixed (`NotMixed`).  For the premise see the exceptions in section 3.
* **`StreamFilterProofs`.**  `StreamTyped`, `WindowIsSound`, `BlockedStaysHeld`, `TailComesFirst`, `CountedOnce`, for every text length, window,
  set of rules and cutting into frames.  Two results about the operators come first.  `RemoveOverlapsAccepts`: the set that
  `RemoveOverlaps` chooses exists and is the only one, because the order in which detections are sorted is well founded.
  `WholeDetected`: if no accepted detection straddles a point, every match that begins before it is already known and the point
  severs none from its context (`Cuttable`), detecting head and rest apart gives what detecting the whole gives, whatever
  follows; and the commit point of `push` is such a point unless it severs.  The invariant `StreamInv` says that, as long as
  nothing was severed, this is so of the place where `pending`
  begins, for every continuation of the text (`BaseSplits`), that what is pending has not been written and what
  is before it has (`PendingIsHeld`, `WrittenUpToBase`), and what `handleFrame` has in hand at each of its awaits (`FrameInHand`).
  The counts are exact in a blocked stream as well.
* **`GatewayProofs`.**  `GatewayTypeCorrect`, `CountIsExact`, `ForwardingIsRecorded`,
  `AnswersAreRecorded`, `CloseWaitsForGrace`, for any finite set of requests and any
  configurations.  The two recording promises are not inductive: a pipe ends with a "raw" answer
  without writing a record, so `Recorded` carries the pass-through record from `Record` over `fetch` to
  the pipe and the request's record to the frames of a stream, and keeps a protected request from being taken for a passed-through one.
  `MoveKeepsInv` and `EndKeepsInv` treat the two things a handler can do to the count, going on
  and ending; every action is reduced to one of them.  `CloseWaitsForGrace` follows from the exact
  count: the drain resolves at zero, and then no counted handler is at work.
* **`EntryPointsProofs`**, one section per part:
  * *Plugins.*  `ClaimsStayTheirOwn`: no call is granted on another call's claims, for any
    number of calls, late and repeated replies, kills and restarts.  `GrantInv` adds only the types of the pending map, of
    what the plugin was asked and of the replies under way; every action either grants nothing (`QuietStep`, `SendStep`)
    or is `Deliver`, where a reply with claims matches no call but the one whose id it carries.
    `ClosedIsFinal`: `ClosedStaysDown` is inductive by itself, because every action that takes a plugin on looks at
    the flag in the same turn (`UpStep`).
  * *OIDC sessions.*  `LogoutIsFinal`, `OneSessionPerLogin`, `UserIsPinned`.  That an ended session is not stored
    is kept by the resurrection guard, except at the step that stores a new session.  `SealedAlone` covers that
    one: a session waiting for its token to be sealed has an id nobody has been given, because ids are drawn in order
    (`MadeInOrder`) and only ids that were stored once (`Issued`) are logged out, evicted or refreshed.  For the login,
    `LoginInOnePlace` and `UsedIsTaken` say that it is pending, in one exchange, or has its session, never two of these.
    Every action other than the four steps of a login is reduced to one lemma (`QuietKeeps`).
  * *Key fetchers.*  `FetchesAreSpaced` and `NoStaleAfterSuccess`: the attempt is noted no earlier than the
    fetch is started (`TimesInOrder`), and a fetch that worked is younger than any noted attempt (`WorkedIsLatest`), so a key that is
    still served past its TTL, under a cooldown that forbids a fetch, belongs to an attempt that has not worked.
  * *Bearer tokens.*  `RevocationHolds`: what a command writes is what it read with its own change (`CommandsOwn`), so that without
    overlap a disabled token stays disabled.
  * *Rate limiters.*  `LimitersKeepBudget`.  A window in memory stands for the last calls that were charged, and what is more than a limit before
    them is at least a window before them (`Accounts`), unless a live window was dropped; hence at most twice the limit in any span of a
    window (`Paced`).  The memory store counts the calls of the latest bucket (`StoreInv`).  In Redis a
    counter is at least the number of hits charged to its bucket and expires no earlier than the
    bucket ends (`CountersInv`), unless a hit was counted outside its bucket.  `RefusalsEarned` keeps the other half, that each refusal had
    the limit charged within a window of it; that needs no exception, since a counter counts only hits that are charged, heard or not.
  * *Dashboard.*  `ChainStaysCurrent`: the file only grows, so the size a result is keyed by names one state of it: a cached or walked
    result is that of the file, or the file has grown since (`FreshAt`), and a walk answers at least what was there when it began (`WalkFresh`).  `PagesJoin`: the offsets of records, defined recursively, are first shown to exist; then
    what `readTailEvents` reads is a suffix of the log, a page is an interval of it, and each page begins
    where the one before ended, or says that the window was exceeded.

`TypeCorrect`, `LockTypeCorrect`, `SinkTyped`, `TypesHold`, `StreamTyped`, `GatewayTypeCorrect` and `OwnReleaseOnly` state invariants
that no run lists, since they are proved for every instance.

Induction over numbers and over detections is done with least elements of sets (`LeastNat`, from `WFMin`), not with the library's
induction rules, which take an operator as a parameter.  The constants' assumptions are the ones the code's configuration
checks justify; counters that the models bound (`Max...`) are arbitrary naturals here.

Only model-checked: liveness, that is `EveryRecordSettles` of both sinks, `CloseEnds`, `LeavingEndsPipe`, `CallsReturn` and `WrapEnds`,
since fairness and ENABLED are out of the prover's reach.  `McpStdio` has no theorem, because `WrapEnds` is what there is to say of it.  That
`EntryPoints` keeps each part's properties is by its construction (one part moves, the others stand still) and by its run.
The seven violations are counterexamples and need no proof.

## 5. Not modelled

AEAD, canonicalisation, signatures; regular expressions, checksums and address
classification; configuration validation; metrics and rendering; release scripts and
examples.  Redis itself is modelled as a serial executor of the commands the code sends.
`record()`'s events are opaque.  The lock-free `read()` of the vault changes nothing.

Policies, profiles and bundles are pure functions; their decision is a choice wherever a module uses it.  The KMS
provider keeps no state.  A plugin's manifest, signature and digest checks are the verdict of the load gate; the
contents of tokens (signature, claims, nonce, age) are a verdict too, except the subject and the login they belong to.
`/api/summary`, event filters and static assets of the dashboard read or format only.

## 6. Plan

1. *Done:* audit sinks, vault stores, local keys, streaming redaction, the gateway; proofs of
   the file lock, of the Redis audit chain and of the gateway.
2. *Done:* plugin sandboxes, MCP stdio, OIDC sessions, key fetchers, rate limiters, bearer tokens, dashboard, and their
   composition; proofs about the plugin sandbox, the OIDC sessions, the key fetchers and the token file.
3. *Done:* theorems for every remaining safety property: file audit sink, vault stores, local keys, streaming redaction,
   rate limiters and dashboard reads, and the step simulation of both refinements.
4. Theorems without a run's property behind them: that the composed `EntryPoints` keeps the theorems of its parts, and type correctness of
   `McpStdio`, with the safety half of `WrapEnds` (the wrapper ends only after its pumps have settled).
5. The inside of `protectJson` (decide, transform and tokenize against a failing vault), policy merge as
   operators against a reference definition, and reveal governance of the vault.
