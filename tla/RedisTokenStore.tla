-------------------------- MODULE RedisTokenStore ---------------------------
(***************************************************************************)
(* Gateway replicas sharing one token vault in Redis: createTokenVault     *)
(* (packages/token-vault) over createRedisTokenStore                       *)
(* (satellites/store-redis/token-vault.mjs).                               *)
(*                                                                         *)
(*   idle --Call--> lock --Acquire--> version --ReadVersion--> load        *)
(*     load --LoadAndRun--> apply --Commit--> release --Release--> idle    *)
(*                          apply --Conflict--> version | release          *)
(*                                                                         *)
(* The lock of withRedisLock may lapse at any moment, whatever its holder  *)
(* is doing, so it excludes nothing and has no variable here: a replica    *)
(* may get it at any time, or be refused.  Module RedisAuditStore has the  *)
(* lock itself.                                                            *)
(***************************************************************************)
EXTENDS TokenVaultOps

CONSTANTS
    Replicas,
    MaxMutateRetries    \* MAX_MUTATE_RETRIES

ASSUME MaxMutateRetriesAssumption == MaxMutateRetries \in Nat \ {0}

VARIABLES
    \* Redis
    hash,       \* ${keyPrefix}tokens
    version,    \* ${keyPrefix}version; 0 while the key is absent
    inFlight,   \* APPLY_SCRIPT calls whose client stopped waiting for them
    \* each replica: mutationQueue lets one mutation run at a time
    pc, op,
    expected,   \* expectedVersion
    view,       \* what fn left in the mutable view
    attempt,
    result,
    \* the clock and the bounds
    now, calls, faults

redisVars == <<hash, version, inFlight>>
procVars == <<pc, op, expected, view, attempt, result>>
vars == <<redisVars, procVars, now, calls, faults>>

Init ==
    /\ hash = EmptyVault
    /\ version = 0
    /\ inFlight = {}
    /\ pc = [p \in Replicas |-> "idle"]
    /\ op = [p \in Replicas |-> NoOperation]
    /\ expected = [p \in Replicas |-> 0]
    /\ view = [p \in Replicas |-> MutableView(EmptyVault)]
    /\ attempt = [p \in Replicas |-> 0]
    /\ result = [p \in Replicas |-> "none"]
    /\ now = 0 /\ calls = 0 /\ faults = 0

Goto(p, where) == pc' = [pc EXCEPT ![p] = where]

\* The locals of an attempt go out of scope.
Forget(p) ==
    /\ expected' = [expected EXCEPT ![p] = 0]
    /\ view' = [view EXCEPT ![p] = MutableView(EmptyVault)]

\* mutate() settles.
Settle(p) ==
    /\ Goto(p, "idle")
    /\ op' = [op EXCEPT ![p] = NoOperation]
    /\ attempt' = [attempt EXCEPT ![p] = 0]
    /\ result' = [result EXCEPT ![p] = "none"]
    /\ Forget(p)

Fault == faults < MaxFaults /\ faults' = faults + 1

Tick ==
    /\ now < MaxTime
    /\ now' = now + 1
    /\ UNCHANGED <<redisVars, procVars, calls, faults>>

-----------------------------------------------------------------------------
\* tokenize, purge or purgeExpired reaches the head of mutationQueue.

Call(p, o) ==
    /\ pc[p] = "idle"
    /\ calls < MaxCalls
    /\ calls' = calls + 1
    /\ op' = [op EXCEPT ![p] = o]
    /\ Goto(p, "lock")
    /\ UNCHANGED <<redisVars, expected, view, attempt, result, now, faults>>

Acquire(p) ==
    /\ pc[p] = "lock"
    /\ Goto(p, "version")
    /\ UNCHANGED <<redisVars, op, expected, view, attempt, result, now, calls, faults>>

\* The deadline passes, or the SET fails.
AcquireFails(p) ==
    /\ pc[p] = "lock"
    /\ Fault
    /\ Settle(p)
    /\ UNCHANGED <<redisVars, now, calls>>

-----------------------------------------------------------------------------
\* mutate

\* fn is over: leave through withRedisLock's finally.
Finish(p, how) ==
    /\ Goto(p, "release")
    /\ result' = [result EXCEPT ![p] = how]
    /\ Forget(p)

\* GET versionKey
ReadVersion(p) ==
    /\ pc[p] = "version"
    /\ expected' = [expected EXCEPT ![p] = version]
    /\ Goto(p, "load")
    /\ UNCHANGED <<redisVars, op, view, attempt, result, now, calls, faults>>

\* HGETALL hashKey, and fn over the snapshot.
LoadAndRun(p) ==
    /\ pc[p] = "load"
    /\ view' = [view EXCEPT ![p] = Mutation(op[p], hash, now)]
    /\ Goto(p, "apply")
    /\ UNCHANGED <<redisVars, op, expected, attempt, result, now, calls, faults>>

\* A read fails, or encrypt rejects inside fn: nothing has been sent.
ReadFails(p) ==
    /\ pc[p] \in {"version", "load"}
    /\ Fault
    /\ Finish(p, "error")
    /\ UNCHANGED <<redisVars, op, attempt, now, calls>>

\* Mutant: the diff is not fenced.
ApplyUnfenced(expectedVersion, diff) ==
    /\ hash' = [t \in Tokens |-> IF t \in diff.deleted THEN NoRecord
                                  ELSE IF t \in diff.dirty THEN diff.tokens[t]
                                  ELSE hash[t]]
    /\ version' = version + 1

\* APPLY_SCRIPT, as Redis runs it: all of it or none.
ApplyScript(expectedVersion, diff) ==
    IF version = expectedVersion
    THEN /\ hash' = [t \in Tokens |-> IF t \in diff.deleted THEN NoRecord
                                      ELSE IF t \in diff.dirty THEN diff.tokens[t]
                                      ELSE hash[t]]
         /\ version' = version + 1
    ELSE UNCHANGED <<hash, version>>

Commit(p) ==
    /\ pc[p] = "apply"
    /\ version = expected[p]
    /\ ApplyScript(expected[p], view[p])
    /\ Finish(p, "ok")
    /\ UNCHANGED <<inFlight, op, attempt, now, calls, faults>>

\* Mutant: the same diff is sent again under the new version.
ConflictResent(p) ==
    /\ pc[p] = "apply"
    /\ version # expected[p]
    /\ attempt' = [attempt EXCEPT ![p] = @ + 1]
    /\ expected' = [expected EXCEPT ![p] = version]
    /\ UNCHANGED <<redisVars, pc, op, view, result, now, calls, faults>>

\* The script returned 0: the whole body runs again, or the last attempt throws.
Conflict(p) ==
    /\ pc[p] = "apply"
    /\ version # expected[p]
    /\ ApplyScript(expected[p], view[p])
    /\ attempt' = [attempt EXCEPT ![p] = @ + 1]
    /\ IF attempt'[p] < MaxMutateRetries
       THEN Goto(p, "version") /\ Forget(p) /\ UNCHANGED result
       ELSE Finish(p, "error")
    /\ UNCHANGED <<inFlight, op, now, calls, faults>>

InFlight(p) == [op |-> op[p], expected |-> expected[p], view |-> view[p]]

\* The connection breaks under the eval: the script has run, will not run, or
\* is still on its way to the server.
ApplyFails(p) ==
    /\ pc[p] = "apply"
    /\ Fault
    /\ \/ ApplyScript(expected[p], view[p]) /\ UNCHANGED inFlight
       \/ UNCHANGED redisVars
       \/ inFlight' = inFlight \cup {InFlight(p)} /\ UNCHANGED <<hash, version>>
    /\ Finish(p, "error")
    /\ UNCHANGED <<op, attempt, now, calls>>

\* A command nobody waits for any more reaches the server.
LateApply(c) ==
    /\ c \in inFlight
    /\ inFlight' = inFlight \ {c}
    /\ ApplyScript(c.expected, c.view)
    /\ UNCHANGED <<procVars, now, calls, faults>>

\* The lock is released, or the TTL will free it: mutate() settles.
Release(p) ==
    /\ pc[p] = "release"
    /\ Settle(p)
    /\ UNCHANGED <<redisVars, now, calls, faults>>

\* A replica dies and is started again; a command already sent may still arrive.
Crash(p) ==
    /\ pc[p] # "idle"
    /\ Fault
    /\ inFlight' \in IF pc[p] = "apply" THEN {inFlight, inFlight \cup {InFlight(p)}} ELSE {inFlight}
    /\ Settle(p)
    /\ UNCHANGED <<hash, version, now, calls>>

-----------------------------------------------------------------------------
Step(p) ==
    \/ Acquire(p) \/ ReadVersion(p) \/ LoadAndRun(p) \/ Commit(p) \/ Conflict(p) \/ Release(p)

Failure(p) == AcquireFails(p) \/ ReadFails(p) \/ ApplyFails(p) \/ Crash(p)

Next ==
    \/ \E p \in Replicas : Step(p) \/ Failure(p) \/ \E o \in Operations : Call(p, o)
    \/ \E c \in inFlight : LateApply(c)
    \/ Tick

Spec == Init /\ [][Next]_vars

-----------------------------------------------------------------------------
\* Properties

Commands == [op : Operations, expected : Nat, view : Views]

\* Every variable has the shape the code gives it.
TypeOK ==
    /\ hash \in TokenMaps
    /\ version \in Nat
    /\ inFlight \subseteq Commands
    /\ pc \in [Replicas -> {"idle", "lock", "version", "load", "apply", "release"}]
    /\ op \in [Replicas -> Operations \cup {NoOperation}]
    /\ expected \in [Replicas -> Nat]
    /\ view \in [Replicas -> Views]
    /\ attempt \in [Replicas -> Nat]
    /\ result \in [Replicas -> {"none", "ok", "error"}]
    /\ now \in Nat /\ calls \in Nat /\ faults \in Nat

\* A purge of the token is under way, or was sent by a caller that has gone.
BeingPurged(t) ==
    LET purge == [kind |-> "purge", token |-> t]
    IN  \/ \E p \in Replicas : pc[p] = "apply" /\ op[p] = purge
        \/ \E c \in inFlight : c.op = purge

\* "A lost token write is impossible EVEN IF the TTL lapses and two writers
\* run at once" (lock.mjs:11-12): a token leaves the vault only once it has
\* expired or somebody purges it, and no stale snapshot, retry or late command
\* ever takes back an expiry that a reuse had extended.
KeptUntilExpiry ==
    [][\A t \in Tokens : hash[t] # NoRecord =>
          IF hash'[t] = NoRecord
          THEN Expired(hash[t], now) \/ BeingPurged(t)
          ELSE hash'[t].expiresAt >= hash[t].expiresAt]_vars

\* The vault over Redis implements the abstract token map: every mutation
\* takes effect atomically on the current map, at most once, and before
\* mutate() resolves.
PhaseOf(p) ==
    IF pc[p] \in {"lock", "version", "load", "apply"} THEN "pending"
    ELSE IF pc[p] = "release" /\ result[p] = "ok" THEN "applied" ELSE "idle"

Map == INSTANCE TokenMap WITH
           Procs <- Replicas,
           map <- hash,
           phase <- [p \in Replicas |-> PhaseOf(p)],
           op <- [p \in Replicas |-> IF PhaseOf(p) = "idle" THEN NoOperation ELSE op[p]],
           abandoned <- {c.op : c \in inFlight}
ImplementsTokenMap == Map!Spec

\* The envelope is "freshness-bound to the token retention window"
\* (tests/token-round-trip.test.mjs:68): inside that window it can be opened.
LiveTokenRestorable ==
    \A t \in Tokens :
        hash[t] # NoRecord /\ now < hash[t].expiresAt => Restorable(hash[t], now)
=============================================================================
