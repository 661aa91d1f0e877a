-------------------------- MODULE RedisAuditStore ---------------------------
(***************************************************************************)
(* Gateway replicas sharing one audit chain in Redis: createAuditSink      *)
(* (packages/audit) over createRedisAuditStore                             *)
(* (satellites/store-redis/audit.mjs) under withRedisLock (lock.mjs).      *)
(*                                                                         *)
(* Every await of the code is a separate action, so other replicas, the    *)
(* lock's TTL, a lost connection or a crash may come in between:           *)
(*                                                                         *)
(*   idle --Begin--> lock --Acquire--> read --ReadHead--> persist          *)
(*     persist --PersistCommit--> anchor                                   *)
(*     persist --PersistConflict--> read, or release (retries exhausted)   *)
(*     anchor --WriteAnchor--> release --Release--> idle                   *)
(*                                                                         *)
(* The TTL lock may lapse at any moment, so two replicas may be inside the *)
(* critical section; a command whose connection breaks may have been       *)
(* executed, never be executed, or be executed later; and a command may    *)
(* never be answered at all (silent).                                      *)
(***************************************************************************)
EXTENDS AuditIntegrity

CONSTANTS
    Replicas,
    EveryRecords,       \* audit.anchor.everyRecords
    MaxAppendRetries,   \* MAX_APPEND_RETRIES
    MaxFaults,          \* bound: connection and anchor-file errors, lost answers
    MaxCrashes,         \* bound: replica crashes
    NoOne, NoEvent      \* stand for "no replica" and "no event"

ASSUME EveryRecordsAssumption == EveryRecords \in Nat \ {0}
ASSUME MaxAppendRetriesAssumption == MaxAppendRetries \in Nat \ {0}
ASSUME BoundsAssumption == MaxFaults \in Nat /\ MaxCrashes \in Nat
ASSUME NoOneAssumption == NoOne \notin Replicas
ASSUME NoEventAssumption == NoEvent \notin Events

EmptyRecord == [event |-> NoEvent, sequence |-> 0, previousHash |-> NullHash, eventHash |-> NullHash]

VARIABLES
    \* Redis
    chain,      \* ${keyPrefix}chain: the list of records
    head,       \* ${keyPrefix}head: the last record's auditIntegrity
    headHash,   \* ${keyPrefix}head:hash: the fence, NullHash when absent
    lock,       \* ${keyPrefix}lock: whose token it holds, or NoOne
    inFlight,   \* APPEND_SCRIPT calls whose client stopped waiting for them
    \* each replica's process
    pc,
    queue,      \* writeQueue: events whose record() has not started writing
    current,    \* the event being written
    built,      \* the record built on the head that was read
    attempt,    \* conflicts so far in this transaction
    late,       \* whether the lock deadline has passed
    result,     \* how the transaction ends once the lock is released
    \* outside the processes
    anchors,    \* each replica's anchor stream, as the set of its lines
    outcome,    \* what the caller of record(event) knows
    faults, crashes,
    \* history
    startLen    \* Len(chain) when the replica entered its transaction

redisVars == <<chain, head, headHash, inFlight>>
procVars == <<pc, queue, current, built, attempt, late, result, startLen>>
vars == <<redisVars, lock, procVars, anchors, outcome, faults, crashes>>

Init ==
    /\ chain = <<>>
    /\ head = NoIntegrity
    /\ headHash = NullHash
    /\ lock = NoOne
    /\ inFlight = {}
    /\ pc = [p \in Replicas |-> "idle"]
    /\ queue = [p \in Replicas |-> <<>>]
    /\ current = [p \in Replicas |-> NoEvent]
    /\ built = [p \in Replicas |-> EmptyRecord]
    /\ attempt = [p \in Replicas |-> 0]
    /\ late = [p \in Replicas |-> FALSE]
    /\ result = [p \in Replicas |-> "none"]
    /\ startLen = [p \in Replicas |-> 0]
    /\ anchors = [p \in Replicas |-> {}]
    /\ outcome = [e \in Events |-> "new"]
    /\ faults = 0
    /\ crashes = 0

-----------------------------------------------------------------------------
\* createAuditSink: record() chains the write behind the earlier ones.

Submit(p, e) ==
    /\ pc[p] # "down"
    /\ outcome[e] = "new"
    /\ outcome' = [outcome EXCEPT ![e] = "pending"]
    /\ queue' = [queue EXCEPT ![p] = Append(@, e)]
    /\ UNCHANGED <<redisVars, lock, pc, current, built, attempt, late, result, startLen,
                   anchors, faults, crashes>>

\* The head of writeQueue enters store.transaction -> withRedisLock.
Begin(p) ==
    /\ pc[p] = "idle"
    /\ queue[p] # <<>>
    /\ pc' = [pc EXCEPT ![p] = "lock"]
    /\ current' = [current EXCEPT ![p] = Head(queue[p])]
    /\ queue' = [queue EXCEPT ![p] = Tail(@)]
    /\ attempt' = [attempt EXCEPT ![p] = 0]
    /\ late' = [late EXCEPT ![p] = FALSE]
    /\ UNCHANGED <<redisVars, lock, built, result, startLen, anchors, outcome, faults, crashes>>

-----------------------------------------------------------------------------
\* withRedisLock

DeadlinePasses(p) ==
    /\ pc[p] = "lock"
    /\ ~late[p]
    /\ late' = [late EXCEPT ![p] = TRUE]
    /\ UNCHANGED <<redisVars, lock, pc, queue, current, built, attempt, result, startLen,
                   anchors, outcome, faults, crashes>>

\* SET lockKey token NX PX ttl wins.
Acquire(p) ==
    /\ pc[p] = "lock"
    /\ lock = NoOne
    /\ lock' = p
    /\ pc' = [pc EXCEPT ![p] = "read"]
    /\ startLen' = [startLen EXCEPT ![p] = Len(chain)]
    /\ UNCHANGED <<redisVars, queue, current, built, attempt, late, result,
                   anchors, outcome, faults, crashes>>

\* The call that ends without a lock: nothing to release, record() rejects.
RejectUnlocked(p) ==
    /\ pc' = [pc EXCEPT ![p] = "idle"]
    /\ outcome' = [outcome EXCEPT ![current[p]] = "rejected"]
    /\ current' = [current EXCEPT ![p] = NoEvent]
    /\ UNCHANGED <<redisVars, queue, built, attempt, late, result, startLen, anchors, crashes>>

\* Mutant: the spin ignores the deadline.
AcquireSpins(p) ==
    /\ pc[p] = "lock"
    /\ lock # NoOne
    /\ late[p]
    /\ UNCHANGED vars

\* NX failed and the deadline is over.
AcquireTimeout(p) ==
    /\ pc[p] = "lock"
    /\ lock # NoOne
    /\ late[p]
    /\ RejectUnlocked(p)
    /\ UNCHANGED <<lock, faults>>

\* The SET itself fails: client.set throws out of withRedisLock.  The server
\* may have executed it; then the key stays until its TTL.
AcquireError(p) ==
    /\ pc[p] = "lock"
    /\ faults < MaxFaults
    /\ faults' = faults + 1
    /\ lock' \in IF lock = NoOne THEN {NoOne, p} ELSE {lock}
    /\ RejectUnlocked(p)

\* PX: the key expires, whoever holds it and whatever the holder is doing.
LockExpires ==
    /\ lock # NoOne
    /\ lock' = NoOne
    /\ UNCHANGED <<redisVars, procVars, anchors, outcome, faults, crashes>>

\* RELEASE_SCRIPT: compare-and-delete on the token.
CompareAndDelete(p) == lock' = IF lock = p THEN NoOne ELSE lock

Resolve(p) ==
    /\ pc' = [pc EXCEPT ![p] = "idle"]
    /\ outcome' = [outcome EXCEPT ![current[p]] =
                      IF result[p] = "ok" THEN "acked" ELSE "rejected"]
    /\ current' = [current EXCEPT ![p] = NoEvent]
    /\ built' = [built EXCEPT ![p] = EmptyRecord]
    /\ result' = [result EXCEPT ![p] = "none"]
    /\ UNCHANGED <<redisVars, queue, attempt, late, startLen, anchors, crashes>>

Release(p) ==
    /\ pc[p] = "release"
    /\ CompareAndDelete(p)
    /\ Resolve(p)
    /\ UNCHANGED faults

\* The release command fails; the error is swallowed and the TTL frees the key.
ReleaseError(p) ==
    /\ pc[p] = "release"
    /\ faults < MaxFaults
    /\ faults' = faults + 1
    /\ Resolve(p)
    /\ UNCHANGED lock

-----------------------------------------------------------------------------
\* createRedisAuditStore.transaction

\* fn is over: leave through withRedisLock's finally.
Finish(p, how) ==
    /\ pc' = [pc EXCEPT ![p] = "release"]
    /\ result' = [result EXCEPT ![p] = how]

\* readLastIntegrity, then buildIntegrityRecord on what it returned.
ReadHead(p) ==
    /\ pc[p] = "read"
    /\ built' = [built EXCEPT ![p] = BuildIntegrityRecord(head, current[p])]
    /\ pc' = [pc EXCEPT ![p] = "persist"]
    /\ UNCHANGED <<redisVars, lock, queue, current, attempt, late, result, startLen,
                   anchors, outcome, faults, crashes>>

ReadError(p) ==
    /\ pc[p] = "read"
    /\ faults < MaxFaults
    /\ faults' = faults + 1
    /\ Finish(p, "error")
    /\ UNCHANGED <<redisVars, lock, queue, current, built, attempt, late, startLen,
                   anchors, outcome, crashes>>

\* Mutant: the append is not fenced.
Unfenced(r) == TRUE

\* APPEND_SCRIPT, as Redis runs it: all of it or none.
FenceHolds(r) == headHash = r.previousHash

AppendScript(r) ==
    IF FenceHolds(r)
    THEN /\ chain' = Append(chain, r)
         /\ head' = IntegrityOf(r)
         /\ headHash' = r.eventHash
    ELSE UNCHANGED <<chain, head, headHash>>

PersistCommit(p) ==
    /\ pc[p] = "persist"
    /\ FenceHolds(built[p])
    /\ AppendScript(built[p])
    /\ pc' = [pc EXCEPT ![p] = "anchor"]
    /\ UNCHANGED <<inFlight, lock, queue, current, built, attempt, late, result, startLen,
                   anchors, outcome, faults, crashes>>

\* Mutant: the script's 0 is taken for a commit.
ConflictIgnored(p) ==
    /\ pc[p] = "persist"
    /\ ~FenceHolds(built[p])
    /\ AppendScript(built[p])
    /\ pc' = [pc EXCEPT ![p] = "anchor"]
    /\ UNCHANGED <<inFlight, lock, queue, current, built, attempt, late, result, startLen,
                   anchors, outcome, faults, crashes>>

\* Mutant: the same record is sent again.
ConflictResent(p) ==
    /\ pc[p] = "persist"
    /\ ~FenceHolds(built[p])
    /\ AppendScript(built[p])
    /\ attempt' = [attempt EXCEPT ![p] = @ + 1]
    /\ IF attempt'[p] < MaxAppendRetries
       THEN UNCHANGED <<pc, result>>
       ELSE Finish(p, "error")
    /\ UNCHANGED <<inFlight, lock, queue, current, built, late, startLen,
                   anchors, outcome, faults, crashes>>

\* AuditConflictError: re-run fn, or give up after the last attempt.
PersistConflict(p) ==
    /\ pc[p] = "persist"
    /\ ~FenceHolds(built[p])
    /\ AppendScript(built[p])
    /\ attempt' = [attempt EXCEPT ![p] = @ + 1]
    /\ IF attempt'[p] < MaxAppendRetries
       THEN pc' = [pc EXCEPT ![p] = "read"] /\ UNCHANGED result
       ELSE Finish(p, "error")
    /\ UNCHANGED <<inFlight, lock, queue, current, built, late, startLen,
                   anchors, outcome, faults, crashes>>

\* Mutant: a broken connection is retried like a conflict.
PersistErrorRetried(p) ==
    /\ pc[p] = "persist"
    /\ faults < MaxFaults
    /\ faults' = faults + 1
    /\ AppendScript(built[p])
    /\ pc' = [pc EXCEPT ![p] = "read"]
    /\ UNCHANGED <<inFlight, lock, queue, current, built, attempt, late, result, startLen,
                   anchors, outcome, crashes>>

\* The connection breaks under the eval: any other error propagates.  The
\* script has run, will not run, or is still on its way to the server.
PersistError(p) ==
    /\ pc[p] = "persist"
    /\ faults < MaxFaults
    /\ faults' = faults + 1
    /\ \/ AppendScript(built[p]) /\ UNCHANGED inFlight
       \/ UNCHANGED redisVars
       \/ inFlight' = inFlight \cup {built[p]} /\ UNCHANGED <<chain, head, headHash>>
    /\ Finish(p, "error")
    /\ UNCHANGED <<lock, queue, current, built, attempt, late, startLen,
                   anchors, outcome, crashes>>

\* A command nobody waits for any more reaches the server.
LateAppend(r) ==
    /\ r \in inFlight
    /\ inFlight' = inFlight \ {r}
    /\ AppendScript(r)
    /\ UNCHANGED <<lock, procVars, anchors, outcome, faults, crashes>>

\* createAuditSink.writeAnchor, still inside the transaction.
WriteAnchor(p) ==
    /\ pc[p] = "anchor"
    /\ anchors' = IF built[p].sequence % EveryRecords = 0
                  THEN [anchors EXCEPT ![p] = @ \cup {IntegrityOf(built[p])}]
                  ELSE anchors
    /\ Finish(p, "ok")
    /\ UNCHANGED <<redisVars, lock, queue, current, built, attempt, late, startLen,
                   outcome, faults, crashes>>

\* The anchor append fails: not a conflict, so the error leaves transaction().
AnchorError(p) ==
    /\ pc[p] = "anchor"
    /\ built[p].sequence % EveryRecords = 0
    /\ faults < MaxFaults
    /\ faults' = faults + 1
    /\ Finish(p, "error")
    /\ UNCHANGED <<redisVars, lock, queue, current, built, attempt, late, startLen,
                   anchors, outcome, crashes>>

\* The command a replica awaits (SET, GET or EVAL) is never answered, though
\* Redis may have executed it or may do so later: no await of the store has a
\* timeout, and the lock's deadline is read only once SET returns.  (A key that
\* an unanswered release deletes looks like one that lapses: LockExpires.)
NeverAnswered(p) ==
    /\ pc[p] \in {"lock", "read", "persist", "release"}
    /\ faults < MaxFaults
    /\ faults' = faults + 1
    /\ pc' = [pc EXCEPT ![p] = "silent"]
    /\ \/ UNCHANGED lock
       \/ pc[p] = "lock" /\ lock = NoOne /\ lock' = p
    /\ inFlight' \in IF pc[p] = "persist" THEN {inFlight, inFlight \cup {built[p]}} ELSE {inFlight}
    /\ UNCHANGED <<chain, head, headHash, queue, current, built, attempt, late, result, startLen,
                   anchors, outcome, crashes>>

-----------------------------------------------------------------------------
\* A replica dies with its queue; a command already sent may still arrive.

PendingOf(p) == {queue[p][i] : i \in 1 .. Len(queue[p])}
                \cup (IF current[p] = NoEvent THEN {} ELSE {current[p]})

Crash(p) ==
    /\ pc[p] # "down"
    /\ crashes < MaxCrashes
    /\ crashes' = crashes + 1
    /\ inFlight' \in IF pc[p] = "persist" THEN {inFlight, inFlight \cup {built[p]}} ELSE {inFlight}
    /\ outcome' = [e \in Events |-> IF e \in PendingOf(p) THEN "rejected" ELSE outcome[e]]
    /\ pc' = [pc EXCEPT ![p] = "down"]
    /\ queue' = [queue EXCEPT ![p] = <<>>]
    /\ current' = [current EXCEPT ![p] = NoEvent]
    /\ built' = [built EXCEPT ![p] = EmptyRecord]
    /\ result' = [result EXCEPT ![p] = "none"]
    /\ UNCHANGED <<chain, head, headHash, lock, attempt, late, startLen, anchors, faults>>

Restart(p) ==
    /\ pc[p] = "down"
    /\ pc' = [pc EXCEPT ![p] = "idle"]
    /\ UNCHANGED <<redisVars, lock, queue, current, built, attempt, late, result, startLen,
                   anchors, outcome, faults, crashes>>

-----------------------------------------------------------------------------
Step(p) ==
    \/ Begin(p) \/ DeadlinePasses(p) \/ Acquire(p) \/ AcquireTimeout(p)
    \/ ReadHead(p) \/ PersistCommit(p) \/ PersistConflict(p) \/ WriteAnchor(p) \/ Release(p)

Fault(p) ==
    \/ AcquireError(p) \/ ReadError(p) \/ PersistError(p) \/ AnchorError(p) \/ ReleaseError(p)
    \/ NeverAnswered(p) \/ Crash(p) \/ Restart(p)

Next ==
    \/ \E p \in Replicas : Step(p) \/ Fault(p) \/ \E e \in Events : Submit(p, e)
    \/ \E r \in inFlight : LateAppend(r)
    \/ LockExpires

Spec == Init /\ [][Next]_vars

\* The event loop runs ready continuations and timers fire; nothing makes a
\* caller submit, a connection break or fall silent, a process crash or a TTL
\* lapse early.
Fairness == \A p \in Replicas : WF_vars(Step(p))

FairSpec == Spec /\ Fairness

-----------------------------------------------------------------------------
\* Properties

States == {"idle", "lock", "read", "persist", "anchor", "release", "silent", "down"}

\* Every variable has the shape the code gives it.
TypeOK ==
    /\ chain \in Seq(Record)
    /\ head \in Integrity
    /\ headHash \in Hashes
    /\ lock \in Replicas \cup {NoOne}
    /\ inFlight \subseteq Record
    /\ pc \in [Replicas -> States]
    /\ queue \in [Replicas -> Seq(Events)]
    /\ current \in [Replicas -> Events \cup {NoEvent}]
    /\ built \in [Replicas -> Record \cup {EmptyRecord}]
    /\ attempt \in [Replicas -> Nat]
    /\ late \in [Replicas -> BOOLEAN]
    /\ result \in [Replicas -> {"none", "ok", "error"}]
    /\ startLen \in [Replicas -> Nat]
    /\ anchors \in [Replicas -> SUBSET Anchor]
    /\ outcome \in [Events -> {"new", "pending", "acked", "rejected"}]
    /\ faults \in Nat /\ crashes \in Nat

\* A forked hash chain is impossible even if the TTL lapses and two writers
\* run at once (lock.mjs:10-12): whatever lapses, is lost or arrives late, the
\* shared list is one unbroken chain.
ChainNeverForks == LinearChain(chain)

\* No replica's anchor stream ever accuses the shared chain: verifyAuditChain
\* with it reports neither tail truncation nor an anchor mismatch, although
\* each replica anchors only its own records and may die before it does.
AnchorsNeverAccuse == \A p \in Replicas : VerifyAuditChain(chain, anchors[p])

\* A conflict is only ever the price of somebody else's commit ("progress is
\* made each time a writer commits", audit.mjs:49-51): a transaction with n
\* conflicts has seen at least n records appended since it took the lock, so
\* it cannot run out of retries on a quiet chain.
ConflictsArePaidFor ==
    \A p \in Replicas :
        pc[p] \in {"read", "persist", "anchor", "release"} =>
            attempt[p] <= Len(chain) - startLen[p]

\* A lock key goes away by its TTL or by the release of the replica whose
\* token it holds, never by the release of a replica whose own TTL lapsed.
OnlyOwnLockReleased ==
    [][lock # NoOne /\ lock' # lock => LockExpires \/ Release(lock)]_vars

\* The sink over Redis implements the abstract audit log: append-only, each
\* event at most once, record() resolves only for a logged event.
Log == INSTANCE AuditLog WITH log <- [i \in 1 .. Len(chain) |-> chain[i].event]
ImplementsAuditLog == Log!Spec

\* Every record() call settles (it resolves or rejects, or its process dies),
\* unless its own replica awaits a command Redis never answers: a replica that
\* hangs so, the lock still in its name, holds up nobody else.
EveryRecordSettles ==
    \A p \in Replicas, e \in Events :
        e \in PendingOf(p) ~> outcome[e] # "pending" \/ pc[p] = "silent"
=============================================================================
