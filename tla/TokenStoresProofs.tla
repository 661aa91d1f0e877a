-------------------------- MODULE TokenStoresProofs -------------------------
(***************************************************************************)
(* The token vault over either store, for any number of processes and      *)
(* tokens and any retention.  Over Redis, a diff that passes the version   *)
(* fence was computed from the map it is applied to, so the store          *)
(* implements the abstract token map and no token is lost or cut short.    *)
(* Over the file, the same holds while the lock is intact.                 *)
(***************************************************************************)
EXTENDS TokenStores, FileLockProofs, TLAPS

USE RetentionAssumption, NoRecordAssumption, MaxMutateRetriesAssumption, BoundsAssumption

-----------------------------------------------------------------------------
\* What the vault's operations do to a map

\* Every record expires within the retention after `at`.
WithinRetention(tokens, at) ==
    \A t \in Tokens : tokens[t] # NoRecord => tokens[t].expiresAt <= at + Retention

\* The record tokenize leaves under its token.
Renewed(record, at) ==
    IF record # NoRecord /\ ~Expired(record, at)
    THEN [record EXCEPT !.expiresAt = at + Retention]
    ELSE [expiresAt |-> at + Retention, sealedUntil |-> at + Retention]

\* The expired tokens, and the maps the three operations leave.
Gone(m, at) == {t \in Tokens : Expired(m[t], at)}

Pruned(m, at) == [t \in Tokens |-> IF Expired(m[t], at) THEN NoRecord ELSE m[t]]

Purged(m, u, at) == [t \in Tokens |-> IF t = u \/ Expired(m[t], at) THEN NoRecord ELSE m[t]]

Tokenized(m, u, at) ==
    [t \in Tokens |-> IF t = u THEN Renewed(m[t], at)
                      ELSE IF Expired(m[t], at) THEN NoRecord ELSE m[t]]

\* Each operation on its own: what it leaves, deletes and sets.
LEMMA PruneEffect ==
    ASSUME NEW m \in TokenMaps, NEW at \in Nat
    PROVE  LET v == PruneExpiredView(MutableView(m), at)
           IN  /\ v.dirty = {}
               /\ v.deleted = Gone(m, at)
               /\ v.tokens = Pruned(m, at)
BY DEF PruneExpiredView, MutableView, DeleteTokens, Gone, Pruned

LEMMA PurgeEffect ==
    ASSUME NEW m \in TokenMaps, NEW at \in Nat, NEW u \in Tokens
    PROVE  LET v == Purge(MutableView(m), u, at)
           IN  /\ v.dirty = {}
               /\ v.deleted = Gone(m, at) \cup {u}
               /\ v.tokens = Purged(m, u, at)
<1> DEFINE w == PruneExpiredView(MutableView(m), at)
<1>1. /\ w.dirty = {}
      /\ w.deleted = Gone(m, at)
      /\ w.tokens = Pruned(m, at)
  BY PruneEffect
<1>2. Purge(MutableView(m), u, at) = DeleteTokens(w, {u})
  BY DEF Purge
<1> HIDE DEF w
<1> QED
  BY <1>1, <1>2 DEF DeleteTokens, Pruned, Purged

LEMMA RenewedRecord ==
    ASSUME NEW r \in VaultRecords \cup {NoRecord}, NEW at \in Nat
    PROVE  /\ Renewed(r, at) \in VaultRecords
           /\ Renewed(r, at) # NoRecord
           /\ Renewed(r, at).expiresAt = at + Retention
<1>1. Renewed(r, at) \in VaultRecords /\ Renewed(r, at).expiresAt = at + Retention
  BY DEF Renewed, VaultRecords
<1> QED
  BY <1>1

LEMMA TokenizeEffect ==
    ASSUME NEW m \in TokenMaps, NEW at \in Nat, NEW u \in Tokens
    PROVE  LET v == Tokenize(MutableView(m), u, at)
           IN  /\ v.dirty = {u}
               /\ v.deleted = Gone(m, at) \ {u}
               /\ v.tokens = Tokenized(m, u, at)
<1> DEFINE w == PruneExpiredView(MutableView(m), at)
<1>1. /\ w.dirty = {}
      /\ w.deleted = Gone(m, at)
      /\ w.tokens = Pruned(m, at)
  BY PruneEffect
<1>2. Tokenize(MutableView(m), u, at) = SetToken(w, u, Renewed(m[u], at))
  BY <1>1 DEF Tokenize, Renewed, Expired, Pruned
<1> HIDE DEF w
<1> QED
  BY <1>1, <1>2 DEF SetToken, Pruned, Tokenized

\* The kinds of operations.
LEMMA OperationKinds ==
    ASSUME NEW o \in Operations
    PROVE  \/ \E u \in Tokens : o = [kind |-> "tokenize", token |-> u]
           \/ \E u \in Tokens : o = [kind |-> "purge", token |-> u]
           \/ o = [kind |-> "purgeExpired"]
BY DEF Operations

\* What every operation leaves, in one form: `gone` are the expired tokens.
Effect(v, m, at, o) ==
    \/ \E u \in Tokens : /\ o = [kind |-> "tokenize", token |-> u]
                         /\ v.dirty = {u}
                         /\ v.deleted = Gone(m, at) \ {u}
                         /\ v.tokens = Tokenized(m, u, at)
    \/ \E u \in Tokens : /\ o = [kind |-> "purge", token |-> u]
                         /\ v.dirty = {}
                         /\ v.deleted = Gone(m, at) \cup {u}
                         /\ v.tokens = Purged(m, u, at)
    \/ /\ v.dirty = {}
       /\ v.deleted = Gone(m, at)
       /\ v.tokens = Pruned(m, at)

LEMMA MutationEffect ==
    ASSUME NEW o \in Operations, NEW m \in TokenMaps, NEW at \in Nat
    PROVE  Effect(Mutation(o, m, at), m, at, o)
<1>1. ASSUME NEW u \in Tokens, o = [kind |-> "tokenize", token |-> u]
      PROVE  Effect(Mutation(o, m, at), m, at, o)
  <2>1. Mutation(o, m, at) = Tokenize(MutableView(m), u, at)
    BY <1>1 DEF Mutation
  <2> QED
    BY <1>1, <2>1, TokenizeEffect DEF Effect
<1>2. ASSUME NEW u \in Tokens, o = [kind |-> "purge", token |-> u]
      PROVE  Effect(Mutation(o, m, at), m, at, o)
  <2>1. Mutation(o, m, at) = Purge(MutableView(m), u, at)
    BY <1>2 DEF Mutation
  <2> QED
    BY <1>2, <2>1, PurgeEffect DEF Effect
<1>3. CASE o = [kind |-> "purgeExpired"]
  <2>1. Mutation(o, m, at) = PruneExpiredView(MutableView(m), at)
    BY <1>3 DEF Mutation
  <2> QED
    BY <1>3, <2>1, PruneEffect DEF Effect
<1> QED
  BY <1>1, <1>2, <1>3, OperationKinds

\* A view has the shape of one, and its diff, applied to the map it came from,
\* gives the map it holds.
Applied(diff, tokens) ==
    [t \in Tokens |-> IF t \in diff.deleted THEN NoRecord
                      ELSE IF t \in diff.dirty THEN diff.tokens[t]
                      ELSE tokens[t]]

LEMMA DiffIsMutation ==
    ASSUME NEW o \in Operations, NEW m \in TokenMaps, NEW at \in Nat
    PROVE  /\ Applied(Mutation(o, m, at), m) = Mutation(o, m, at).tokens
           /\ Mutation(o, m, at).tokens \in TokenMaps
<1> DEFINE v == Mutation(o, m, at)
<1>1. Effect(v, m, at, o)
  BY MutationEffect
<1>2. \A t \in Tokens : m[t] \in VaultRecords \cup {NoRecord} /\ Renewed(m[t], at) \in VaultRecords
  BY RenewedRecord DEF TokenMaps
<1> HIDE DEF v
<1>3. v.tokens \in TokenMaps
  BY <1>1, <1>2 DEF Effect, TokenMaps, Pruned, Purged, Tokenized
<1>4. Applied(v, m) = v.tokens
  BY <1>1 DEF Effect, Applied, Gone, Pruned, Purged, Tokenized
<1> QED
  BY <1>3, <1>4 DEF v

\* A mutation that read the clock at `at` drops only records that were expired
\* then, or the one it purges, and moves no expiry back.
LEMMA MutationKeeps ==
    ASSUME NEW o \in Operations, NEW m \in TokenMaps, NEW at \in Nat, WithinRetention(m, at),
           NEW t \in Tokens, m[t] # NoRecord
    PROVE  LET new == Mutation(o, m, at).tokens[t]
           IN  /\ new = NoRecord => Expired(m[t], at) \/ o = [kind |-> "purge", token |-> t]
               /\ new # NoRecord => new.expiresAt >= m[t].expiresAt
<1> DEFINE v == Mutation(o, m, at)
<1>0. m[t] \in VaultRecords /\ m[t].expiresAt \in Nat /\ m[t].expiresAt <= at + Retention
  BY DEF TokenMaps, VaultRecords, WithinRetention
<1>1. Effect(v, m, at, o)
  BY MutationEffect
<1>2. /\ Renewed(m[t], at) # NoRecord
      /\ Renewed(m[t], at).expiresAt = at + Retention
  BY <1>0, RenewedRecord
<1> HIDE DEF v
<1>3. v.tokens[t] = NoRecord => Expired(m[t], at) \/ o = [kind |-> "purge", token |-> t]
  BY <1>1, <1>2 DEF Effect, Pruned, Purged, Tokenized
<1>4. v.tokens[t] \in {NoRecord, m[t], Renewed(m[t], at)}
  BY <1>1 DEF Effect, Pruned, Purged, Tokenized
<1>5. v.tokens[t] # NoRecord => v.tokens[t].expiresAt >= m[t].expiresAt
  BY <1>0, <1>2, <1>4
<1> QED
  BY <1>3, <1>5 DEF v

\* Every record of the new map expires within the retention after the reading.
LEMMA MutationWithin ==
    ASSUME NEW o \in Operations, NEW m \in TokenMaps, NEW at \in Nat, WithinRetention(m, at)
    PROVE  WithinRetention(Mutation(o, m, at).tokens, at)
<1> DEFINE v == Mutation(o, m, at)
<1>1. Effect(v, m, at, o)
  BY MutationEffect
<1> SUFFICES ASSUME NEW t \in Tokens, v.tokens[t] # NoRecord
             PROVE  v.tokens[t].expiresAt <= at + Retention
  BY DEF WithinRetention
<1>2. m[t] \in VaultRecords \cup {NoRecord} /\ Renewed(m[t], at).expiresAt = at + Retention
  BY RenewedRecord DEF TokenMaps
<1>3. m[t] # NoRecord => m[t].expiresAt <= at + Retention
  BY DEF WithinRetention
<1> HIDE DEF v
<1>4. v.tokens[t] = m[t] \/ v.tokens[t] = Renewed(m[t], at)
  BY <1>1 DEF Effect, Pruned, Purged, Tokenized
<1> QED
  BY <1>2, <1>3, <1>4

-----------------------------------------------------------------------------
\* The vault over Redis: the inductive invariant

RedisTypes ==
    /\ hash \in TokenMaps
    /\ version \in Nat
    /\ pc \in [Replicas -> {"idle", "lock", "version", "load", "apply", "release"}]
    /\ DOMAIN op = Replicas /\ DOMAIN view = Replicas /\ DOMAIN result = Replicas
    /\ expected \in [Replicas -> Nat]
    /\ attempt \in [Replicas -> Nat]
    /\ now \in Nat

\* A mutation under way has its operation.
OpsKnown ==
    /\ \A p \in Replicas : pc[p] \in {"lock", "version", "load", "apply"} => op[p] \in Operations
    /\ \A c \in inFlight : c.op \in Operations /\ c.expected \in Nat

\* The fence: if the version is still the expected one, the diff is the
\* operation run on the present map, at a time that no record outlives by more
\* than the retention.
Fenced(o, expectedVersion, diff) ==
    /\ expectedVersion <= version
    /\ expectedVersion = version =>
           \E at \in 0 .. now : diff = Mutation(o, hash, at) /\ WithinRetention(hash, at)

FenceHolds ==
    /\ \A p \in Replicas : pc[p] = "load" => expected[p] <= version
    /\ \A p \in Replicas : pc[p] = "apply" => Fenced(op[p], expected[p], view[p])
    /\ \A c \in inFlight : Fenced(c.op, c.expected, c.view)

RedisInv == RedisTypes /\ OpsKnown /\ FenceHolds /\ WithinRetention(hash, now)

-----------------------------------------------------------------------------
\* The vault over Redis: the invariant holds

\* Time passes and the map changes only under a new version.
Advances ==
    /\ version' >= version
    /\ now' \in Nat /\ now' >= now
    /\ version' = version => hash' = hash

\* A diff that was fenced stays so.
LEMMA FencedStays ==
    ASSUME RedisTypes, version' \in Nat, Advances, NEW o, NEW e \in Nat, NEW d, Fenced(o, e, d)
    PROVE  Fenced(o, e, d)'
<1>1. e <= version'
  BY DEF RedisTypes, Advances, Fenced
<1>2. ASSUME e = version' PROVE \E at \in 0 .. now' : d = Mutation(o, hash', at) /\ WithinRetention(hash', at)
  <2>1. version' = version /\ hash' = hash /\ e = version
    BY <1>2 DEF RedisTypes, Advances, Fenced
  <2>2. PICK at \in 0 .. now : d = Mutation(o, hash, at) /\ WithinRetention(hash, at)
    BY <2>1 DEF Fenced
  <2>3. at \in 0 .. now'
    BY DEF RedisTypes, Advances
  <2>4. d = Mutation(o, hash', at) /\ WithinRetention(hash', at)
    BY <2>1, <2>2
  <2> QED
    BY <2>3, <2>4
<1> QED
  BY <1>1, <1>2 DEF Fenced

\* APPLY_SCRIPT either does nothing or runs the operation on the present map.
TookEffect(o) ==
    /\ version' = version + 1
    /\ \E at \in 0 .. now : WithinRetention(hash, at) /\ hash' = Mutation(o, hash, at).tokens

LEMMA ApplyEffect ==
    ASSUME RedisTypes, NEW o \in Operations, NEW e \in Nat, NEW d, Fenced(o, e, d), ApplyScript(e, d)
    PROVE  \/ version # e /\ UNCHANGED <<hash, version>>
           \/ version = e /\ TookEffect(o)
<1>1. CASE version # e
  BY <1>1 DEF ApplyScript
<1>2. CASE version = e
  <2>1. PICK at \in 0 .. now : d = Mutation(o, hash, at) /\ WithinRetention(hash, at)
    BY <1>2 DEF Fenced
  <2>2. hash' = Applied(d, hash) /\ version' = version + 1
    BY <1>2 DEF ApplyScript, Applied
  <2>3. at \in Nat /\ hash \in TokenMaps
    BY DEF RedisTypes
  <2>4. hash' = Mutation(o, hash, at).tokens
    BY <2>1, <2>2, <2>3, DiffIsMutation
  <2> QED
    BY <1>2, <2>1, <2>2, <2>4 DEF TookEffect
<1> QED
  BY <1>1, <1>2

\* What either outcome leaves of the map.
LEMMA ApplyAdvances ==
    ASSUME RedisTypes, WithinRetention(hash, now), now' = now, NEW o \in Operations,
           TookEffect(o) \/ UNCHANGED <<hash, version>>
    PROVE  /\ hash' \in TokenMaps /\ version' \in Nat
           /\ Advances
           /\ WithinRetention(hash, now)'
<1>1. CASE UNCHANGED <<hash, version>>
  BY <1>1 DEF RedisTypes, Advances, WithinRetention
<1>2. CASE TookEffect(o)
  <2>1. PICK at \in 0 .. now : WithinRetention(hash, at) /\ hash' = Mutation(o, hash, at).tokens
    BY <1>2 DEF TookEffect
  <2>2. at \in Nat /\ hash \in TokenMaps
    BY DEF RedisTypes
  <2>3. hash' \in TokenMaps
    BY <2>1, <2>2, DiffIsMutation
  <2>4. WithinRetention(hash', at)
    BY <2>1, <2>2, MutationWithin
  <2>5. \A t \in Tokens : hash'[t] # NoRecord => hash'[t].expiresAt \in Nat
    BY <2>3 DEF TokenMaps, VaultRecords
  <2>6. WithinRetention(hash, now)'
    BY <2>4, <2>5 DEF WithinRetention, RedisTypes
  <2> QED
    BY <1>2, <2>3, <2>6 DEF TookEffect, Advances, RedisTypes
<1> QED
  BY <1>1, <1>2

\* A step in which no replica reads, and nothing enters the wire but a diff
\* that was about to be sent.
NoReads ==
    /\ \A p \in Replicas : pc'[p] = "apply" =>
          pc[p] = "apply" /\ op'[p] = op[p] /\ expected'[p] = expected[p] /\ view'[p] = view[p]
    /\ \A p \in Replicas : pc'[p] = "load" => pc[p] = "load" /\ expected'[p] = expected[p]
    /\ \A c \in inFlight' : c \in inFlight \/ \E p \in Replicas : pc[p] = "apply" /\ c = InFlight(p)

LEMMA NoReadsKeepsFence ==
    ASSUME RedisInv, version' \in Nat, Advances, NoReads
    PROVE  FenceHolds'
<1> USE DEF RedisInv
<1>1. ASSUME NEW p \in Replicas, pc'[p] = "load" PROVE expected'[p] <= version'
  BY <1>1 DEF NoReads, FenceHolds, Advances, RedisTypes
<1>2. ASSUME NEW p \in Replicas, pc'[p] = "apply" PROVE Fenced(op[p], expected[p], view[p])'
  <2>1. Fenced(op[p], expected[p], view[p]) /\ expected[p] \in Nat
    BY <1>2 DEF NoReads, FenceHolds, RedisTypes
  <2>2. op'[p] = op[p] /\ expected'[p] = expected[p] /\ view'[p] = view[p]
    BY <1>2 DEF NoReads
  <2> DEFINE o == op[p]  e == expected[p]  d == view[p]
  <2>3. \A oo, dd : \A ee \in Nat : Fenced(oo, ee, dd) => Fenced(oo, ee, dd)'
    BY FencedStays
  <2> QED
    BY <2>1, <2>2, <2>3 DEF Fenced
<1>3. ASSUME NEW c \in inFlight' PROVE Fenced(c.op, c.expected, c.view)'
  <2>1. Fenced(c.op, c.expected, c.view) /\ c.expected \in Nat
    BY <1>3 DEF NoReads, FenceHolds, OpsKnown, InFlight, RedisTypes
  <2> QED
    BY <2>1, FencedStays
<1> QED
  BY <1>1, <1>2, <1>3 DEF FenceHolds

LEMMA RedisInitInv == Init => RedisInv
BY DEF Init, RedisInv, RedisTypes, OpsKnown, FenceHolds, WithinRetention, EmptyVault, TokenMaps

\* What the replicas hold keeps its shape.
LEMMA RedisShapes ==
    ASSUME RedisTypes, OpsKnown, Next
    PROVE  /\ pc' \in [Replicas -> {"idle", "lock", "version", "load", "apply", "release"}]
           /\ DOMAIN op' = Replicas /\ DOMAIN view' = Replicas /\ DOMAIN result' = Replicas
           /\ expected' \in [Replicas -> Nat]
           /\ attempt' \in [Replicas -> Nat]
           /\ OpsKnown'
<1> DEFINE Shapes == /\ pc' \in [Replicas -> {"idle", "lock", "version", "load", "apply", "release"}]
                     /\ DOMAIN op' = Replicas /\ DOMAIN view' = Replicas /\ DOMAIN result' = Replicas
                     /\ expected' \in [Replicas -> Nat]
                     /\ attempt' \in [Replicas -> Nat]
                     /\ OpsKnown'
<1> USE DEF RedisTypes, OpsKnown, procVars, redisVars, Goto, Settle, Forget, Finish
<1>1. ASSUME NEW p \in Replicas, NEW o \in Operations, Call(p, o) PROVE Shapes
  BY <1>1 DEF Call
<1>2. ASSUME NEW p \in Replicas, Acquire(p) PROVE Shapes
  BY <1>2 DEF Acquire
<1>3. ASSUME NEW p \in Replicas, AcquireFails(p) PROVE Shapes
  BY <1>3 DEF AcquireFails
<1>4. ASSUME NEW p \in Replicas, ReadVersion(p) PROVE Shapes
  BY <1>4 DEF ReadVersion
<1>5. ASSUME NEW p \in Replicas, LoadAndRun(p) PROVE Shapes
  BY <1>5 DEF LoadAndRun
<1>6. ASSUME NEW p \in Replicas, ReadFails(p) PROVE Shapes
  BY <1>6 DEF ReadFails
<1>7. ASSUME NEW p \in Replicas, Commit(p) PROVE Shapes
  BY <1>7 DEF Commit
<1>8. ASSUME NEW p \in Replicas, Conflict(p) PROVE Shapes
  BY <1>8 DEF Conflict
<1>9. ASSUME NEW p \in Replicas, ApplyFails(p) PROVE Shapes
  BY <1>9 DEF ApplyFails, InFlight
<1>10. ASSUME NEW c \in inFlight, LateApply(c) PROVE Shapes
  BY <1>10 DEF LateApply
<1>11. ASSUME NEW p \in Replicas, Release(p) PROVE Shapes
  BY <1>11 DEF Release
<1>12. ASSUME NEW p \in Replicas, Crash(p) PROVE Shapes
  BY <1>12 DEF Crash, InFlight
<1>13. CASE Tick
  BY <1>13 DEF Tick
<1> QED
  BY <1>1, <1>2, <1>3, <1>4, <1>5, <1>6, <1>7, <1>8, <1>9, <1>10, <1>11, <1>12, <1>13
     DEF Next, Step, Failure

\* The steps that reach the store: which operation took effect, if any.
StoreMoves(o) == now' = now /\ (TookEffect(o) \/ UNCHANGED <<hash, version>>)

LEMMA CommitMoves ==
    ASSUME RedisInv, NEW p \in Replicas, Commit(p)
    PROVE  op[p] \in Operations /\ TookEffect(op[p]) /\ now' = now /\ pc[p] = "apply"
<1>1. /\ pc[p] = "apply" /\ op[p] \in Operations /\ expected[p] \in Nat
      /\ Fenced(op[p], expected[p], view[p]) /\ version = expected[p]
      /\ ApplyScript(expected[p], view[p]) /\ now' = now
  BY DEF Commit, RedisInv, OpsKnown, FenceHolds, RedisTypes
<1> QED
  BY <1>1, ApplyEffect DEF RedisInv

LEMMA ConflictMoves ==
    ASSUME RedisInv, NEW p \in Replicas, Conflict(p)
    PROVE  UNCHANGED <<hash, version, now>>
BY DEF Conflict, ApplyScript

LEMMA ApplyFailsMoves ==
    ASSUME RedisInv, NEW p \in Replicas, ApplyFails(p)
    PROVE  op[p] \in Operations /\ pc[p] = "apply" /\ StoreMoves(op[p])
<1>1. /\ pc[p] = "apply" /\ op[p] \in Operations /\ expected[p] \in Nat
      /\ Fenced(op[p], expected[p], view[p]) /\ now' = now
      /\ ApplyScript(expected[p], view[p]) \/ UNCHANGED <<hash, version>>
  BY DEF ApplyFails, RedisInv, OpsKnown, FenceHolds, RedisTypes, redisVars
<1> QED
  BY <1>1, ApplyEffect DEF RedisInv, StoreMoves

LEMMA LateApplyMoves ==
    ASSUME RedisInv, NEW c \in inFlight, LateApply(c)
    PROVE  c.op \in Operations /\ StoreMoves(c.op)
<1>1. /\ c.op \in Operations /\ c.expected \in Nat
      /\ Fenced(c.op, c.expected, c.view) /\ now' = now
      /\ ApplyScript(c.expected, c.view)
  BY DEF LateApply, RedisInv, OpsKnown, FenceHolds
<1> QED
  BY <1>1, ApplyEffect DEF RedisInv, StoreMoves

\* A step that leaves Redis alone, or moves the clock.
LEMMA StillAdvances ==
    ASSUME RedisInv, UNCHANGED <<hash, version>>, now' \in Nat, now' >= now
    PROVE  /\ hash' \in TokenMaps /\ version' \in Nat
           /\ Advances
           /\ WithinRetention(hash, now)'
<1>1. \A t \in Tokens : hash[t] # NoRecord => hash[t].expiresAt \in Nat
  BY DEF RedisInv, RedisTypes, TokenMaps, VaultRecords
<1> QED
  BY <1>1 DEF RedisInv, RedisTypes, Advances, WithinRetention

LEMMA RedisInvStep == RedisInv /\ [Next]_vars => RedisInv'
<1> SUFFICES ASSUME RedisInv, [Next]_vars PROVE RedisInv'
  OBVIOUS
<1>0. CASE UNCHANGED vars
  BY <1>0 DEF vars, procVars, redisVars, RedisInv, RedisTypes, OpsKnown, FenceHolds, Fenced,
              WithinRetention
<1> SUFFICES ASSUME Next PROVE RedisInv'
  BY <1>0
<1> DEFINE Moved == /\ hash' \in TokenMaps /\ version' \in Nat
                    /\ Advances
                    /\ WithinRetention(hash, now)'
<1>a. ASSUME Moved, FenceHolds' PROVE RedisInv'
  BY <1>a, RedisShapes DEF RedisInv, RedisTypes, Advances
<1>b. ASSUME Moved, NoReads PROVE RedisInv'
  BY <1>a, <1>b, NoReadsKeepsFence
<1> USE DEF procVars, redisVars, Goto, Settle, Forget, Finish
<1>1. ASSUME NEW p \in Replicas, NEW o \in Operations, Call(p, o) PROVE RedisInv'
  <2>1. Moved
    BY <1>1, StillAdvances DEF Call, RedisInv, RedisTypes
  <2>2. NoReads
    BY <1>1 DEF Call, NoReads, RedisInv, RedisTypes
  <2> QED
    BY <1>b, <2>1, <2>2
<1>2. ASSUME NEW p \in Replicas, Acquire(p) PROVE RedisInv'
  <2>1. Moved
    BY <1>2, StillAdvances DEF Acquire, RedisInv, RedisTypes
  <2>2. NoReads
    BY <1>2 DEF Acquire, NoReads, RedisInv, RedisTypes
  <2> QED
    BY <1>b, <2>1, <2>2
<1>3. ASSUME NEW p \in Replicas, AcquireFails(p) PROVE RedisInv'
  <2>1. Moved
    BY <1>3, StillAdvances DEF AcquireFails, RedisInv, RedisTypes
  <2>2. NoReads
    BY <1>3 DEF AcquireFails, NoReads, RedisInv, RedisTypes
  <2> QED
    BY <1>b, <2>1, <2>2
<1>4. ASSUME NEW p \in Replicas, ReadVersion(p) PROVE RedisInv'
  <2>1. Moved
    BY <1>4, StillAdvances DEF ReadVersion, RedisInv, RedisTypes
  <2>2. UNCHANGED <<hash, version, now, inFlight, op, view>> /\ expected'[p] = version
    BY <1>4 DEF ReadVersion, RedisInv, RedisTypes
  <2>3. \A q \in Replicas : q # p => pc'[q] = pc[q] /\ expected'[q] = expected[q]
    BY <1>4 DEF ReadVersion, RedisInv, RedisTypes
  <2>4. pc'[p] = "load" /\ version \in Nat
    BY <1>4 DEF ReadVersion, RedisInv, RedisTypes
  <2>5. FenceHolds'
    BY <2>2, <2>3, <2>4 DEF FenceHolds, Fenced, RedisInv
  <2> QED
    BY <1>a, <2>1, <2>5
<1>5. ASSUME NEW p \in Replicas, LoadAndRun(p) PROVE RedisInv'
  <2>1. Moved
    BY <1>5, StillAdvances DEF LoadAndRun, RedisInv, RedisTypes
  <2>2. UNCHANGED <<hash, version, now, inFlight, op, expected>>
    BY <1>5 DEF LoadAndRun, RedisInv, RedisTypes
  <2>3. \A q \in Replicas : q # p => pc'[q] = pc[q] /\ view'[q] = view[q]
    BY <1>5 DEF LoadAndRun, RedisInv, RedisTypes
  <2>4. pc'[p] = "apply" /\ view'[p] = Mutation(op[p], hash, now) /\ expected[p] <= version
    BY <1>5 DEF LoadAndRun, RedisInv, RedisTypes, FenceHolds
  <2>5. now \in 0 .. now /\ WithinRetention(hash, now)
    BY DEF RedisInv, RedisTypes
  <2>6. Fenced(op[p], expected[p], view[p])'
    BY <2>2, <2>4, <2>5 DEF Fenced
  <2>7. FenceHolds'
    BY <2>2, <2>3, <2>4, <2>6 DEF FenceHolds, Fenced, RedisInv
  <2> QED
    BY <1>a, <2>1, <2>7
<1>6. ASSUME NEW p \in Replicas, ReadFails(p) PROVE RedisInv'
  <2>1. Moved
    BY <1>6, StillAdvances DEF ReadFails, RedisInv, RedisTypes
  <2>2. NoReads
    BY <1>6 DEF ReadFails, NoReads, RedisInv, RedisTypes
  <2> QED
    BY <1>b, <2>1, <2>2
<1>7. ASSUME NEW p \in Replicas, Commit(p) PROVE RedisInv'
  <2>1. Moved
    BY <1>7, CommitMoves, ApplyAdvances DEF RedisInv
  <2>2. NoReads
    BY <1>7 DEF Commit, NoReads, RedisInv, RedisTypes
  <2> QED
    BY <1>b, <2>1, <2>2
<1>8. ASSUME NEW p \in Replicas, Conflict(p) PROVE RedisInv'
  <2>1. Moved
    BY <1>8, ConflictMoves, StillAdvances DEF RedisInv, RedisTypes
  <2>2. NoReads
    BY <1>8 DEF Conflict, NoReads, RedisInv, RedisTypes
  <2> QED
    BY <1>b, <2>1, <2>2
<1>9. ASSUME NEW p \in Replicas, ApplyFails(p) PROVE RedisInv'
  <2>1. Moved
    BY <1>9, ApplyFailsMoves, ApplyAdvances DEF RedisInv, StoreMoves
  <2>2. NoReads
    BY <1>9 DEF ApplyFails, NoReads, RedisInv, RedisTypes
  <2> QED
    BY <1>b, <2>1, <2>2
<1>10. ASSUME NEW c \in inFlight, LateApply(c) PROVE RedisInv'
  <2>1. Moved
    BY <1>10, LateApplyMoves, ApplyAdvances DEF RedisInv, StoreMoves
  <2>2. NoReads
    BY <1>10 DEF LateApply, NoReads, RedisInv, RedisTypes
  <2> QED
    BY <1>b, <2>1, <2>2
<1>11. ASSUME NEW p \in Replicas, Release(p) PROVE RedisInv'
  <2>1. Moved
    BY <1>11, StillAdvances DEF Release, RedisInv, RedisTypes
  <2>2. NoReads
    BY <1>11 DEF Release, NoReads, RedisInv, RedisTypes
  <2> QED
    BY <1>b, <2>1, <2>2
<1>12. ASSUME NEW p \in Replicas, Crash(p) PROVE RedisInv'
  <2>1. Moved
    BY <1>12, StillAdvances DEF Crash, RedisInv, RedisTypes
  <2>2. NoReads
    BY <1>12 DEF Crash, NoReads, RedisInv, RedisTypes
  <2> QED
    BY <1>b, <2>1, <2>2
<1>13. CASE Tick
  <2>1. Moved
    BY <1>13, StillAdvances DEF Tick, RedisInv, RedisTypes
  <2>2. NoReads
    BY <1>13 DEF Tick, NoReads, RedisInv, RedisTypes
  <2> QED
    BY <1>b, <2>1, <2>2
<1> QED
  BY <1>1, <1>2, <1>3, <1>4, <1>5, <1>6, <1>7, <1>8, <1>9, <1>10, <1>11, <1>12, <1>13
     DEF Next, Step, Failure

LEMMA RedisInvariant == Spec => []RedisInv
BY RedisInitInv, RedisInvStep, PTL DEF Spec

-----------------------------------------------------------------------------
\* No token is lost or cut short

\* What one step does to the records that are there.
RecordsKept ==
    \A t \in Tokens : hash[t] # NoRecord =>
        IF hash'[t] = NoRecord
        THEN Expired(hash[t], now) \/ BeingPurged(t)
        ELSE hash'[t].expiresAt >= hash[t].expiresAt

\* An operation that takes effect keeps all but what it purges.
LEMMA EffectKeeps ==
    ASSUME RedisTypes, NEW o \in Operations, TookEffect(o), NEW t \in Tokens, hash[t] # NoRecord
    PROVE  /\ hash'[t] = NoRecord => Expired(hash[t], now) \/ o = [kind |-> "purge", token |-> t]
           /\ hash'[t] # NoRecord => hash'[t].expiresAt >= hash[t].expiresAt
<1>1. PICK at \in 0 .. now : WithinRetention(hash, at) /\ hash' = Mutation(o, hash, at).tokens
  BY DEF TookEffect
<1>2. at \in Nat /\ at <= now /\ hash \in TokenMaps /\ hash[t].expiresAt \in Nat
  BY DEF RedisTypes, TokenMaps, VaultRecords
<1>3. /\ hash'[t] = NoRecord => Expired(hash[t], at) \/ o = [kind |-> "purge", token |-> t]
      /\ hash'[t] # NoRecord => hash'[t].expiresAt >= hash[t].expiresAt
  BY <1>1, <1>2, MutationKeeps
<1>4. Expired(hash[t], at) => Expired(hash[t], now)
  BY <1>2 DEF Expired, RedisTypes
<1> QED
  BY <1>3, <1>4

\* A step that leaves the map alone keeps every record.
LEMMA StillKeeps ==
    ASSUME RedisTypes, hash' = hash
    PROVE  RecordsKept
<1>1. \A t \in Tokens : hash[t] # NoRecord => hash[t].expiresAt \in Nat
  BY DEF RedisTypes, TokenMaps, VaultRecords
<1> QED
  BY <1>1 DEF RecordsKept

\* The operation that takes effect belongs to a replica in "apply" or is in flight.
LEMMA RecordsKeptStep ==
    ASSUME RedisInv, [Next]_vars
    PROVE  RecordsKept
<1> USE DEF procVars, redisVars
<1>0. RedisTypes
  BY DEF RedisInv
<1>1. CASE hash' = hash
  BY <1>0, <1>1, StillKeeps
<1>2. CASE hash' # hash
  <2>1. \/ \E p \in Replicas : Commit(p) \/ Conflict(p) \/ ApplyFails(p)
        \/ \E c \in inFlight : LateApply(c)
    BY <1>2 DEF Next, Step, Failure, vars, Call, Acquire, AcquireFails, ReadVersion, LoadAndRun,
                ReadFails, Release, Crash, Tick
  <2>2. ASSUME NEW p \in Replicas, Commit(p) \/ Conflict(p) \/ ApplyFails(p) PROVE RecordsKept
    <3>1. op[p] \in Operations /\ pc[p] = "apply" /\ TookEffect(op[p])
      BY <1>2, <2>2, CommitMoves, ConflictMoves, ApplyFailsMoves DEF StoreMoves
    <3>2. \A t \in Tokens : op[p] = [kind |-> "purge", token |-> t] => BeingPurged(t)
      BY <3>1 DEF BeingPurged
    <3> QED
      BY <1>0, <3>1, <3>2, EffectKeeps DEF RecordsKept
  <2>3. ASSUME NEW c \in inFlight, LateApply(c) PROVE RecordsKept
    <3>1. c.op \in Operations /\ TookEffect(c.op)
      BY <1>2, <2>3, LateApplyMoves DEF StoreMoves
    <3>2. \A t \in Tokens : c.op = [kind |-> "purge", token |-> t] => BeingPurged(t)
      BY <3>1 DEF BeingPurged
    <3> QED
      BY <1>0, <3>1, <3>2, EffectKeeps DEF RecordsKept
  <2> QED
    BY <2>1, <2>2, <2>3
<1> QED
  BY <1>1, <1>2

\* "A lost token write is impossible EVEN IF the TTL lapses and two writers run
\* at once" (lock.mjs:11-12), for any number of replicas, lapses, retries, lost
\* replies, late commands and crashes.
THEOREM TokensKeptUntilExpiry == Spec => KeptUntilExpiry
<1>1. RedisInv /\ [Next]_vars => [RecordsKept]_vars
  BY RecordsKeptStep
<1>2. Spec => [][RecordsKept]_vars
  BY <1>1, RedisInvariant, PTL DEF Spec
<1> QED
  BY <1>2 DEF KeptUntilExpiry, RecordsKept

-----------------------------------------------------------------------------
\* The vault over Redis implements the abstract token map

phaseBar == [p \in Replicas |-> PhaseOf(p)]
opBar == [p \in Replicas |-> IF PhaseOf(p) = "idle" THEN NoOperation ELSE op[p]]
abandonedBar == {c.op : c \in inFlight}

\* A replica's phase and operation after a step that only it takes part in.
LEMMA BarsMove ==
    ASSUME NEW p \in Replicas,
           \A q \in Replicas : q # p => pc'[q] = pc[q] /\ op'[q] = op[q] /\ result'[q] = result[q]
    PROVE  /\ phaseBar' = [phaseBar EXCEPT ![p] = PhaseOf(p)']
           /\ opBar' = [opBar EXCEPT ![p] = IF PhaseOf(p)' = "idle" THEN NoOperation ELSE op'[p]]
<1>1. \A q \in Replicas : q # p => PhaseOf(q)' = PhaseOf(q)
  BY DEF PhaseOf
<1> QED
  BY <1>1 DEF phaseBar, opBar

\* ... and if neither changes.
LEMMA BarsStay ==
    ASSUME NEW p \in Replicas, PhaseOf(p)' = PhaseOf(p), PhaseOf(p) = "idle" \/ op'[p] = op[p],
           \A q \in Replicas : q # p => pc'[q] = pc[q] /\ op'[q] = op[q] /\ result'[q] = result[q]
    PROVE  phaseBar' = phaseBar /\ opBar' = opBar
<1>1. \A q \in Replicas : /\ PhaseOf(q)' = PhaseOf(q)
                          /\ PhaseOf(q) = "idle" \/ op'[q] = op[q]
  BY DEF PhaseOf
<1> QED
  BY <1>1 DEF phaseBar, opBar

\* The abstract map's operations are the vault's own.
LEMMA SameOperations ==
    /\ Map!Operations = Operations
    /\ Map!NoOperation = NoOperation
    /\ Map!EmptyVault = EmptyVault
BY DEF Map!Operations, Operations, Map!NoOperation, NoOperation, Map!EmptyVault, EmptyVault

LEMMA SameMutation ==
    ASSUME NEW o, NEW m, NEW at
    PROVE  Map!Mutation(o, m, at) = Mutation(o, m, at)
<1>1. ASSUME NEW v PROVE Map!PruneExpiredView(v, at) = PruneExpiredView(v, at)
  BY DEF Map!PruneExpiredView, PruneExpiredView, Map!DeleteTokens, DeleteTokens,
         Map!Expired, Expired
<1>2. ASSUME NEW v, NEW t PROVE Map!Tokenize(v, t, at) = Tokenize(v, t, at)
  BY <1>1 DEF Map!Tokenize, Tokenize, Map!SetToken, SetToken
<1>3. ASSUME NEW v, NEW t PROVE Map!Purge(v, t, at) = Purge(v, t, at)
  BY <1>1 DEF Map!Purge, Purge, Map!DeleteTokens, DeleteTokens
<1>4. Map!MutableView(m) = MutableView(m)
  BY DEF Map!MutableView, MutableView
<1> QED
  BY <1>1, <1>2, <1>3, <1>4 DEF Map!Mutation, Mutation

\* An operation that took effect did so in the sense of the abstract map.
LEMMA EffectIsAbstract ==
    ASSUME NEW o, TookEffect(o)
    PROVE  Map!TakesEffect(o)
BY SameMutation DEF TookEffect, Map!TakesEffect

\* The caller gets an error, with no effect, with the effect, or before it.
LEMMA FailSimulates ==
    ASSUME NEW p \in Replicas, DOMAIN op = Replicas,
           PhaseOf(p) # "idle", PhaseOf(p)' = "idle", now' = now,
           \A q \in Replicas : q # p => pc'[q] = pc[q] /\ op'[q] = op[q] /\ result'[q] = result[q],
           \/ hash' = hash /\ inFlight' = inFlight
           \/ PhaseOf(p) = "pending" /\ TookEffect(op[p]) /\ inFlight' = inFlight
           \/ PhaseOf(p) = "pending" /\ hash' = hash /\ inFlight' = inFlight \cup {InFlight(p)}
    PROVE  Map!Fail(p)
<1>1. /\ phaseBar' = [phaseBar EXCEPT ![p] = "idle"]
      /\ opBar' = [opBar EXCEPT ![p] = NoOperation]
  BY BarsMove
<1>2. phaseBar[p] = PhaseOf(p) /\ opBar[p] = op[p]
  BY DEF phaseBar, opBar
<1>3. \/ hash' = hash /\ abandonedBar' = abandonedBar
      \/ phaseBar[p] = "pending" /\ Map!TakesEffect(opBar[p]) /\ abandonedBar' = abandonedBar
      \/ /\ phaseBar[p] = "pending" /\ hash' = hash
         /\ abandonedBar' = abandonedBar \cup {opBar[p]}
  <2>1. CASE hash' = hash /\ inFlight' = inFlight
    BY <2>1 DEF abandonedBar
  <2>2. CASE PhaseOf(p) = "pending" /\ TookEffect(op[p]) /\ inFlight' = inFlight
    BY <1>2, <2>2, EffectIsAbstract DEF abandonedBar
  <2>3. CASE PhaseOf(p) = "pending" /\ hash' = hash /\ inFlight' = inFlight \cup {InFlight(p)}
    <3>1. InFlight(p).op = op[p]
      BY DEF InFlight
    <3> QED
      BY <1>2, <2>3, <3>1 DEF abandonedBar
  <2> QED
    BY <2>1, <2>2, <2>3
<1> QED
  BY <1>1, <1>2, <1>3, SameOperations DEF Map!Fail, phaseBar, opBar, abandonedBar

\* Every step of the vault over Redis is a step of the abstract map, or none.
LEMMA RedisSimulates ==
    ASSUME RedisInv, [Next]_vars
    PROVE  [Map!Next]_(Map!vars)
<1> USE DEF procVars, redisVars, Goto, Settle, Forget, Finish
<1> DEFINE Abstract == Map!Next \/ UNCHANGED Map!vars
           Alone(p) == \A q \in Replicas : q # p => /\ pc'[q] = pc[q]
                                                    /\ op'[q] = op[q]
                                                    /\ result'[q] = result[q]
<1>t. RedisTypes
  BY DEF RedisInv
<1>a. ASSUME NEW p \in Replicas, Alone(p), PhaseOf(p)' = PhaseOf(p),
             PhaseOf(p) = "idle" \/ op'[p] = op[p], UNCHANGED <<hash, now, inFlight>>
      PROVE  Abstract
  <2>1. phaseBar' = phaseBar /\ opBar' = opBar
    BY <1>a, BarsStay
  <2>2. abandonedBar' = abandonedBar
    BY <1>a DEF abandonedBar
  <2> QED
    BY <1>a, <2>1, <2>2 DEF Map!vars, phaseBar, opBar, abandonedBar
<1>b. ASSUME NEW p \in Replicas, Map!Fail(p) PROVE Abstract
  BY <1>b DEF Map!Next
<1>0. CASE UNCHANGED vars
  BY <1>0 DEF vars, Map!vars, PhaseOf
<1>1. ASSUME NEW p \in Replicas, NEW o \in Operations, Call(p, o) PROVE Abstract
  <2>1. Alone(p) /\ PhaseOf(p) = "idle" /\ PhaseOf(p)' = "pending" /\ op'[p] = o
    BY <1>t, <1>1 DEF Call, RedisTypes, PhaseOf
  <2>2. phaseBar' = [phaseBar EXCEPT ![p] = "pending"] /\ opBar' = [opBar EXCEPT ![p] = o]
    BY <2>1, BarsMove
  <2>3. phaseBar[p] = "idle"
    BY <2>1 DEF phaseBar
  <2>4. Map!Call(p)
    BY <1>1, <2>2, <2>3, SameOperations DEF Map!Call, Call, phaseBar, opBar, abandonedBar
  <2> QED
    BY <2>4 DEF Map!Next
<1>2. ASSUME NEW p \in Replicas, Acquire(p) \/ ReadVersion(p) \/ LoadAndRun(p) PROVE Abstract
  <2>1. Alone(p) /\ PhaseOf(p) = "pending" /\ PhaseOf(p)' = "pending" /\ op'[p] = op[p]
    BY <1>t, <1>2 DEF Acquire, ReadVersion, LoadAndRun, RedisTypes, PhaseOf
  <2> QED
    BY <1>a, <1>2, <2>1 DEF Acquire, ReadVersion, LoadAndRun
<1>3. ASSUME NEW p \in Replicas, AcquireFails(p) \/ ReadFails(p) PROVE Abstract
  <2>1. Alone(p) /\ PhaseOf(p) = "pending" /\ PhaseOf(p)' = "idle"
    BY <1>t, <1>3 DEF AcquireFails, ReadFails, RedisTypes, PhaseOf
  <2>2. UNCHANGED <<hash, now, inFlight>>
    BY <1>3 DEF AcquireFails, ReadFails
  <2>3. Map!Fail(p)
    BY <1>t, <2>1, <2>2, FailSimulates DEF RedisTypes
  <2> QED
    BY <1>b, <2>3
<1>4. ASSUME NEW p \in Replicas, Commit(p) PROVE Abstract
  <2>1. Alone(p) /\ PhaseOf(p) = "pending" /\ PhaseOf(p)' = "applied" /\ op'[p] = op[p]
    BY <1>t, <1>4 DEF Commit, RedisTypes, PhaseOf
  <2>2. phaseBar' = [phaseBar EXCEPT ![p] = "applied"]
    BY <2>1, BarsMove
  <2>3. opBar' = opBar
    <3>1. \A q \in Replicas : q # p => PhaseOf(q)' = PhaseOf(q) /\ op'[q] = op[q]
      BY <2>1 DEF PhaseOf
    <3> QED
      BY <2>1, <3>1 DEF opBar
  <2>4. phaseBar[p] = "pending" /\ opBar[p] = op[p]
    BY <2>1 DEF phaseBar, opBar
  <2>5. Map!TakesEffect(opBar[p]) /\ now' = now /\ abandonedBar' = abandonedBar
    BY <1>4, <2>4, CommitMoves, EffectIsAbstract DEF Commit, abandonedBar
  <2>6. Map!Apply(p)
    BY <2>2, <2>3, <2>4, <2>5 DEF Map!Apply, phaseBar, opBar, abandonedBar
  <2> QED
    BY <2>6 DEF Map!Next
<1>5. ASSUME NEW p \in Replicas, Conflict(p) PROVE Abstract
  <2>1. Alone(p) /\ PhaseOf(p) = "pending" /\ PhaseOf(p)' \in {"pending", "idle"} /\ op'[p] = op[p]
    BY <1>t, <1>5 DEF Conflict, RedisTypes, PhaseOf
  <2>2. UNCHANGED <<hash, now, inFlight>>
    BY <1>5, ConflictMoves DEF Conflict
  <2>3. CASE PhaseOf(p)' = "pending"
    BY <1>a, <2>1, <2>2, <2>3
  <2>4. CASE PhaseOf(p)' = "idle"
    <3>1. Map!Fail(p)
      BY <1>t, <2>1, <2>2, <2>4, FailSimulates DEF RedisTypes
    <3> QED
      BY <1>b, <3>1
  <2> QED
    BY <2>1, <2>3, <2>4
<1>6. ASSUME NEW p \in Replicas, ApplyFails(p) PROVE Abstract
  <2>1. Alone(p) /\ PhaseOf(p) = "pending" /\ PhaseOf(p)' = "idle"
    BY <1>t, <1>6 DEF ApplyFails, RedisTypes, PhaseOf
  <2>2. now' = now /\ (TookEffect(op[p]) \/ UNCHANGED <<hash, version>>)
    BY <1>6, ApplyFailsMoves DEF StoreMoves
  <2>3. \/ inFlight' = inFlight
        \/ inFlight' = inFlight \cup {InFlight(p)} /\ hash' = hash
    BY <1>6 DEF ApplyFails
  <2>4. Map!Fail(p)
    BY <1>t, <2>1, <2>2, <2>3, FailSimulates DEF RedisTypes
  <2> QED
    BY <1>b, <2>4
<1>7. ASSUME NEW c \in inFlight, LateApply(c) PROVE Abstract
  <2>1. c.op \in abandonedBar
    BY DEF abandonedBar
  <2>2. now' = now /\ (Map!TakesEffect(c.op) \/ hash' = hash)
    BY <1>7, LateApplyMoves, EffectIsAbstract DEF StoreMoves
  <2>3. inFlight' = inFlight \ {c} /\ UNCHANGED <<pc, op, result>>
    BY <1>7 DEF LateApply
  <2>4. phaseBar' = phaseBar /\ opBar' = opBar
    BY <2>3 DEF phaseBar, opBar, PhaseOf
  <2>5. abandonedBar' \in {abandonedBar, abandonedBar \ {c.op}}
    <3>1. CASE \E d \in inFlight : d # c /\ d.op = c.op
      <4>1. abandonedBar' = abandonedBar
        BY <2>3, <3>1 DEF abandonedBar
      <4> QED
        BY <4>1
    <3>2. CASE \A d \in inFlight : d # c => d.op # c.op
      <4>1. abandonedBar' = abandonedBar \ {c.op}
        BY <2>3, <3>2 DEF abandonedBar
      <4> QED
        BY <4>1
    <3> QED
      BY <3>1, <3>2
  <2>6. Map!Land(c.op)
    BY <2>1, <2>2, <2>4, <2>5 DEF Map!Land, phaseBar, opBar, abandonedBar
  <2> QED
    BY <2>1, <2>6 DEF Map!Next, abandonedBar
<1>8. ASSUME NEW p \in Replicas, Release(p) PROVE Abstract
  <2>1. Alone(p) /\ PhaseOf(p) \in {"applied", "idle"} /\ PhaseOf(p)' = "idle"
    BY <1>t, <1>8 DEF Release, RedisTypes, PhaseOf
  <2>2. UNCHANGED <<hash, now, inFlight>>
    BY <1>8 DEF Release
  <2>3. CASE PhaseOf(p) = "idle"
    BY <1>a, <2>1, <2>2, <2>3
  <2>4. CASE PhaseOf(p) = "applied"
    <3>1. Map!Fail(p)
      BY <1>t, <2>1, <2>2, <2>4, FailSimulates DEF RedisTypes
    <3> QED
      BY <1>b, <3>1
  <2> QED
    BY <2>1, <2>3, <2>4
<1>9. ASSUME NEW p \in Replicas, Crash(p) PROVE Abstract
  <2>1. Alone(p) /\ PhaseOf(p) \in {"applied", "idle", "pending"} /\ PhaseOf(p)' = "idle"
    BY <1>t, <1>9 DEF Crash, RedisTypes, PhaseOf
  <2>2. UNCHANGED <<hash, now>>
    BY <1>9 DEF Crash
  <2>3. \/ inFlight' = inFlight
        \/ PhaseOf(p) = "pending" /\ inFlight' = inFlight \cup {InFlight(p)}
    BY <1>9 DEF Crash, PhaseOf
  <2>4. CASE PhaseOf(p) = "idle"
    BY <1>a, <2>1, <2>2, <2>3, <2>4
  <2>5. CASE PhaseOf(p) # "idle"
    <3>1. Map!Fail(p)
      BY <1>t, <2>1, <2>2, <2>3, <2>5, FailSimulates DEF RedisTypes
    <3> QED
      BY <1>b, <3>1
  <2> QED
    BY <2>4, <2>5
<1>10. CASE Tick
  <2>1. phaseBar' = phaseBar /\ opBar' = opBar /\ abandonedBar' = abandonedBar
    BY <1>10 DEF Tick, phaseBar, opBar, abandonedBar, PhaseOf
  <2>2. now' > now /\ hash' = hash
    BY <1>t, <1>10 DEF Tick, RedisTypes
  <2>3. Map!Tick
    BY <2>1, <2>2 DEF Map!Tick, phaseBar, opBar, abandonedBar
  <2> QED
    BY <2>3 DEF Map!Next
<1> QED
  BY <1>0, <1>1, <1>2, <1>3, <1>4, <1>5, <1>6, <1>7, <1>8, <1>9, <1>10 DEF Next, Step, Failure

LEMMA RedisInitAbstract == Init => Map!Init
BY SameOperations DEF Init, Map!Init, PhaseOf

\* The vault over Redis implements the abstract token map, for any number of
\* replicas: every mutation takes effect atomically on the current map, at most
\* once and before mutate() resolves, although the lock excludes nothing.
THEOREM RedisImplementsTokenMap == Spec => ImplementsTokenMap
BY RedisInvariant, RedisInitAbstract, RedisSimulates, PTL DEF Spec, ImplementsTokenMap, Map!Spec

-----------------------------------------------------------------------------
\* The vault file

FileTypes ==
    /\ vault \in TokenMaps
    /\ step \in [Procs -> {"idle", "read", "write", "release"}]
    /\ DOMAIN fileOp = Procs
    /\ fileView \in [Procs -> TokenMaps]
    /\ fileNow \in Nat

\* A process that has asked for the lock has an operation, and one that is
\* somewhere in mutate() is inside the lock.
FileOpsKnown ==
    \A p \in Procs : lpc[p] \notin {"out", "down"} => fileOp[p] \in Operations

MutatesInside == \A p \in Procs : step[p] # "idle" => lpc[p] = "in"

\* A view is the operation's result on the given map, at some earlier reading
\* of the clock that was late enough for every record of the map.
ResultOf(o, tokens, v) ==
    \E at \in 0 .. fileNow : WithinRetention(tokens, at) /\ v = Mutation(o, tokens, at).tokens

\* While the lock is intact, what is about to be written was computed from the
\* vault as it is.
ViewsFresh ==
    Intact => \A p \in Procs : step[p] = "write" => ResultOf(fileOp[p], vault, fileView[p])

VaultWithin == Intact => WithinRetention(vault, fileNow)

FileInv == LockInv /\ FileTypes /\ FileOpsKnown /\ MutatesInside /\ ViewsFresh /\ VaultWithin

\* The lock takes one of its own steps, or none.
LEMMA FileLockStep ==
    ASSUME [FileNext]_fileVars
    PROVE  [LockNext]_lockVars
BY DEF FileNext, FileStep, fileVars, FileCall, EnterMutate, WaitForLock, LockRefused, ReadAndRun,
       WriteVault, MutateFails, LeaveMutate, FileCrash, Restart, LockAges, FileTick, LockNext

\* An intact lock was intact before.
LEMMA IntactBefore ==
    ASSUME LockInv, [LockNext]_lockVars, Intact'
    PROVE  Intact
BY SafeBefore DEF Intact

\* A later time is late enough too.
LEMMA WithinLater ==
    ASSUME NEW m \in TokenMaps, NEW at \in Nat, NEW later \in Nat, at <= later,
           WithinRetention(m, at)
    PROVE  WithinRetention(m, later)
<1>1. \A t \in Tokens : m[t] # NoRecord => m[t].expiresAt \in Nat
  BY DEF TokenMaps, VaultRecords
<1> QED
  BY <1>1 DEF WithinRetention

\* The vault keeps its type and its retention when a fresh view replaces it.
LEMMA FreshResult ==
    ASSUME NEW o \in Operations, NEW m \in TokenMaps, NEW v, fileNow \in Nat, ResultOf(o, m, v)
    PROVE  v \in TokenMaps /\ WithinRetention(v, fileNow)
<1>1. PICK at \in 0 .. fileNow : WithinRetention(m, at) /\ v = Mutation(o, m, at).tokens
  BY DEF ResultOf
<1>2. at \in Nat /\ at <= fileNow
  OBVIOUS
<1>3. v \in TokenMaps /\ WithinRetention(v, at)
  BY <1>1, <1>2, DiffIsMutation, MutationWithin
<1> QED
  BY <1>2, <1>3, WithinLater

LEMMA FileInitInv == FileInit => FileInv
<1> SUFFICES ASSUME FileInit PROVE FileInv
  OBVIOUS
<1>1. LockInv
  BY LockInitInv DEF FileInit
<1>2. EmptyVault \in TokenMaps /\ WithinRetention(EmptyVault, 0)
  BY DEF EmptyVault, TokenMaps, WithinRetention
<1>3. FileTypes /\ VaultWithin
  BY <1>2 DEF FileInit, FileTypes, VaultWithin
<1>4. FileOpsKnown /\ MutatesInside /\ ViewsFresh
  BY DEF FileInit, LockInit, FileOpsKnown, MutatesInside, ViewsFresh
<1> QED
  BY <1>1, <1>3, <1>4 DEF FileInv

LEMMA FileShapes ==
    ASSUME FileInv, [FileNext]_fileVars
    PROVE  FileTypes' /\ FileOpsKnown' /\ MutatesInside'
<1> DEFINE Shapes == FileTypes /\ FileOpsKnown /\ MutatesInside
<1> USE DEF FileInv, FileTypes, FileOpsKnown, MutatesInside, FileSettle, storeVars, LockGoto
<1>a. lpc \in [Procs -> LockStates]
  BY DEF LockInv, LockTypeOK
<1>b. EmptyVault \in TokenMaps
  BY DEF EmptyVault, TokenMaps
<1>0. CASE UNCHANGED fileVars
  BY <1>0 DEF fileVars, lockVars
<1>1. ASSUME NEW p \in Procs, NEW o \in Operations, FileCall(p, o) PROVE Shapes'
  BY <1>a, <1>1 DEF FileCall, Request
<1>2. ASSUME NEW p \in Procs, EnterMutate(p) PROVE Shapes'
  BY <1>a, <1>2 DEF EnterMutate, Enter
<1>3. ASSUME NEW p \in Procs, WaitForLock(p) PROVE Shapes'
  BY <1>a, <1>3 DEF WaitForLock, Exists, Stat, Break, BreakFails, Retry, DeadlinePasses
<1>4. ASSUME NEW p \in Procs, LockRefused(p) PROVE Shapes'
  BY <1>a, <1>b, <1>4 DEF LockRefused, GiveUp, OpenFails
<1>5. ASSUME NEW p \in Procs, ReadAndRun(p) PROVE Shapes'
  <2>1. fileOp[p] \in Operations
    BY <1>5 DEF ReadAndRun
  <2>2. Mutation(fileOp[p], vault, fileNow).tokens \in TokenMaps
    BY <2>1, DiffIsMutation
  <2> QED
    BY <1>5, <2>2 DEF ReadAndRun, lockVars
<1>6. ASSUME NEW p \in Procs, WriteVault(p) PROVE Shapes'
  BY <1>6 DEF WriteVault, lockVars
<1>7. ASSUME NEW p \in Procs, MutateFails(p) PROVE Shapes'
  BY <1>7 DEF MutateFails, lockVars
<1>8. ASSUME NEW p \in Procs, LeaveMutate(p) PROVE Shapes'
  BY <1>a, <1>b, <1>8 DEF LeaveMutate, Unlock, UnlockFails
<1>9. ASSUME NEW p \in Procs, FileCrash(p) PROVE Shapes'
  BY <1>a, <1>b, <1>9 DEF FileCrash, Die
<1>10. ASSUME NEW p \in Procs, Restart(p) PROVE Shapes'
  BY <1>a, <1>10 DEF Restart, Revive
<1>11. ASSUME LockAges PROVE Shapes'
  BY <1>11 DEF LockAges, Ages
<1>12. ASSUME FileTick PROVE Shapes'
  BY <1>12 DEF FileTick, lockVars
<1> QED
  BY <1>0, <1>1, <1>2, <1>3, <1>4, <1>5, <1>6, <1>7, <1>8, <1>9, <1>10, <1>11, <1>12
     DEF FileNext, FileStep

\* Only a process that is about to write changes the vault.
LEMMA VaultMoves ==
    ASSUME FileInv, [FileNext]_fileVars, vault' # vault
    PROVE  \E p \in Procs : WriteVault(p)
BY DEF FileNext, FileStep, fileVars, FileCall, EnterMutate, WaitForLock, LockRefused, ReadAndRun,
       MutateFails, LeaveMutate, FileCrash, Restart, LockAges, FileTick, FileSettle, storeVars

\* While the lock is intact one process at most is inside.
LEMMA AloneInside ==
    ASSUME LockInv, Intact, NEW p \in Procs, NEW q \in Procs, lpc[p] = "in", lpc[q] = "in"
    PROVE  p = q
BY DEF LockInv, HoldersOwnFile, Intact

\* A process that is about to write after the step read the vault in it, or was
\* about to write before, with the same operation and view.
LEMMA WriterBefore ==
    ASSUME FileInv, [FileNext]_fileVars, NEW q \in Procs, step'[q] = "write"
    PROVE  \/ ReadAndRun(q)
           \/ step[q] = "write" /\ fileOp'[q] = fileOp[q] /\ fileView'[q] = fileView[q]
<1> USE DEF FileInv, FileTypes, FileOpsKnown, MutatesInside, FileSettle, storeVars, fileVars
<1> QED
  BY DEF FileNext, FileStep, FileCall, EnterMutate, WaitForLock, LockRefused, ReadAndRun, WriteVault,
         MutateFails, LeaveMutate, FileCrash, Restart, LockAges, FileTick, Request

LEMMA FileInvStep == FileInv /\ [FileNext]_fileVars => FileInv'
<1> SUFFICES ASSUME FileInv, [FileNext]_fileVars PROVE FileInv'
  OBVIOUS
<1>1. LockInv' /\ (Intact' => Intact)
  BY FileLockStep, LockNextInv, IntactBefore DEF FileInv
<1>2. FileTypes' /\ FileOpsKnown' /\ MutatesInside'
  BY FileShapes
<1>3. fileNow \in Nat /\ fileNow' \in Nat /\ fileNow <= fileNow' /\ vault \in TokenMaps
  BY <1>2 DEF FileInv, FileTypes, FileNext, FileStep, fileVars, FileCall, EnterMutate, WaitForLock,
              LockRefused, ReadAndRun, WriteVault, MutateFails, LeaveMutate, FileCrash, Restart,
              LockAges, FileTick, FileSettle, storeVars
<1>4. ViewsFresh'
  <2> SUFFICES ASSUME Intact', NEW q \in Procs, step'[q] = "write"
               PROVE  ResultOf(fileOp[q], vault, fileView[q])'
    BY DEF ViewsFresh
  <2>1. CASE ReadAndRun(q)
    <3>1. /\ fileView'[q] = Mutation(fileOp[q], vault, fileNow).tokens
          /\ vault' = vault /\ fileOp' = fileOp /\ fileNow' = fileNow
      BY <2>1 DEF ReadAndRun, FileInv, FileTypes
    <3>2. WithinRetention(vault, fileNow)
      BY <1>1 DEF FileInv, VaultWithin
    <3> QED
      BY <1>3, <3>1, <3>2 DEF ResultOf
  <2>2. CASE step[q] = "write" /\ fileOp'[q] = fileOp[q] /\ fileView'[q] = fileView[q]
    <3>1. ResultOf(fileOp[q], vault, fileView[q])
      BY <1>1, <2>2 DEF FileInv, ViewsFresh
    <3>2. vault' = vault
      <4> SUFFICES ASSUME vault' # vault PROVE FALSE
        OBVIOUS
      <4>1. PICK p \in Procs : WriteVault(p)
        BY VaultMoves
      <4>2. step[p] = "write" /\ step'[p] = "release"
        BY <4>1 DEF WriteVault, FileInv, FileTypes
      <4>3. lpc[p] = "in" /\ lpc[q] = "in"
        BY <2>2, <4>2 DEF FileInv, MutatesInside
      <4> QED
        BY <1>1, <4>2, <4>3, AloneInside DEF FileInv
    <3> QED
      BY <1>3, <2>2, <3>1, <3>2 DEF ResultOf
  <2> QED
    BY <2>1, <2>2, WriterBefore
<1>5. VaultWithin'
  <2> SUFFICES ASSUME Intact' PROVE WithinRetention(vault', fileNow')
    BY DEF VaultWithin
  <2>1. CASE vault' = vault
    BY <1>1, <1>3, <2>1, WithinLater DEF FileInv, VaultWithin
  <2>2. CASE vault' # vault
    <3>1. PICK p \in Procs : WriteVault(p)
      BY <2>2, VaultMoves
    <3>2. /\ vault' = fileView[p] /\ fileNow' = fileNow
          /\ fileOp[p] \in Operations /\ ResultOf(fileOp[p], vault, fileView[p])
      BY <1>1, <3>1 DEF WriteVault, FileInv, FileOpsKnown, MutatesInside, ViewsFresh
    <3> QED
      BY <1>3, <3>2, FreshResult
  <2> QED
    BY <2>1, <2>2
<1> QED
  BY <1>1, <1>2, <1>4, <1>5 DEF FileInv

LEMMA FileInvariant == FileSpec => []FileInv
BY FileInitInv, FileInvStep, PTL DEF FileSpec

\* One write of the vault keeps every record that is neither expired nor purged.
LEMMA TokensKeptStep ==
    ASSUME FileInv, [FileNext]_fileVars, Intact
    PROVE  TokensKept
<1>1. \A t \in Tokens : vault[t] # NoRecord => vault[t].expiresAt \in Nat
  BY DEF FileInv, FileTypes, TokenMaps, VaultRecords
<1>2. CASE vault' = vault
  BY <1>1, <1>2 DEF TokensKept
<1>3. CASE vault' # vault
  <2>1. PICK p \in Procs : WriteVault(p)
    BY <1>3, VaultMoves
  <2>2. /\ step[p] = "write" /\ vault' = fileView[p]
        /\ fileOp[p] \in Operations /\ ResultOf(fileOp[p], vault, fileView[p])
    BY <2>1 DEF WriteVault, FileInv, FileOpsKnown, MutatesInside, ViewsFresh
  <2>3. PICK at \in 0 .. fileNow :
            WithinRetention(vault, at) /\ vault' = Mutation(fileOp[p], vault, at).tokens
    BY <2>2 DEF ResultOf
  <2>4. at \in Nat /\ at <= fileNow /\ fileNow \in Nat /\ vault \in TokenMaps
    BY DEF FileInv, FileTypes
  <2> SUFFICES ASSUME NEW t \in Tokens, vault[t] # NoRecord
               PROVE  IF vault'[t] = NoRecord
                      THEN \/ Expired(vault[t], fileNow)
                           \/ \E q \in Procs : /\ step[q] = "write"
                                               /\ fileOp[q] = [kind |-> "purge", token |-> t]
                      ELSE vault'[t].expiresAt >= vault[t].expiresAt
    BY DEF TokensKept
  <2>5. /\ vault'[t] = NoRecord
             => Expired(vault[t], at) \/ fileOp[p] = [kind |-> "purge", token |-> t]
        /\ vault'[t] # NoRecord => vault'[t].expiresAt >= vault[t].expiresAt
    BY <2>2, <2>3, <2>4, MutationKeeps
  <2>6. Expired(vault[t], at) => Expired(vault[t], fileNow)
    BY <1>1, <2>4 DEF Expired
  <2> QED
    BY <2>2, <2>5, <2>6
<1> QED
  BY <1>2, <1>3

\* While the lock is intact, no concurrent mutation, crash or failed write loses
\* a token of the vault file or cuts its life short, for any number of processes.
THEOREM FileKeepsTokens == FileSpec => KeptWhileLocked
<1>1. FileInv /\ [FileNext]_fileVars => [Intact => TokensKept]_fileVars
  BY TokensKeptStep
<1> QED
  BY <1>1, FileInvariant, PTL DEF FileSpec, KeptWhileLocked

\* A deployment runs one of the two stores and the other stands still, so each
\* store's promises hold of the vault whichever store it was given.
THEOREM StoresKeepTokens ==
    StoresSpec => KeptUntilExpiry /\ ImplementsTokenMap /\ KeptWhileLocked
<1>1. StoresInit => Init /\ FileInit
  BY DEF StoresInit
<1>2. [StoresNext]_storesVars => [Next]_vars /\ [FileNext]_fileVars
  BY DEF StoresNext, storesVars, vars, fileVars
<1>3. StoresSpec => Spec /\ FileSpec
  BY <1>1, <1>2, PTL DEF StoresSpec, Spec, FileSpec
<1> QED
  BY <1>3, TokensKeptUntilExpiry, RedisImplementsTokenMap, FileKeepsTokens
=============================================================================
