----------------------- MODULE RedisAuditStoreProofs ------------------------
(***************************************************************************)
(* Proofs about RedisAuditStore, for any number of replicas and events,    *)
(* any anchor period and retry limit, and any number of faults and         *)
(* crashes.                                                                *)
(***************************************************************************)
EXTENDS RedisAuditStore, SequenceTheorems, TLAPS

USE EveryRecordsAssumption, MaxAppendRetriesAssumption, BoundsAssumption,
    NoOneAssumption, NoEventAssumption

-----------------------------------------------------------------------------
\* The digest: typed, never null, and it commits to what it was computed from.

LEMMA Sha256Type ==
    ASSUME NEW h \in Hashes, NEW e \in Events, NEW n \in Nat
    PROVE  Sha256(h, e, n) \in Hashes
  BY DEF Sha256, Hashes, Commitment

LEMMA Sha256NotNull ==
    ASSUME NEW h \in Hashes, NEW e \in Events, NEW n \in Nat
    PROVE  Sha256(h, e, n) # NullHash
<1>1. [event |-> e, sequence |-> n] \in Commitment
  BY DEF Commitment
<1>2. Len(Sha256(h, e, n)) = Len(h) + 1 /\ Len(h) \in Nat
  BY <1>1 DEF Sha256, Hashes
<1> QED
  BY <1>2 DEF NullHash

LEMMA Sha256Commits ==
    ASSUME NEW h \in Hashes, NEW e \in Events, NEW n \in Nat,
           NEW k \in Hashes, NEW f \in Events, NEW m \in Nat,
           Sha256(h, e, n) = Sha256(k, f, m)
    PROVE  e = f /\ n = m
<1> DEFINE x == [event |-> e, sequence |-> n]
           y == [event |-> f, sequence |-> m]
<1>1. x \in Commitment /\ y \in Commitment
  BY DEF Commitment
<1>2. Append(h, x) = Append(k, y)
  BY DEF Sha256
<1> HIDE DEF x, y
<1>3. /\ Len(Append(h, x)) = Len(h) + 1 /\ Append(h, x)[Len(h) + 1] = x
      /\ Len(Append(k, y)) = Len(k) + 1 /\ Append(k, y)[Len(k) + 1] = y
      /\ Len(h) \in Nat /\ Len(k) \in Nat
  BY <1>1 DEF Hashes
<1>4. x = y
  BY <1>2, <1>3
<1> QED
  BY <1>4 DEF x, y

LEMMA BuildIntegrityRecordType ==
    ASSUME NEW i \in Integrity, NEW e \in Events
    PROVE  BuildIntegrityRecord(i, e) \in Record
  BY Sha256Type DEF BuildIntegrityRecord, Integrity, Record

LEMMA IntegrityOfType ==
    ASSUME NEW r \in Record
    PROVE  IntegrityOf(r) \in Integrity /\ IntegrityOf(r) \in Anchor
  BY DEF IntegrityOf, Integrity, Anchor, Record

-----------------------------------------------------------------------------
\* Typing needs to know which fields are filled in where.

Busy == {"lock", "read", "persist", "anchor", "release"}

FieldsFilled ==
    \A p \in Replicas :
        /\ pc[p] \in Busy => current[p] \in Events
        /\ pc[p] \in {"persist", "anchor"} => built[p] \in Record

TypeInv == TypeOK /\ FieldsFilled

\* What the append script does to Redis, typed.
LEMMA AppendScriptType ==
    ASSUME TypeOK, NEW r \in Record, AppendScript(r)
    PROVE  chain' \in Seq(Record) /\ head' \in Integrity /\ headHash' \in Hashes
<1>1. r.eventHash \in Hashes
  BY DEF Record
<1>2. CASE FenceHolds(r)
  <2>1. /\ chain' = Append(chain, r)
        /\ head' = IntegrityOf(r)
        /\ headHash' = r.eventHash
    BY <1>2 DEF AppendScript
  <2>2. Append(chain, r) \in Seq(Record)
    BY DEF TypeOK
  <2> QED
    BY <1>1, <2>1, <2>2, IntegrityOfType
<1>3. CASE ~FenceHolds(r)
  BY <1>3 DEF AppendScript, TypeOK
<1> QED
  BY <1>2, <1>3

LEMMA InitTyped == Init => TypeInv
<1> SUFFICES ASSUME Init PROVE TypeInv
  OBVIOUS
<1>1. NoIntegrity \in Integrity /\ NullHash \in Hashes
  BY DEF NoIntegrity, Integrity, NullHash, Hashes
<1> QED
  BY <1>1 DEF Init, TypeInv, TypeOK, FieldsFilled, Busy, States

LEMMA NextTyped == TypeInv /\ [Next]_vars => TypeInv'
<1> SUFFICES ASSUME TypeInv, [Next]_vars PROVE TypeInv'
  OBVIOUS
<1> USE DEF TypeInv
<1>0. CASE UNCHANGED vars
  BY <1>0 DEF TypeOK, FieldsFilled, Busy, States, vars, redisVars, procVars
<1>1. ASSUME NEW p \in Replicas, NEW e \in Events, Submit(p, e) PROVE TypeInv'
  BY <1>1 DEF Submit, TypeOK, FieldsFilled, Busy, States, redisVars
<1>2. ASSUME NEW p \in Replicas, Begin(p) PROVE TypeInv'
  <2>1. Head(queue[p]) \in Events /\ Tail(queue[p]) \in Seq(Events)
    BY <1>2 DEF Begin, TypeOK
  <2> QED
    BY <1>2, <2>1 DEF Begin, TypeOK, FieldsFilled, Busy, States, redisVars
<1>3. ASSUME NEW p \in Replicas, DeadlinePasses(p) PROVE TypeInv'
  BY <1>3 DEF DeadlinePasses, TypeOK, FieldsFilled, Busy, States, redisVars
<1>4. ASSUME NEW p \in Replicas, Acquire(p) PROVE TypeInv'
  BY <1>4 DEF Acquire, TypeOK, FieldsFilled, Busy, States, redisVars
<1>5. ASSUME NEW p \in Replicas, AcquireTimeout(p) PROVE TypeInv'
  BY <1>5 DEF AcquireTimeout, RejectUnlocked, TypeOK, FieldsFilled, Busy, States, redisVars
<1>6. ASSUME NEW p \in Replicas, AcquireError(p) PROVE TypeInv'
  BY <1>6 DEF AcquireError, RejectUnlocked, TypeOK, FieldsFilled, Busy, States, redisVars
<1>7. ASSUME LockExpires PROVE TypeInv'
  BY <1>7 DEF LockExpires, TypeOK, FieldsFilled, Busy, States, redisVars, procVars
<1>8. ASSUME NEW p \in Replicas, Release(p) PROVE TypeInv'
  BY <1>8 DEF Release, Resolve, CompareAndDelete, TypeOK, FieldsFilled, Busy, States, redisVars
<1>9. ASSUME NEW p \in Replicas, ReleaseError(p) PROVE TypeInv'
  BY <1>9 DEF ReleaseError, Resolve, TypeOK, FieldsFilled, Busy, States, redisVars
<1>10. ASSUME NEW p \in Replicas, ReadHead(p) PROVE TypeInv'
  <2>1. BuildIntegrityRecord(head, current[p]) \in Record
    BY <1>10, BuildIntegrityRecordType DEF ReadHead, TypeOK, FieldsFilled, Busy
  <2> QED
    BY <1>10, <2>1 DEF ReadHead, TypeOK, FieldsFilled, Busy, States, redisVars
<1>11. ASSUME NEW p \in Replicas, ReadError(p) PROVE TypeInv'
  BY <1>11 DEF ReadError, Finish, TypeOK, FieldsFilled, Busy, States, redisVars
<1>12. ASSUME NEW p \in Replicas, PersistCommit(p) PROVE TypeInv'
  <2>1. chain' \in Seq(Record) /\ head' \in Integrity /\ headHash' \in Hashes
    BY <1>12, AppendScriptType DEF PersistCommit, FieldsFilled
  <2> QED
    BY <1>12, <2>1 DEF PersistCommit, TypeOK, FieldsFilled, Busy, States
<1>13. ASSUME NEW p \in Replicas, PersistConflict(p) PROVE TypeInv'
  <2>1. chain' \in Seq(Record) /\ head' \in Integrity /\ headHash' \in Hashes
    BY <1>13, AppendScriptType DEF PersistConflict, FieldsFilled
  <2>2. /\ attempt' \in [Replicas -> Nat]
        /\ result' \in [Replicas -> {"none", "ok", "error"}]
        /\ \/ pc' = [pc EXCEPT ![p] = "read"]
           \/ pc' = [pc EXCEPT ![p] = "release"]
    BY <1>13 DEF PersistConflict, Finish, TypeOK
  <2>3. pc' \in [Replicas -> States] /\ FieldsFilled'
    BY <1>13, <2>2 DEF PersistConflict, TypeOK, FieldsFilled, Busy, States
  <2> QED
    BY <1>13, <2>1, <2>2, <2>3 DEF PersistConflict, TypeOK
<1>14. ASSUME NEW p \in Replicas, PersistError(p) PROVE TypeInv'
  <2>1. /\ chain' \in Seq(Record) /\ head' \in Integrity /\ headHash' \in Hashes
        /\ inFlight' \subseteq Record
    BY <1>14, AppendScriptType DEF PersistError, FieldsFilled, TypeOK, redisVars
  <2> QED
    BY <1>14, <2>1 DEF PersistError, Finish, TypeOK, FieldsFilled, Busy, States
<1>15. ASSUME NEW r \in inFlight, LateAppend(r) PROVE TypeInv'
  <2>1. chain' \in Seq(Record) /\ head' \in Integrity /\ headHash' \in Hashes
    BY <1>15, AppendScriptType DEF LateAppend, TypeOK
  <2> QED
    BY <1>15, <2>1 DEF LateAppend, TypeOK, FieldsFilled, Busy, States, procVars
<1>16. ASSUME NEW p \in Replicas, WriteAnchor(p) PROVE TypeInv'
  <2>1. IntegrityOf(built[p]) \in Anchor
    BY <1>16, IntegrityOfType DEF WriteAnchor, FieldsFilled
  <2>2. anchors' \in [Replicas -> SUBSET Anchor]
    BY <1>16, <2>1 DEF WriteAnchor, TypeOK
  <2> QED
    BY <1>16, <2>2 DEF WriteAnchor, Finish, TypeOK, FieldsFilled, Busy, States, redisVars
<1>17. ASSUME NEW p \in Replicas, AnchorError(p) PROVE TypeInv'
  BY <1>17 DEF AnchorError, Finish, TypeOK, FieldsFilled, Busy, States, redisVars
<1>18. ASSUME NEW p \in Replicas, Crash(p) PROVE TypeInv'
  <2>1. inFlight' \subseteq Record
    BY <1>18 DEF Crash, TypeOK, FieldsFilled
  <2>2. outcome' \in [Events -> {"new", "pending", "acked", "rejected"}]
    BY <1>18 DEF Crash, TypeOK
  <2> QED
    BY <1>18, <2>1, <2>2 DEF Crash, TypeOK, FieldsFilled, Busy, States
<1>19. ASSUME NEW p \in Replicas, Restart(p) PROVE TypeInv'
  BY <1>19 DEF Restart, TypeOK, FieldsFilled, Busy, States, redisVars
<1>20. ASSUME NEW p \in Replicas, NeverAnswered(p) PROVE TypeInv'
  <2>1. inFlight' \subseteq Record
    BY <1>20 DEF NeverAnswered, TypeOK, FieldsFilled
  <2>2. lock' \in Replicas \cup {NoOne}
    BY <1>20 DEF NeverAnswered, TypeOK
  <2> QED
    BY <1>20, <2>1, <2>2 DEF NeverAnswered, TypeOK, FieldsFilled, Busy, States
<1> QED
  BY <1>0, <1>1, <1>2, <1>3, <1>4, <1>5, <1>6, <1>7, <1>8, <1>9, <1>10, <1>11, <1>12,
     <1>13, <1>14, <1>15, <1>16, <1>17, <1>18, <1>19, <1>20 DEF Next, Step, Fault

\* Every variable of the replicas, of Redis and of the anchor streams keeps
\* its type in every behaviour of the audit store.
THEOREM TypeCorrect == Spec => []TypeOK
<1>1. TypeInv => TypeOK
  BY DEF TypeInv
<1> QED
  BY InitTyped, NextTyped, <1>1, PTL DEF Spec

-----------------------------------------------------------------------------
(***************************************************************************)
(* The chain.  ChainNeverForks is not inductive: a commit extends the      *)
(* chain correctly only because the fence pins the record that was built   *)
(* some time ago to the present tail.  The strengthening remembers, for    *)
(* every record that may still be persisted, the place it was built for.   *)
(***************************************************************************)

HashAt(n) == IF n = 0 THEN NullHash ELSE chain[n].eventHash

\* r was built on top of the n-th record.
BuiltOn(r, n) ==
    /\ r.sequence = n + 1
    /\ r.previousHash = HashAt(n)
    /\ r.eventHash = Sha256(r.previousHash, r.event, r.sequence)

\* The two head keys describe the tail of the list.
HeadIsTail ==
    /\ head = [sequence |-> Len(chain), eventHash |-> HashAt(Len(chain))]
    /\ headHash = HashAt(Len(chain))

\* A record in the hands of a replica was built on a record that was in the
\* chain, no older than the conflicts so far allow.
ReplicaOnChain(p) ==
    /\ pc[p] = "lock" => attempt[p] = 0
    /\ pc[p] \in {"read", "persist", "anchor", "release"} =>
           startLen[p] + attempt[p] <= Len(chain)
    /\ pc[p] = "persist" =>
           \E n \in startLen[p] + attempt[p] .. Len(chain) : BuiltOn(built[p], n)
    /\ pc[p] = "anchor" =>
           \E n \in 1 .. Len(chain) : chain[n] = built[p]

BuiltOnChain == \A p \in Replicas : ReplicaOnChain(p)

\* So was every command still under way to the server.
InFlightOnChain ==
    \A r \in inFlight : \E n \in 0 .. Len(chain) : BuiltOn(r, n)

\* Every anchor attests a record of the chain.
AnchorsOnChain ==
    \A p \in Replicas : \A a \in anchors[p] :
        \E n \in 1 .. Len(chain) : a = IntegrityOf(chain[n])

ChainInv ==
    TypeInv /\ ChainNeverForks /\ HeadIsTail /\ BuiltOnChain /\ InFlightOnChain /\ AnchorsOnChain

\* Digests at different places of a linear chain differ.
LEMMA HashesDiffer ==
    ASSUME TypeOK, ChainNeverForks,
           NEW m \in 0 .. Len(chain), NEW n \in 0 .. Len(chain), HashAt(m) = HashAt(n)
    PROVE  m = n
<1>1. ASSUME NEW i \in 1 .. Len(chain)
      PROVE  /\ chain[i] \in Record
             /\ chain[i].sequence = i
             /\ chain[i].eventHash = Sha256(chain[i].previousHash, chain[i].event, i)
  BY DEF TypeOK, ChainNeverForks, LinearChain, RecordAccepted
<1>2. ASSUME NEW i \in 1 .. Len(chain)
      PROVE  chain[i].eventHash # NullHash
  BY <1>1, Sha256NotNull DEF Record
<1>3. ASSUME NEW i \in 1 .. Len(chain), NEW j \in 1 .. Len(chain),
             chain[i].eventHash = chain[j].eventHash
      PROVE  i = j
  BY <1>1, <1>3, Sha256Commits DEF Record
<1>4. Len(chain) \in Nat
  BY DEF TypeOK
<1> QED
  BY <1>2, <1>3, <1>4 DEF HashAt

\* The fence admits exactly the records built on the present tail.
LEMMA FenceMeansTail ==
    ASSUME TypeOK, ChainNeverForks, HeadIsTail,
           NEW r, NEW n \in 0 .. Len(chain), BuiltOn(r, n)
    PROVE  FenceHolds(r) <=> n = Len(chain)
<1>1. Len(chain) \in Nat
  BY DEF TypeOK
<1>2. FenceHolds(r) <=> HashAt(Len(chain)) = HashAt(n)
  BY DEF FenceHolds, HeadIsTail, BuiltOn
<1> QED
  BY <1>1, <1>2, HashesDiffer

\* The list only grows at its end, so what was built on it stays so.
Extends == \* chain' has chain as a prefix
    /\ Len(chain) <= Len(chain')
    /\ Len(chain') \in Nat
    /\ \A i \in 1 .. Len(chain) : chain'[i] = chain[i]

LEMMA AppendScriptSafe ==
    ASSUME TypeOK, ChainNeverForks, HeadIsTail,
           NEW r \in Record, NEW n \in 0 .. Len(chain), BuiltOn(r, n), AppendScript(r)
    PROVE  /\ ChainNeverForks' /\ HeadIsTail' /\ Extends
           /\ FenceHolds(r) => /\ Len(chain') = Len(chain) + 1
                               /\ chain'[Len(chain')] = r
<1>1. Len(chain) \in Nat
  BY DEF TypeOK
<1>2. CASE FenceHolds(r)
  <2>1. n = Len(chain)
    BY <1>2, FenceMeansTail
  <2>2. /\ chain' = Append(chain, r)
        /\ head' = IntegrityOf(r)
        /\ headHash' = r.eventHash
    BY <1>2 DEF AppendScript
  <2>3. /\ Len(chain') = Len(chain) + 1
        /\ chain'[Len(chain) + 1] = r
        /\ \A i \in 1 .. Len(chain) : chain'[i] = chain[i]
    BY <2>2 DEF TypeOK
  <2>4. HeadIsTail'
    BY <1>1, <2>1, <2>2, <2>3 DEF HeadIsTail, HashAt, IntegrityOf, BuiltOn
  <2>5. ASSUME NEW i \in 1 .. Len(chain')
        PROVE  RecordAccepted(chain, {}, i)'
    <3>1. CASE i = Len(chain) + 1
      <4>1. ExpectedPreviousHash(chain, i)' = HashAt(Len(chain))
        BY <1>1, <2>3, <3>1 DEF ExpectedPreviousHash, HashAt
      <4> QED
        BY <1>1, <2>1, <2>3, <3>1, <4>1 DEF RecordAccepted, BuiltOn
    <3>2. CASE i \in 1 .. Len(chain)
      <4>1. ExpectedPreviousHash(chain, i)' = ExpectedPreviousHash(chain, i)
        BY <1>1, <2>3, <3>2 DEF ExpectedPreviousHash
      <4>2. RecordAccepted(chain, {}, i)
        BY <3>2 DEF ChainNeverForks, LinearChain
      <4> QED
        BY <2>3, <3>2, <4>1, <4>2 DEF RecordAccepted
    <3> QED
      BY <1>1, <2>3, <3>1, <3>2
  <2> QED
    BY <1>1, <2>3, <2>4, <2>5 DEF ChainNeverForks, LinearChain, Extends
<1>3. CASE ~FenceHolds(r)
  <2>1. UNCHANGED <<chain, head, headHash>>
    BY <1>3 DEF AppendScript
  <2> QED
    BY <1>1, <1>3, <2>1 DEF ChainNeverForks, HeadIsTail, HashAt, Extends
<1> QED
  BY <1>2, <1>3

\* What was known about a replica stays true while others extend the chain.
LEMMA OthersKeep ==
    ASSUME TypeOK, Extends, NEW q \in Replicas, ReplicaOnChain(q),
           pc'[q] = pc[q], built'[q] = built[q],
           attempt'[q] = attempt[q], startLen'[q] = startLen[q]
    PROVE  ReplicaOnChain(q)'
<1>1. /\ Len(chain) \in Nat /\ Len(chain') \in Nat /\ Len(chain) <= Len(chain')
      /\ startLen[q] \in Nat /\ attempt[q] \in Nat
  BY DEF TypeOK, Extends
<1>2. \A n \in 0 .. Len(chain) : HashAt(n)' = HashAt(n)
  BY <1>1 DEF HashAt, Extends
<1>3. ASSUME pc[q] = "persist"
      PROVE  \E n \in startLen'[q] + attempt'[q] .. Len(chain') : BuiltOn(built[q], n)'
  <2>1. PICK n \in startLen[q] + attempt[q] .. Len(chain) : BuiltOn(built[q], n)
    BY <1>3 DEF ReplicaOnChain
  <2>2. BuiltOn(built[q], n)'
    BY <1>1, <1>2, <2>1 DEF BuiltOn
  <2> QED
    BY <1>1, <2>1, <2>2
<1>4. ASSUME pc[q] = "anchor"
      PROVE  \E n \in 1 .. Len(chain') : chain'[n] = built'[q]
  BY <1>1, <1>4 DEF ReplicaOnChain, Extends
<1> QED
  BY <1>1, <1>3, <1>4 DEF ReplicaOnChain

LEMMA InFlightKeep ==
    ASSUME TypeOK, Extends, InFlightOnChain, NEW r \in inFlight
    PROVE  \E n \in 0 .. Len(chain') : BuiltOn(r, n)'
<1>1. /\ Len(chain) \in Nat /\ Len(chain') \in Nat /\ Len(chain) <= Len(chain')
  BY DEF TypeOK, Extends
<1>2. PICK n \in 0 .. Len(chain) : BuiltOn(r, n)
  BY DEF InFlightOnChain
<1>3. HashAt(n)' = HashAt(n)
  BY <1>1 DEF HashAt, Extends
<1> QED
  BY <1>1, <1>2, <1>3 DEF BuiltOn

LEMMA AnchorsKeep ==
    ASSUME TypeOK, Extends, AnchorsOnChain, NEW p \in Replicas, NEW a \in anchors[p]
    PROVE  \E n \in 1 .. Len(chain') : a = IntegrityOf(chain'[n])
<1>1. PICK n \in 1 .. Len(chain) : a = IntegrityOf(chain[n])
  BY DEF AnchorsOnChain
<1> QED
  BY <1>1 DEF Extends, TypeOK

\* A step that leaves the list alone keeps what is about the list only.
LEMMA QuietStep ==
    ASSUME TypeOK, ChainNeverForks, HeadIsTail, UNCHANGED <<chain, head, headHash>>
    PROVE  ChainNeverForks' /\ HeadIsTail' /\ Extends
  BY DEF TypeOK, ChainNeverForks, HeadIsTail, HashAt, Extends

\* A step of replica p that may extend the list, and leaves the other
\* replicas, the commands under way and the anchors alone.
LEMMA LocalStep ==
    ASSUME ChainInv, TypeInv', NEW p \in Replicas, ReplicaOnChain(p)',
           ChainNeverForks', HeadIsTail', Extends,
           UNCHANGED <<inFlight, anchors>>,
           \A q \in Replicas \ {p} : /\ pc'[q] = pc[q] /\ built'[q] = built[q]
                                     /\ attempt'[q] = attempt[q] /\ startLen'[q] = startLen[q]
    PROVE  ChainInv'
<1> USE DEF ChainInv, TypeInv
<1>1. BuiltOnChain'
  BY OthersKeep DEF BuiltOnChain
<1>2. InFlightOnChain'
  BY InFlightKeep DEF InFlightOnChain
<1>3. AnchorsOnChain'
  BY AnchorsKeep DEF AnchorsOnChain
<1> QED
  BY <1>1, <1>2, <1>3


LEMMA InitOnChain == Init => ChainInv
<1> SUFFICES ASSUME Init PROVE ChainInv
  OBVIOUS
<1>1. TypeInv
  BY InitTyped
<1> QED
  BY <1>1 DEF Init, ChainInv, ChainNeverForks, LinearChain, HeadIsTail, HashAt, NoIntegrity,
              BuiltOnChain, ReplicaOnChain, InFlightOnChain, AnchorsOnChain

LEMMA NextOnChain == ChainInv /\ [Next]_vars => ChainInv'
<1> SUFFICES ASSUME ChainInv, [Next]_vars PROVE ChainInv'
  OBVIOUS
<1> USE DEF ChainInv, TypeInv
<1>t. TypeInv'
  BY NextTyped
<1> USE <1>t
<1>0. CASE UNCHANGED vars
  BY <1>0 DEF vars, redisVars, procVars, ChainNeverForks, HeadIsTail, HashAt, BuiltOnChain,
              ReplicaOnChain, BuiltOn, InFlightOnChain, AnchorsOnChain
<1>1. ASSUME NEW p \in Replicas, NEW e \in Events, Submit(p, e) PROVE ChainInv'
  <2>1. ChainNeverForks' /\ HeadIsTail' /\ Extends
    BY <1>1, QuietStep DEF Submit, redisVars
  <2>2. ReplicaOnChain(p)'
    BY <1>1, <2>1, OthersKeep DEF Submit, BuiltOnChain
  <2> QED
    BY <1>1, <2>1, <2>2, LocalStep DEF Submit, redisVars
<1>2. ASSUME NEW p \in Replicas, Begin(p) PROVE ChainInv'
  <2>1. ReplicaOnChain(p)'
    BY <1>2 DEF Begin, ReplicaOnChain, BuiltOnChain, TypeOK, redisVars
  <2>2. ChainNeverForks' /\ HeadIsTail' /\ Extends
    BY <1>2, QuietStep DEF Begin, redisVars
  <2> QED
    BY <1>2, <2>1, <2>2, LocalStep DEF Begin, TypeOK, redisVars
<1>3. ASSUME NEW p \in Replicas, DeadlinePasses(p) PROVE ChainInv'
  <2>1. ReplicaOnChain(p)'
    BY <1>3 DEF DeadlinePasses, ReplicaOnChain, BuiltOnChain, TypeOK, redisVars
  <2>2. ChainNeverForks' /\ HeadIsTail' /\ Extends
    BY <1>3, QuietStep DEF DeadlinePasses, redisVars
  <2> QED
    BY <1>3, <2>1, <2>2, LocalStep DEF DeadlinePasses, TypeOK, redisVars
<1>4. ASSUME NEW p \in Replicas, Acquire(p) PROVE ChainInv'
  <2>1. ReplicaOnChain(p)'
    BY <1>4 DEF Acquire, ReplicaOnChain, BuiltOnChain, TypeOK, redisVars
  <2>2. ChainNeverForks' /\ HeadIsTail' /\ Extends
    BY <1>4, QuietStep DEF Acquire, redisVars
  <2> QED
    BY <1>4, <2>1, <2>2, LocalStep DEF Acquire, TypeOK, redisVars
<1>5. ASSUME NEW p \in Replicas, AcquireTimeout(p) PROVE ChainInv'
  <2>1. ReplicaOnChain(p)'
    BY <1>5 DEF AcquireTimeout, RejectUnlocked, ReplicaOnChain, BuiltOnChain, TypeOK, redisVars
  <2>2. ChainNeverForks' /\ HeadIsTail' /\ Extends
    BY <1>5, QuietStep DEF AcquireTimeout, RejectUnlocked, redisVars
  <2> QED
    BY <1>5, <2>1, <2>2, LocalStep DEF AcquireTimeout, RejectUnlocked, TypeOK, redisVars
<1>6. ASSUME NEW p \in Replicas, AcquireError(p) PROVE ChainInv'
  <2>1. ReplicaOnChain(p)'
    BY <1>6 DEF AcquireError, RejectUnlocked, ReplicaOnChain, BuiltOnChain, TypeOK, redisVars
  <2>2. ChainNeverForks' /\ HeadIsTail' /\ Extends
    BY <1>6, QuietStep DEF AcquireError, RejectUnlocked, redisVars
  <2> QED
    BY <1>6, <2>1, <2>2, LocalStep DEF AcquireError, RejectUnlocked, TypeOK, redisVars
<1>7. ASSUME LockExpires PROVE ChainInv'
  BY <1>7 DEF LockExpires, redisVars, procVars, ChainNeverForks, HeadIsTail, HashAt, BuiltOnChain,
              ReplicaOnChain, BuiltOn, InFlightOnChain, AnchorsOnChain
<1>8. ASSUME NEW p \in Replicas, Release(p) PROVE ChainInv'
  <2>1. ReplicaOnChain(p)'
    BY <1>8 DEF Release, Resolve, ReplicaOnChain, BuiltOnChain, TypeOK, redisVars
  <2>2. ChainNeverForks' /\ HeadIsTail' /\ Extends
    BY <1>8, QuietStep DEF Release, Resolve, redisVars
  <2> QED
    BY <1>8, <2>1, <2>2, LocalStep DEF Release, Resolve, TypeOK, redisVars
<1>9. ASSUME NEW p \in Replicas, ReleaseError(p) PROVE ChainInv'
  <2>1. ReplicaOnChain(p)'
    BY <1>9 DEF ReleaseError, Resolve, ReplicaOnChain, BuiltOnChain, TypeOK, redisVars
  <2>2. ChainNeverForks' /\ HeadIsTail' /\ Extends
    BY <1>9, QuietStep DEF ReleaseError, Resolve, redisVars
  <2> QED
    BY <1>9, <2>1, <2>2, LocalStep DEF ReleaseError, Resolve, TypeOK, redisVars
<1>10. ASSUME NEW p \in Replicas, ReadHead(p) PROVE ChainInv'
  <2>1. ChainNeverForks' /\ HeadIsTail' /\ Extends
    BY <1>10, QuietStep DEF ReadHead, redisVars
  <2>2. Len(chain) \in Nat /\ startLen[p] \in Nat /\ attempt[p] \in Nat
    BY DEF TypeOK
  <2>3. BuiltOn(BuildIntegrityRecord(head, current[p]), Len(chain))
    BY <2>2 DEF BuiltOn, BuildIntegrityRecord, HeadIsTail
  <2>4. /\ startLen[p] + attempt[p] <= Len(chain)
        /\ built'[p] = BuildIntegrityRecord(head, current[p]) /\ pc'[p] = "persist"
        /\ chain' = chain /\ startLen'[p] = startLen[p] /\ attempt'[p] = attempt[p]
    BY <1>10 DEF ReadHead, ReplicaOnChain, BuiltOnChain, TypeOK, redisVars
  <2>5. BuiltOn(built[p], Len(chain))'
    BY <2>3, <2>4 DEF BuiltOn, HashAt
  <2>6. ReplicaOnChain(p)'
    BY <2>2, <2>4, <2>5 DEF ReplicaOnChain
  <2> QED
    BY <1>10, <2>1, <2>6, LocalStep DEF ReadHead, TypeOK, redisVars
<1>11. ASSUME NEW p \in Replicas, ReadError(p) PROVE ChainInv'
  <2>1. ReplicaOnChain(p)'
    BY <1>11 DEF ReadError, Finish, ReplicaOnChain, BuiltOnChain, TypeOK, redisVars
  <2>2. ChainNeverForks' /\ HeadIsTail' /\ Extends
    BY <1>11, QuietStep DEF ReadError, Finish, redisVars
  <2> QED
    BY <1>11, <2>1, <2>2, LocalStep DEF ReadError, Finish, TypeOK, redisVars
<1>12. ASSUME NEW p \in Replicas, PersistCommit(p) PROVE ChainInv'
  <2>1. PICK n \in startLen[p] + attempt[p] .. Len(chain) : BuiltOn(built[p], n)
    BY <1>12 DEF PersistCommit, ReplicaOnChain, BuiltOnChain
  <2>2. /\ n \in 0 .. Len(chain) /\ built[p] \in Record /\ Len(chain) \in Nat
        /\ startLen[p] \in Nat /\ attempt[p] \in Nat /\ startLen[p] + attempt[p] <= Len(chain)
    BY <1>12, <2>1 DEF PersistCommit, FieldsFilled, TypeOK
  <2>3. /\ ChainNeverForks' /\ HeadIsTail' /\ Extends
        /\ Len(chain') = Len(chain) + 1 /\ chain'[Len(chain')] = built[p]
    BY <1>12, <2>1, <2>2, AppendScriptSafe DEF PersistCommit
  <2>4. /\ pc'[p] = "anchor" /\ built'[p] = built[p]
        /\ attempt'[p] = attempt[p] /\ startLen'[p] = startLen[p]
    BY <1>12 DEF PersistCommit, TypeOK
  <2>5. ReplicaOnChain(p)'
    BY <2>2, <2>3, <2>4 DEF ReplicaOnChain
  <2> QED
    BY <1>12, <2>3, <2>5, LocalStep DEF PersistCommit, TypeOK
<1>13. ASSUME NEW p \in Replicas, PersistConflict(p) PROVE ChainInv'
  <2>1. PICK n \in startLen[p] + attempt[p] .. Len(chain) : BuiltOn(built[p], n)
    BY <1>13 DEF PersistConflict, ReplicaOnChain, BuiltOnChain
  <2>2. /\ n \in 0 .. Len(chain) /\ built[p] \in Record /\ Len(chain) \in Nat
        /\ startLen[p] \in Nat /\ attempt[p] \in Nat
    BY <1>13, <2>1 DEF PersistConflict, FieldsFilled, TypeOK
  <2>3. n # Len(chain)
    BY <1>13, <2>1, <2>2, FenceMeansTail DEF PersistConflict
  <2>4. startLen[p] + attempt[p] + 1 <= Len(chain)
    BY <2>1, <2>2, <2>3
  <2>5. ChainNeverForks' /\ HeadIsTail' /\ Extends
    BY <1>13, <2>1, <2>2, AppendScriptSafe DEF PersistConflict
  <2>6. /\ pc' = [pc EXCEPT ![p] = "read"] \/ pc' = [pc EXCEPT ![p] = "release"]
        /\ attempt' = [attempt EXCEPT ![p] = attempt[p] + 1]
        /\ UNCHANGED <<startLen, built, inFlight, anchors>>
    BY <1>13 DEF PersistConflict, Finish
  <2>7. ReplicaOnChain(p)'
    BY <2>2, <2>4, <2>5, <2>6 DEF ReplicaOnChain, Extends, TypeOK
  <2>8. \A q \in Replicas \ {p} : /\ pc'[q] = pc[q] /\ built'[q] = built[q]
                                  /\ attempt'[q] = attempt[q] /\ startLen'[q] = startLen[q]
    BY <2>6 DEF TypeOK
  <2> QED
    BY <2>5, <2>6, <2>7, <2>8, LocalStep
<1>14. ASSUME NEW p \in Replicas, PersistError(p) PROVE ChainInv'
  <2>1. PICK n \in startLen[p] + attempt[p] .. Len(chain) : BuiltOn(built[p], n)
    BY <1>14 DEF PersistError, ReplicaOnChain, BuiltOnChain
  <2>2. /\ n \in 0 .. Len(chain) /\ built[p] \in Record /\ Len(chain) \in Nat
        /\ startLen[p] \in Nat /\ attempt[p] \in Nat /\ startLen[p] + attempt[p] <= Len(chain)
    BY <1>14, <2>1 DEF PersistError, FieldsFilled, TypeOK
  <2>3. /\ pc' = [pc EXCEPT ![p] = "release"]
        /\ UNCHANGED <<built, attempt, startLen, anchors>>
        /\ inFlight' = inFlight \/ inFlight' = inFlight \cup {built[p]}
        /\ AppendScript(built[p]) \/ UNCHANGED <<chain, head, headHash>>
    BY <1>14 DEF PersistError, Finish, redisVars
  <2>4. ChainNeverForks' /\ HeadIsTail' /\ Extends
    BY <2>1, <2>2, <2>3, AppendScriptSafe, QuietStep
  <2>5. ReplicaOnChain(p)'
    BY <2>2, <2>3, <2>4 DEF ReplicaOnChain, Extends, TypeOK
  <2>6. ASSUME NEW q \in Replicas PROVE ReplicaOnChain(q)'
    BY <2>3, <2>4, <2>5, OthersKeep DEF BuiltOnChain, TypeOK
  <2>7. \E m \in 0 .. Len(chain') : BuiltOn(built[p], m)'
    <3>1. HashAt(n)' = HashAt(n) /\ built'[p] = built[p] /\ n \in 0 .. Len(chain')
      BY <2>2, <2>3, <2>4 DEF HashAt, Extends
    <3> QED
      BY <2>1, <3>1 DEF BuiltOn
  <2>8. InFlightOnChain'
    BY <2>3, <2>4, <2>7, InFlightKeep DEF InFlightOnChain, BuiltOn
  <2>9. AnchorsOnChain'
    BY <2>3, <2>4, AnchorsKeep DEF AnchorsOnChain
  <2> QED
    BY <2>4, <2>6, <2>8, <2>9 DEF BuiltOnChain
<1>15. ASSUME NEW r \in inFlight, LateAppend(r) PROVE ChainInv'
  <2>1. PICK n \in 0 .. Len(chain) : BuiltOn(r, n)
    BY DEF InFlightOnChain
  <2>2. r \in Record
    BY DEF TypeOK
  <2>3. ChainNeverForks' /\ HeadIsTail' /\ Extends
    BY <1>15, <2>1, <2>2, AppendScriptSafe DEF LateAppend
  <2>4. ASSUME NEW q \in Replicas PROVE ReplicaOnChain(q)'
    BY <1>15, <2>3, OthersKeep DEF LateAppend, BuiltOnChain, procVars
  <2>5. InFlightOnChain'
    BY <1>15, <2>3, InFlightKeep DEF LateAppend, InFlightOnChain
  <2>6. AnchorsOnChain'
    BY <1>15, <2>3, AnchorsKeep DEF LateAppend, AnchorsOnChain
  <2> QED
    BY <2>3, <2>4, <2>5, <2>6 DEF BuiltOnChain
<1>16. ASSUME NEW p \in Replicas, WriteAnchor(p) PROVE ChainInv'
  <2>1. ChainNeverForks' /\ HeadIsTail' /\ Extends
    BY <1>16, QuietStep DEF WriteAnchor, redisVars
  <2>2. /\ pc' = [pc EXCEPT ![p] = "release"]
        /\ UNCHANGED <<chain, built, attempt, startLen, inFlight>>
    BY <1>16 DEF WriteAnchor, Finish, redisVars
  <2>3. ReplicaOnChain(p)'
    BY <1>16, <2>2 DEF WriteAnchor, ReplicaOnChain, BuiltOnChain, TypeOK
  <2>4. ASSUME NEW q \in Replicas PROVE ReplicaOnChain(q)'
    BY <2>1, <2>2, <2>3, OthersKeep DEF BuiltOnChain, TypeOK
  <2>5. InFlightOnChain'
    BY <2>1, <2>2, InFlightKeep DEF InFlightOnChain
  <2>6. \E n \in 1 .. Len(chain) : IntegrityOf(built[p]) = IntegrityOf(chain[n])
    BY <1>16 DEF WriteAnchor, ReplicaOnChain, BuiltOnChain
  <2>7. ASSUME NEW q \in Replicas, NEW a \in anchors'[q]
        PROVE  a \in anchors[q] \/ a = IntegrityOf(built[p])
    BY <1>16 DEF WriteAnchor, TypeOK
  <2>8. AnchorsOnChain'
    BY <2>2, <2>6, <2>7 DEF AnchorsOnChain
  <2> QED
    BY <2>1, <2>4, <2>5, <2>8 DEF BuiltOnChain
<1>17. ASSUME NEW p \in Replicas, AnchorError(p) PROVE ChainInv'
  <2>1. ReplicaOnChain(p)'
    BY <1>17 DEF AnchorError, Finish, ReplicaOnChain, BuiltOnChain, TypeOK, redisVars
  <2>2. ChainNeverForks' /\ HeadIsTail' /\ Extends
    BY <1>17, QuietStep DEF AnchorError, Finish, redisVars
  <2> QED
    BY <1>17, <2>1, <2>2, LocalStep DEF AnchorError, Finish, TypeOK, redisVars
<1>18. ASSUME NEW p \in Replicas, Crash(p) PROVE ChainInv'
  <2>1. ChainNeverForks' /\ HeadIsTail' /\ Extends
    BY <1>18, QuietStep DEF Crash
  <2>2. ASSUME NEW q \in Replicas, q # p PROVE ReplicaOnChain(q)'
    BY <1>18, <2>1, <2>2, OthersKeep DEF Crash, BuiltOnChain, TypeOK
  <2>3. ReplicaOnChain(p)'
    BY <1>18 DEF Crash, ReplicaOnChain, TypeOK
  <2>4. ASSUME NEW r \in inFlight'
        PROVE  \E n \in 0 .. Len(chain') : BuiltOn(r, n)'
    <3>1. CASE r \in inFlight
      BY <2>1, <3>1, InFlightKeep
    <3>2. CASE r \notin inFlight
      <4>1. r = built[p] /\ pc[p] = "persist"
        BY <1>18, <2>4, <3>2 DEF Crash
      <4>2. PICK n \in startLen[p] + attempt[p] .. Len(chain) : BuiltOn(r, n)
        BY <4>1 DEF ReplicaOnChain, BuiltOnChain
      <4>3. n \in 0 .. Len(chain) /\ chain' = chain
        BY <1>18, <4>2 DEF Crash, TypeOK
      <4> QED
        BY <4>2, <4>3 DEF BuiltOn, HashAt
    <3> QED
      BY <3>1, <3>2
  <2>5. AnchorsOnChain'
    BY <1>18 DEF Crash, AnchorsOnChain
  <2> QED
    BY <2>1, <2>2, <2>3, <2>4, <2>5 DEF BuiltOnChain, InFlightOnChain
<1>19. ASSUME NEW p \in Replicas, Restart(p) PROVE ChainInv'
  <2>1. ReplicaOnChain(p)'
    BY <1>19 DEF Restart, ReplicaOnChain, BuiltOnChain, TypeOK, redisVars
  <2>2. ChainNeverForks' /\ HeadIsTail' /\ Extends
    BY <1>19, QuietStep DEF Restart, redisVars
  <2> QED
    BY <1>19, <2>1, <2>2, LocalStep DEF Restart, TypeOK, redisVars
<1>20. ASSUME NEW p \in Replicas, NeverAnswered(p) PROVE ChainInv'
  <2>1. ChainNeverForks' /\ HeadIsTail' /\ Extends
    BY <1>20, QuietStep DEF NeverAnswered
  <2>2. ASSUME NEW q \in Replicas, q # p PROVE ReplicaOnChain(q)'
    BY <1>20, <2>1, <2>2, OthersKeep DEF NeverAnswered, BuiltOnChain, TypeOK
  <2>3. ReplicaOnChain(p)'
    BY <1>20 DEF NeverAnswered, ReplicaOnChain, TypeOK
  <2>4. ASSUME NEW r \in inFlight'
        PROVE  \E n \in 0 .. Len(chain') : BuiltOn(r, n)'
    <3>1. CASE r \in inFlight
      BY <2>1, <3>1, InFlightKeep
    <3>2. CASE r \notin inFlight
      <4>1. r = built[p] /\ pc[p] = "persist"
        BY <1>20, <2>4, <3>2 DEF NeverAnswered
      <4>2. PICK n \in startLen[p] + attempt[p] .. Len(chain) : BuiltOn(r, n)
        BY <4>1 DEF ReplicaOnChain, BuiltOnChain
      <4>3. n \in 0 .. Len(chain) /\ chain' = chain
        BY <1>20, <4>2 DEF NeverAnswered, TypeOK
      <4> QED
        BY <4>2, <4>3 DEF BuiltOn, HashAt
    <3> QED
      BY <3>1, <3>2
  <2>5. AnchorsOnChain'
    BY <1>20 DEF NeverAnswered, AnchorsOnChain
  <2> QED
    BY <2>1, <2>2, <2>3, <2>4, <2>5 DEF BuiltOnChain, InFlightOnChain
<1> QED
  BY <1>0, <1>1, <1>2, <1>3, <1>4, <1>5, <1>6, <1>7, <1>8, <1>9, <1>10, <1>11, <1>12,
     <1>13, <1>14, <1>15, <1>16, <1>17, <1>18, <1>19, <1>20 DEF Next, Step, Fault

LEMMA AlwaysOnChain == Spec => []ChainInv
  BY InitOnChain, NextOnChain, PTL DEF Spec

\* The shared chain never forks, has no gap and no rewritten record, whatever
\* the lock's TTL, the network and crashing replicas do.
THEOREM NeverForks == Spec => []ChainNeverForks
<1>1. ChainInv => ChainNeverForks
  BY DEF ChainInv
<1> QED
  BY <1>1, AlwaysOnChain, PTL

\* verifyAuditChain accepts the shared chain with any replica's anchors.
THEOREM AnchorsAgree == Spec => []AnchorsNeverAccuse
<1>1. ASSUME ChainInv PROVE AnchorsNeverAccuse
  <2> SUFFICES ASSUME NEW p \in Replicas PROVE VerifyAuditChain(chain, anchors[p])
    BY DEF AnchorsNeverAccuse
  <2>1. ASSUME NEW i \in 1 .. Len(chain) PROVE RecordAccepted(chain, {}, i) /\ chain[i].sequence = i
    BY <1>1 DEF ChainInv, ChainNeverForks, LinearChain, RecordAccepted
  <2>2. ASSUME NEW a \in anchors[p]
        PROVE  /\ a.sequence \in 1 .. Len(chain)
               /\ a.eventHash = chain[a.sequence].eventHash
    <3>1. PICK n \in 1 .. Len(chain) : a = IntegrityOf(chain[n])
      BY <1>1 DEF ChainInv, AnchorsOnChain
    <3> QED
      BY <2>1, <3>1 DEF IntegrityOf
  <2>3. ASSUME NEW i \in 1 .. Len(chain) PROVE RecordAccepted(chain, anchors[p], i)
    BY <2>1, <2>2 DEF RecordAccepted
  <2>4. Len(chain) \in Nat
    BY <1>1 DEF ChainInv, TypeInv, TypeOK
  <2> QED
    BY <2>2, <2>3, <2>4 DEF VerifyAuditChain
<1> QED
  BY <1>1, AlwaysOnChain, PTL

\* A transaction can exhaust its retries only on a chain that grew at least
\* that often since it took the lock.
THEOREM ConflictsPaid == Spec => []ConflictsArePaidFor
<1>1. ASSUME ChainInv PROVE ConflictsArePaidFor
  <2>1. ASSUME NEW p \in Replicas
        PROVE  Len(chain) \in Nat /\ startLen[p] \in Nat /\ attempt[p] \in Nat
    BY <1>1 DEF ChainInv, TypeInv, TypeOK
  <2> QED
    BY <1>1, <2>1 DEF ChainInv, BuiltOnChain, ReplicaOnChain, ConflictsArePaidFor
<1> QED
  BY <1>1, AlwaysOnChain, PTL

\* No replica ever deletes a lock key that holds another replica's token.
THEOREM OwnReleaseOnly == Spec => OnlyOwnLockReleased
<1>1. ASSUME [Next]_vars, lock # NoOne, lock' # lock PROVE LockExpires \/ Release(lock)
  <2>1. LockExpires \/ \E p \in Replicas : Release(p)
    BY <1>1 DEF Next, Step, Fault, vars, redisVars, procVars, Submit, Begin, DeadlinePasses,
                Acquire, AcquireTimeout, AcquireError, RejectUnlocked, ReadHead, ReadError,
                PersistCommit, PersistConflict, PersistError, LateAppend, WriteAnchor,
                AnchorError, ReleaseError, NeverAnswered, Crash, Restart
  <2> QED
    BY <1>1, <2>1 DEF Release, CompareAndDelete
<1> QED
  BY <1>1, PTL DEF Spec, OnlyOwnLockReleased


-----------------------------------------------------------------------------
(***************************************************************************)
(* The abstract log.  An event reaches the chain at most once because at   *)
(* most one copy of it is anywhere: in a queue, in its replica's hands, or *)
(* in a command nobody waits for.                                          *)
(***************************************************************************)

LogOf(list) == [i \in 1 .. Len(list) |-> list[i].event]

Logged == {chain[i].event : i \in 1 .. Len(chain)}

\* An event that is waiting or being written waits in one place, and its
\* caller has heard nothing yet.
HeldOnce ==
    /\ \A p, q \in Replicas : p # q => PendingOf(p) \cap PendingOf(q) = {}
    /\ \A p \in Replicas : \A i, j \in 1 .. Len(queue[p]) : i # j => queue[p][i] # queue[p][j]
    /\ \A p \in Replicas : \A i \in 1 .. Len(queue[p]) : queue[p][i] # current[p]
    /\ \A p \in Replicas : \A e \in PendingOf(p) : outcome[e] = "pending"

\* A replica has an event exactly while it is busy with one, and the record it
\* built is for that event.
EventPlaced ==
    \A p \in Replicas :
        /\ pc[p] \in {"idle", "down"} => current[p] = NoEvent
        /\ pc[p] \in {"persist", "anchor"} => built[p].event = current[p]

\* The event is neither in the chain nor on its way there.
Untried(e) == e \notin Logged /\ \A r \in inFlight : r.event # e

\* The event has not been sent: its caller has not called yet, or it is in a
\* queue, or its replica is about to send it.
Waiting(e) ==
    \/ outcome[e] = "new"
    \/ \E p \in Replicas : \E i \in 1 .. Len(queue[p]) : queue[p][i] = e
    \/ \E p \in Replicas : pc[p] \in {"lock", "read", "persist"} /\ current[p] = e

UntriedYet ==
    \A e \in Events : Waiting(e) => Untried(e)

\* No event is on its way twice, or was logged already, or is acknowledged.
OnTheirWay ==
    \A r \in inFlight :
        /\ r.event \notin Logged
        /\ outcome[r.event] \in {"pending", "rejected"}
        /\ \A s \in inFlight : s.event = r.event => s = r

\* A transaction that goes well has its event in the chain.
DoneIsLogged ==
    \A p \in Replicas :
        pc[p] = "anchor" \/ (pc[p] = "release" /\ result[p] = "ok") => current[p] \in Logged

EventInv == HeldOnce /\ EventPlaced /\ UntriedYet /\ OnTheirWay /\ DoneIsLogged

\* HeldOnce, action by action.
LEMMA HeldBy ==
    ASSUME NEW p \in Replicas, NEW e
    PROVE  e \in PendingOf(p) <=>
               \/ \E i \in 1 .. Len(queue[p]) : queue[p][i] = e
               \/ e = current[p] /\ e # NoEvent
<1> DEFINE queued == {queue[p][i] : i \in 1 .. Len(queue[p])}
           writing == IF current[p] = NoEvent THEN {} ELSE {current[p]}
<1>1. e \in writing <=> e = current[p] /\ e # NoEvent
  OBVIOUS
<1>2. e \in queued <=> \E i \in 1 .. Len(queue[p]) : queue[p][i] = e
  OBVIOUS
<1>3. PendingOf(p) = queued \cup writing
  BY DEF PendingOf
<1> HIDE DEF queued, writing
<1> QED
  BY <1>1, <1>2, <1>3

LEMMA HeldByAfter ==
    ASSUME NEW p \in Replicas, NEW e
    PROVE  e \in PendingOf(p)' <=>
               \/ \E i \in 1 .. Len(queue'[p]) : queue'[p][i] = e
               \/ e = current'[p] /\ e # NoEvent
<1> DEFINE queued == {queue'[p][i] : i \in 1 .. Len(queue'[p])}
           writing == IF current'[p] = NoEvent THEN {} ELSE {current'[p]}
<1>1. e \in writing <=> e = current'[p] /\ e # NoEvent
  OBVIOUS
<1>2. e \in queued <=> \E i \in 1 .. Len(queue'[p]) : queue'[p][i] = e
  OBVIOUS
<1>3. PendingOf(p)' = queued \cup writing
  BY DEF PendingOf
<1> HIDE DEF queued, writing
<1> QED
  BY <1>1, <1>2, <1>3

LEMMA QueuedIsHeld ==
    ASSUME NEW p \in Replicas, NEW i \in 1 .. Len(queue[p])
    PROVE  queue[p][i] \in PendingOf(p)
<1> DEFINE e == queue[p][i]
<1>1. \E j \in 1 .. Len(queue[p]) : queue[p][j] = e
  OBVIOUS
<1> HIDE DEF e
<1>2. e \in PendingOf(p)
  BY <1>1, HeldBy
<1> QED
  BY <1>2 DEF e

\* A process lets go of some of its events, whose callers hear something; the
\* others' are left alone.
LEMMA LetGo ==
    ASSUME TypeOK, HeldOnce, NEW p \in Replicas,
           \A q \in Replicas : q # p => queue'[q] = queue[q] /\ current'[q] = current[q],
           current'[p] = NoEvent,
           queue'[p] = queue[p] \/ queue'[p] = <<>>,
           \A e \in Events : outcome'[e] = outcome[e] \/ (e \in PendingOf(p) /\ e \notin PendingOf(p)')
    PROVE  HeldOnce'
<1>1. \A q \in Replicas : PendingOf(q)' \subseteq PendingOf(q)
  BY HeldBy, HeldByAfter
<1>2. \A q \in Replicas : queue[q] \in Seq(Events)
  BY DEF TypeOK
<1>3. \A q \in Replicas : PendingOf(q) \subseteq Events
  BY <1>2 DEF PendingOf, TypeOK
<1>4. \A q \in Replicas : \A e \in PendingOf(q)' : outcome'[e] = "pending"
  <2> SUFFICES ASSUME NEW q \in Replicas, NEW e \in PendingOf(q)' PROVE outcome'[e] = "pending"
    OBVIOUS
  <2>1. e \in Events /\ e \in PendingOf(q) /\ outcome[e] = "pending"
    BY <1>1, <1>3 DEF HeldOnce
  <2>2. ~(e \in PendingOf(p) /\ e \notin PendingOf(p)')
    BY <1>1, <2>1 DEF HeldOnce
  <2> QED
    BY <2>1, <2>2
<1>5. \A q \in Replicas : \A i \in 1 .. Len(queue'[q]) : queue'[q][i] # current'[q]
  BY <1>2 DEF HeldOnce
<1>6. \A q \in Replicas : \A i, j \in 1 .. Len(queue'[q]) : i # j => queue'[q][i] # queue'[q][j]
  BY DEF HeldOnce
<1>7. \A q, r \in Replicas : q # r => PendingOf(q)' \cap PendingOf(r)' = {}
  BY <1>1 DEF HeldOnce
<1> QED
  BY <1>4, <1>5, <1>6, <1>7 DEF HeldOnce

LEMMA SettleHeld ==
    ASSUME TypeOK, HeldOnce, NEW p \in Replicas, NEW how, queue' = queue,
           current' = [current EXCEPT ![p] = NoEvent], outcome' = [outcome EXCEPT ![current[p]] = how]
    PROVE  HeldOnce'
<1>1. DOMAIN current = Replicas /\ DOMAIN outcome = Events
  BY DEF TypeOK
<1>2. ASSUME NEW e \in Events, outcome'[e] # outcome[e]
      PROVE  e \in PendingOf(p) /\ e \notin PendingOf(p)'
  <2>1. e = current[p] /\ e # NoEvent
    BY <1>1, <1>2
  <2>2. e \in PendingOf(p)
    BY <2>1, HeldBy
  <2>3. ~\E i \in 1 .. Len(queue[p]) : queue[p][i] = e
    BY <2>1 DEF HeldOnce
  <2> QED
    BY <1>1, <2>1, <2>2, <2>3, HeldByAfter
<1> QED
  BY <1>1, <1>2, LetGo

LEMMA StaysHeldOnce ==
    ASSUME TypeOK, HeldOnce, [Next]_vars
    PROVE  HeldOnce'
<1> USE DEF redisVars, procVars
<1>q. queue \in [Replicas -> Seq(Events)] /\ current \in [Replicas -> Events \cup {NoEvent}]
  BY DEF TypeOK
<1>o. DOMAIN outcome = Events
  BY DEF TypeOK
<1>0. CASE UNCHANGED <<queue, current, outcome>>
  <2>1. \A p \in Replicas : PendingOf(p)' = PendingOf(p)
    BY <1>0 DEF PendingOf
  <2> QED
    BY <1>0, <2>1 DEF HeldOnce
<1>1. ASSUME NEW p \in Replicas, NEW e \in Events, Submit(p, e) PROVE HeldOnce'
  <2>1. /\ queue' = [queue EXCEPT ![p] = Append(queue[p], e)] /\ current' = current
        /\ outcome[e] = "new" /\ outcome' = [outcome EXCEPT ![e] = "pending"]
    BY <1>1 DEF Submit
  <2>2. /\ Len(queue'[p]) = Len(queue[p]) + 1 /\ queue'[p][Len(queue[p]) + 1] = e
        /\ \A i \in 1 .. Len(queue[p]) : queue'[p][i] = queue[p][i]
        /\ Len(queue[p]) \in Nat
    BY <1>q, <2>1
  <2>3. \A q \in Replicas : e \notin PendingOf(q)
    BY <2>1 DEF HeldOnce
  <2>4. \A q \in Replicas : /\ \A i \in 1 .. Len(queue[q]) : queue[q][i] # e
                         /\ current[q] # e
    BY <2>3, HeldBy
  <2>5. \A q \in Replicas : q # p => queue'[q] = queue[q] /\ PendingOf(q)' = PendingOf(q)
    BY <1>q, <2>1 DEF PendingOf
  <2>6. PendingOf(p)' \subseteq PendingOf(p) \cup {e}
    BY <2>1, <2>2, HeldBy, HeldByAfter
  <2>7. \A q \in Replicas : \A f \in PendingOf(q)' : outcome'[f] = "pending"
    BY <1>o, <2>1, <2>3, <2>5, <2>6 DEF HeldOnce
  <2>8. \A q, r \in Replicas : q # r => PendingOf(q)' \cap PendingOf(r)' = {}
    BY <2>3, <2>5, <2>6 DEF HeldOnce
  <2>9. \A q \in Replicas : \A i, j \in 1 .. Len(queue'[q]) : i # j => queue'[q][i] # queue'[q][j]
    <3>1. ASSUME NEW i \in 1 .. Len(queue'[p]), NEW j \in 1 .. Len(queue'[p]), i < j
          PROVE  queue'[p][i] # queue'[p][j]
      <4>1. i \in 1 .. Len(queue[p]) /\ queue'[p][i] = queue[p][i]
        BY <2>2, <3>1
      <4>2. CASE j = Len(queue[p]) + 1
        BY <2>2, <2>4, <4>1, <4>2
      <4>3. CASE j \in 1 .. Len(queue[p])
        BY <2>2, <3>1, <4>1, <4>3 DEF HeldOnce
      <4> QED
        BY <2>2, <4>2, <4>3
    <3>2. \A i, j \in 1 .. Len(queue'[p]) : i # j => i < j \/ j < i
      BY <2>2
    <3>3. \A i, j \in 1 .. Len(queue'[p]) : i # j => queue'[p][i] # queue'[p][j]
      BY <3>1, <3>2
    <3> QED
      BY <2>5, <3>3 DEF HeldOnce
  <2>10. \A q \in Replicas : \A i \in 1 .. Len(queue'[q]) : queue'[q][i] # current'[q]
    <3>1. \A i \in 1 .. Len(queue'[p]) : queue'[p][i] # current[p]
      BY <2>2, <2>4 DEF HeldOnce
    <3> QED
      BY <2>1, <2>5, <3>1 DEF HeldOnce
  <2> QED
    BY <2>7, <2>8, <2>9, <2>10 DEF HeldOnce
<1>2. ASSUME NEW p \in Replicas, Begin(p) PROVE HeldOnce'
  <2>1. /\ queue' = [queue EXCEPT ![p] = Tail(queue[p])] /\ queue[p] # <<>>
        /\ current' = [current EXCEPT ![p] = Head(queue[p])] /\ outcome' = outcome
    BY <1>2 DEF Begin
  <2>2. \A i, j \in 1 .. Len(queue[p]) : i # j => queue[p][i] # queue[p][j]
    BY DEF HeldOnce
  <2>3. /\ Len(queue[p]) \in Nat /\ Len(queue[p]) > 0 /\ Len(queue'[p]) = Len(queue[p]) - 1
        /\ \A i \in 1 .. Len(queue'[p]) : queue'[p][i] = queue[p][i + 1]
        /\ current'[p] = queue[p][1] /\ queue[p][1] \in Events
    BY <1>q, <2>1
  <2>4. \A q \in Replicas : q # p => queue'[q] = queue[q] /\ current'[q] = current[q]
    BY <1>q, <2>1
  <2>5. PendingOf(p)' \subseteq PendingOf(p)
    <3> SUFFICES ASSUME NEW e \in PendingOf(p)' PROVE e \in PendingOf(p)
      OBVIOUS
    <3>1. CASE \E i \in 1 .. Len(queue'[p]) : queue'[p][i] = e
      <4>1. PICK i \in 1 .. Len(queue'[p]) : queue'[p][i] = e
        BY <3>1
      <4>2. i + 1 \in 1 .. Len(queue[p]) /\ queue[p][i + 1] = e
        BY <2>3, <4>1
      <4> QED
        BY <4>2, QueuedIsHeld
    <3>2. CASE e = current'[p]
      <4>1. 1 \in 1 .. Len(queue[p]) /\ queue[p][1] = e
        BY <2>3, <3>2
      <4> QED
        BY <4>1, QueuedIsHeld
    <3> QED
      BY <3>1, <3>2, HeldByAfter
  <2>6. \A q \in Replicas : PendingOf(q)' \subseteq PendingOf(q)
    BY <2>4, <2>5, HeldBy, HeldByAfter
  <2>7. \A i, j \in 1 .. Len(queue'[p]) : i # j => queue'[p][i] # queue'[p][j]
    <3> SUFFICES ASSUME NEW i \in 1 .. Len(queue'[p]), NEW j \in 1 .. Len(queue'[p]), i # j
                 PROVE  queue'[p][i] # queue'[p][j]
      OBVIOUS
    <3>1. i + 1 \in 1 .. Len(queue[p]) /\ j + 1 \in 1 .. Len(queue[p]) /\ i + 1 # j + 1
      BY <2>3
    <3>2. queue[p][i + 1] # queue[p][j + 1]
      BY <2>2, <3>1
    <3> QED
      BY <2>3, <3>2
  <2>8. \A i \in 1 .. Len(queue'[p]) : queue'[p][i] # current'[p]
    <3> SUFFICES ASSUME NEW i \in 1 .. Len(queue'[p]) PROVE queue'[p][i] # current'[p]
      OBVIOUS
    <3>1. i + 1 \in 1 .. Len(queue[p]) /\ 1 \in 1 .. Len(queue[p]) /\ i + 1 # 1
      BY <2>3
    <3>2. queue[p][i + 1] # queue[p][1]
      BY <2>2, <3>1
    <3> QED
      BY <2>3, <3>2
  <2> QED
    BY <2>1, <2>4, <2>6, <2>7, <2>8 DEF HeldOnce
<1>3. ASSUME NEW p \in Replicas,
             AcquireTimeout(p) \/ AcquireError(p) \/ Release(p) \/ ReleaseError(p)
      PROVE  HeldOnce'
  <2>1. PICK how : /\ queue' = queue /\ current' = [current EXCEPT ![p] = NoEvent]
                   /\ outcome' = [outcome EXCEPT ![current[p]] = how]
    BY <1>3 DEF AcquireTimeout, AcquireError, RejectUnlocked, Release, ReleaseError, Resolve
  <2> QED
    BY <2>1, SettleHeld
<1>4. ASSUME NEW p \in Replicas, Crash(p) PROVE HeldOnce'
  <2>1. /\ queue' = [queue EXCEPT ![p] = <<>>] /\ current' = [current EXCEPT ![p] = NoEvent]
        /\ outcome' = [e \in Events |-> IF e \in PendingOf(p) THEN "rejected" ELSE outcome[e]]
    BY <1>4 DEF Crash
  <2>2. queue'[p] = <<>> /\ current'[p] = NoEvent
    BY <1>q, <2>1
  <2>3. PendingOf(p)' = {}
    BY <2>2 DEF PendingOf
  <2>4. \A q \in Replicas : q # p => queue'[q] = queue[q] /\ current'[q] = current[q]
    BY <1>q, <2>1
  <2>5. \A e \in Events : outcome'[e] = outcome[e] \/ (e \in PendingOf(p) /\ e \notin PendingOf(p)')
    BY <2>1, <2>3
  <2> QED
    BY <2>2, <2>4, <2>5, LetGo
<1> QED
  BY <1>0, <1>1, <1>2, <1>3, <1>4
     DEF Next, Step, Fault, vars, DeadlinePasses, Acquire, LockExpires, ReadHead, ReadError, PersistCommit,
         PersistConflict, PersistError, LateAppend, WriteAnchor, AnchorError, NeverAnswered, Restart

LEMMA EventPlacedStep ==
    ASSUME TypeInv, EventPlaced, [Next]_vars
    PROVE  EventPlaced'
<1> USE DEF redisVars, procVars, Finish
<1>t. /\ DOMAIN pc = Replicas /\ DOMAIN built = Replicas /\ DOMAIN current = Replicas
      /\ \A p \in Replicas : pc[p] \in Busy => current[p] \in Events
  BY DEF TypeInv, TypeOK, FieldsFilled
<1>1. CASE UNCHANGED <<pc, built, current>>
  BY <1>1 DEF EventPlaced
<1>2. ASSUME NEW p \in Replicas, ReadHead(p) PROVE EventPlaced'
  <2>1. BuildIntegrityRecord(head, current[p]).event = current[p]
    BY DEF BuildIntegrityRecord
  <2> QED
    BY <1>t, <1>2, <2>1 DEF ReadHead, EventPlaced
<1>3. ASSUME NEW p \in Replicas,
             \/ Begin(p) \/ Acquire(p) \/ ReadError(p) \/ PersistCommit(p) \/ PersistConflict(p)
             \/ PersistError(p) \/ WriteAnchor(p) \/ AnchorError(p) \/ NeverAnswered(p) \/ Restart(p)
      PROVE  EventPlaced'
  BY <1>t, <1>3 DEF EventPlaced, Begin, Acquire, ReadError, PersistCommit, PersistConflict, PersistError,
                    WriteAnchor, AnchorError, NeverAnswered, Restart
<1>4. ASSUME NEW p \in Replicas,
             AcquireTimeout(p) \/ AcquireError(p) \/ Release(p) \/ ReleaseError(p) \/ Crash(p)
      PROVE  EventPlaced'
  BY <1>t, <1>4 DEF EventPlaced, AcquireTimeout, AcquireError, RejectUnlocked, Release, ReleaseError,
                    Resolve, Crash
<1> QED
  BY <1>1, <1>2, <1>3, <1>4 DEF Next, Step, Fault, vars, Submit, DeadlinePasses, LockExpires, LateAppend

\* What a step may do to the record of an event: leave it where it is, send it
\* for the first time, or have it arrive late.
Sends(p) ==
    /\ pc[p] = "persist" /\ pc'[p] \in {"anchor", "release", "silent", "down"}
    /\ \A q \in Replicas : q # p => pc'[q] = pc[q] /\ queue'[q] = queue[q] /\ current'[q] = current[q]
    /\ queue'[p] = queue[p] \/ queue'[p] = <<>>
    /\ outcome'[current[p]] \in {"pending", "rejected"}

Rests == chain' = chain /\ inFlight' \subseteq inFlight

Commits(p) == Sends(p) /\ chain' = Append(chain, built[p]) /\ inFlight' = inFlight

Departs(p) == Sends(p) /\ chain' = chain /\ inFlight' = inFlight \cup {built[p]}

Arrives(r) == chain' = Append(chain, r) /\ inFlight' = inFlight \ {r} /\ UNCHANGED <<procVars, outcome>>

LEMMA SendsStep ==
    ASSUME TypeInv, HeldOnce, NEW p \in Replicas,
           \/ PersistCommit(p) \/ PersistError(p)
           \/ (Crash(p) \/ NeverAnswered(p)) /\ pc[p] = "persist"
    PROVE  Sends(p)
<1>1. /\ pc \in [Replicas -> States] /\ DOMAIN queue = Replicas /\ DOMAIN current = Replicas
      /\ DOMAIN outcome = Events
  BY DEF TypeInv, TypeOK
<1>2. pc[p] = "persist"
  BY DEF PersistCommit, PersistError
<1>3. current[p] \in Events
  BY <1>2 DEF TypeInv, FieldsFilled, Busy
<1>4. outcome[current[p]] = "pending"
  BY <1>3, HeldBy DEF HeldOnce
<1>5. CASE PersistCommit(p) \/ PersistError(p)
  BY <1>1, <1>2, <1>4, <1>5 DEF PersistCommit, PersistError, Finish, Sends
<1>6. CASE Crash(p)
  BY <1>1, <1>2, <1>3, <1>4, <1>6 DEF Crash, Sends
<1>7. CASE NeverAnswered(p)
  BY <1>1, <1>2, <1>3, <1>4, <1>7 DEF NeverAnswered, Sends
<1> QED
  BY <1>5, <1>6, <1>7

LEMMA EventKinds ==
    ASSUME TypeInv, HeldOnce, [Next]_vars
    PROVE  \/ Rests
           \/ \E p \in Replicas : Commits(p) \/ Departs(p)
           \/ \E r \in inFlight : Arrives(r)
<1> USE DEF redisVars, procVars
<1>1. ASSUME NEW p \in Replicas, PersistCommit(p) PROVE Commits(p)
  BY <1>1, SendsStep DEF Commits, PersistCommit, AppendScript
<1>2. ASSUME NEW p \in Replicas, PersistError(p) PROVE Rests \/ Commits(p) \/ Departs(p)
  BY <1>2, SendsStep DEF Rests, Commits, Departs, PersistError, AppendScript
<1>3. ASSUME NEW p \in Replicas, Crash(p) PROVE Rests \/ Departs(p)
  BY <1>3, SendsStep DEF Rests, Departs, Crash
<1>6. ASSUME NEW p \in Replicas, NeverAnswered(p) PROVE Rests \/ Departs(p)
  BY <1>6, SendsStep DEF Rests, Departs, NeverAnswered
<1>4. ASSUME NEW r \in inFlight, LateAppend(r) PROVE Rests \/ Arrives(r)
  BY <1>4 DEF Rests, Arrives, LateAppend, AppendScript
<1>5. ASSUME NEW p \in Replicas, PersistConflict(p) PROVE Rests
  BY <1>5 DEF Rests, PersistConflict, AppendScript
<1> QED
  BY <1>1, <1>2, <1>3, <1>4, <1>5, <1>6
     DEF Next, Step, Fault, vars, Rests, Submit, Begin, DeadlinePasses, Acquire, AcquireTimeout, AcquireError,
         RejectUnlocked, LockExpires, Release, ReleaseError, Resolve, ReadHead, ReadError, WriteAnchor,
         AnchorError, Restart

\* The log of a chain, and what an append does to it.
LEMMA LoggedAfter ==
    ASSUME NEW r \in Record, chain \in Seq(Record), chain' = Append(chain, r)
    PROVE  Logged' = Logged \cup {r.event}
<1>1. /\ Len(chain') = Len(chain) + 1 /\ Len(chain) \in Nat
      /\ chain'[Len(chain) + 1] = r
      /\ \A i \in 1 .. Len(chain) : chain'[i] = chain[i]
  OBVIOUS
<1>2. ASSUME NEW e \in Logged' PROVE e \in Logged \cup {r.event}
  <2>1. PICK i \in 1 .. Len(chain') : e = chain'[i].event
    BY <1>2 DEF Logged
  <2>2. CASE i = Len(chain) + 1
    BY <1>1, <2>1, <2>2
  <2>3. CASE i \in 1 .. Len(chain)
    BY <1>1, <2>1, <2>3 DEF Logged
  <2> QED
    BY <1>1, <2>2, <2>3
<1>3. ASSUME NEW e \in Logged PROVE e \in Logged'
  <2>1. PICK i \in 1 .. Len(chain) : e = chain[i].event
    BY <1>3 DEF Logged
  <2>2. i \in 1 .. Len(chain') /\ chain'[i].event = e
    BY <1>1, <2>1
  <2> QED
    BY <2>2 DEF Logged
<1>4. r.event \in Logged'
  <2>1. Len(chain) + 1 \in 1 .. Len(chain') /\ chain'[Len(chain) + 1].event = r.event
    BY <1>1
  <2> QED
    BY <2>1 DEF Logged
<1> QED
  BY <1>2, <1>3, <1>4

LEMMA LogAfter ==
    ASSUME NEW r \in Record, chain \in Seq(Record), chain' = Append(chain, r)
    PROVE  LogOf(chain') = Append(LogOf(chain), r.event)
<1>1. /\ Len(chain') = Len(chain) + 1 /\ Len(chain) \in Nat
      /\ chain'[Len(chain) + 1] = r
      /\ \A i \in 1 .. Len(chain) : chain'[i] = chain[i]
  OBVIOUS
<1>2. \A i \in 1 .. Len(chain) : chain[i].event \in Events
  <2>1. \A i \in 1 .. Len(chain) : chain[i] \in Record
    OBVIOUS
  <2> QED
    BY <2>1 DEF Record
<1>3. LogOf(chain) \in Seq(Events) /\ Len(LogOf(chain)) = Len(chain)
  BY <1>1, <1>2 DEF LogOf
<1>4. r.event \in Events
  BY DEF Record
<1>5. /\ Append(LogOf(chain), r.event) \in Seq(Events)
      /\ Len(Append(LogOf(chain), r.event)) = Len(chain) + 1
      /\ Append(LogOf(chain), r.event)[Len(chain) + 1] = r.event
      /\ \A i \in 1 .. Len(chain) : Append(LogOf(chain), r.event)[i] = LogOf(chain)[i]
  BY <1>1, <1>3, <1>4
<1>6. \A i \in 1 .. Len(chain') : LogOf(chain')[i] = Append(LogOf(chain), r.event)[i]
  BY <1>1, <1>5 DEF LogOf
<1>7. LogOf(chain') \in Seq(Events) /\ Len(LogOf(chain')) = Len(chain')
  BY <1>1, <1>2, <1>4 DEF LogOf
<1> QED
  BY <1>1, <1>5, <1>6, <1>7, SeqEqual

\* An event that waits to be sent has waited before.
LEMMA WaitingBefore ==
    ASSUME TypeInv, [Next]_vars, NEW e \in Events, Waiting(e)'
    PROVE  Waiting(e)
<1> USE DEF redisVars, procVars, Finish
<1>t. /\ DOMAIN pc = Replicas /\ DOMAIN current = Replicas /\ DOMAIN outcome = Events
      /\ queue \in [Replicas -> Seq(Events)]
      /\ \A p \in Replicas : pc[p] \in Busy => current[p] \in Events
  BY DEF TypeInv, TypeOK, FieldsFilled
<1>1. CASE UNCHANGED <<pc, queue, current, outcome>>
  BY <1>1 DEF Waiting
<1>2. ASSUME NEW p \in Replicas, NEW f \in Events, Submit(p, f) PROVE Waiting(e)
  <2>1. CASE e = f
    BY <1>2, <2>1 DEF Submit, Waiting
  <2>2. CASE e # f
    <3>1. /\ outcome'[e] = outcome[e] /\ pc' = pc /\ current' = current
          /\ \A q \in Replicas : q # p => queue'[q] = queue[q]
      BY <1>t, <1>2, <2>2 DEF Submit
    <3>2. ASSUME NEW i \in 1 .. Len(queue'[p]), queue'[p][i] = e
          PROVE  i \in 1 .. Len(queue[p]) /\ queue[p][i] = e
      <4>1. /\ Len(queue'[p]) = Len(queue[p]) + 1 /\ Len(queue[p]) \in Nat
            /\ queue'[p][Len(queue[p]) + 1] = f
            /\ \A j \in 1 .. Len(queue[p]) : queue'[p][j] = queue[p][j]
        BY <1>t, <1>2 DEF Submit
      <4> QED
        BY <2>2, <3>2, <4>1
    <3> QED
      BY <3>1, <3>2 DEF Waiting
  <2> QED
    BY <2>1, <2>2
<1>3. ASSUME NEW p \in Replicas, Begin(p) PROVE Waiting(e)
  <2>1. /\ Len(queue[p]) \in Nat /\ Len(queue[p]) > 0 /\ Len(queue'[p]) = Len(queue[p]) - 1
        /\ \A i \in 1 .. Len(queue'[p]) : queue'[p][i] = queue[p][i + 1]
        /\ current'[p] = queue[p][1]
    BY <1>t, <1>3 DEF Begin
  <2>2. /\ outcome' = outcome
        /\ \A q \in Replicas : q # p => queue'[q] = queue[q] /\ pc'[q] = pc[q] /\ current'[q] = current[q]
    BY <1>t, <1>3 DEF Begin
  <2>3. ASSUME NEW i \in 1 .. Len(queue'[p]), queue'[p][i] = e
        PROVE  \E j \in 1 .. Len(queue[p]) : queue[p][j] = e
    <3>1. i + 1 \in 1 .. Len(queue[p]) /\ queue[p][i + 1] = e
      BY <2>1, <2>3
    <3> QED
      BY <3>1
  <2>4. ASSUME current'[p] = e PROVE \E j \in 1 .. Len(queue[p]) : queue[p][j] = e
    <3>1. 1 \in 1 .. Len(queue[p]) /\ queue[p][1] = e
      BY <2>1, <2>4
    <3> QED
      BY <3>1
  <2> QED
    BY <2>2, <2>3, <2>4 DEF Waiting
<1>4. ASSUME NEW p \in Replicas,
             \/ Acquire(p) \/ ReadHead(p) \/ ReadError(p) \/ PersistCommit(p) \/ PersistConflict(p)
             \/ PersistError(p) \/ WriteAnchor(p) \/ AnchorError(p) \/ NeverAnswered(p) \/ Restart(p)
      PROVE  Waiting(e)
  <2>1. /\ outcome' = outcome /\ queue' = queue /\ current' = current
        /\ \A q \in Replicas : q # p => pc'[q] = pc[q]
        /\ pc'[p] \in {"lock", "read", "persist"} => pc[p] \in {"lock", "read", "persist"}
    BY <1>t, <1>4 DEF Acquire, ReadHead, ReadError, PersistCommit, PersistConflict, PersistError,
                      WriteAnchor, AnchorError, NeverAnswered, Restart
  <2> QED
    BY <2>1 DEF Waiting
<1>5. ASSUME NEW p \in Replicas,
             AcquireTimeout(p) \/ AcquireError(p) \/ Release(p) \/ ReleaseError(p)
      PROVE  Waiting(e)
  <2>1. pc[p] \in Busy
    BY <1>5 DEF AcquireTimeout, AcquireError, Release, ReleaseError, Busy
  <2>2. /\ queue' = queue /\ pc' = [pc EXCEPT ![p] = "idle"] /\ current' = [current EXCEPT ![p] = NoEvent]
        /\ \E how \in {"acked", "rejected"} : outcome' = [outcome EXCEPT ![current[p]] = how]
    BY <1>5 DEF AcquireTimeout, AcquireError, RejectUnlocked, Release, ReleaseError, Resolve
  <2>3. outcome'[e] = "new" => outcome[e] = "new"
    BY <1>t, <2>1, <2>2
  <2>4. /\ \A q \in Replicas : q # p => pc'[q] = pc[q] /\ current'[q] = current[q]
        /\ pc'[p] = "idle"
    BY <1>t, <2>2
  <2> QED
    BY <2>2, <2>3, <2>4 DEF Waiting
<1>6. ASSUME NEW p \in Replicas, Crash(p) PROVE Waiting(e)
  <2>1. /\ \A q \in Replicas : q # p => pc'[q] = pc[q] /\ current'[q] = current[q] /\ queue'[q] = queue[q]
        /\ pc'[p] = "down" /\ queue'[p] = <<>>
        /\ outcome'[e] = "new" => outcome[e] = "new"
    BY <1>t, <1>6 DEF Crash
  <2>2. ~\E i \in 1 .. Len(queue'[p]) : queue'[p][i] = e
    BY <2>1
  <2> QED
    BY <2>1, <2>2 DEF Waiting
<1> QED
  BY <1>1, <1>2, <1>3, <1>4, <1>5, <1>6
     DEF Next, Step, Fault, vars, DeadlinePasses, LockExpires, LateAppend

\* An event that is sent waits no longer.
LEMMA SentWaitsNoMore ==
    ASSUME TypeInv, HeldOnce, NEW p \in Replicas, Sends(p), NEW e \in Events, e = current[p]
    PROVE  Waiting(e) /\ ~Waiting(e)'
<1>2. e \in PendingOf(p) /\ e # NoEvent
  BY HeldBy
<1>3. Waiting(e)
  BY DEF Sends, Waiting
<1>4. outcome'[e] # "new"
  BY DEF Sends
<1>5. ASSUME NEW q \in Replicas, NEW i \in 1 .. Len(queue'[q]) PROVE queue'[q][i] # e
  <2>1. i \in 1 .. Len(queue[q]) /\ queue'[q][i] = queue[q][i]
    BY <1>5 DEF Sends
  <2>2. CASE q = p
    BY <2>1, <2>2 DEF HeldOnce
  <2>3. CASE q # p
    BY <1>2, <2>1, <2>3, QueuedIsHeld DEF HeldOnce
  <2> QED
    BY <2>2, <2>3
<1>6. ASSUME NEW q \in Replicas, pc'[q] \in {"lock", "read", "persist"} PROVE current'[q] # e
  <2>1. q # p /\ current'[q] = current[q]
    BY <1>6 DEF Sends
  <2>2. current[q] = e => e \in PendingOf(q)
    BY <1>2, HeldBy
  <2> QED
    BY <1>2, <2>1, <2>2 DEF HeldOnce
<1>7. ~Waiting(e)'
  BY <1>4, <1>5, <1>6 DEF Waiting
<1> QED
  BY <1>3, <1>7

\* What a step may tell a caller: a submission is taken in, a call is rejected,
\* or a call whose event is in the chain is acknowledged.
LEMMA Verdicts ==
    ASSUME TypeInv, DoneIsLogged, [Next]_vars, NEW e \in Events
    PROVE  \/ outcome'[e] = outcome[e]
           \/ outcome[e] = "new" /\ outcome'[e] = "pending"
           \/ outcome'[e] = "rejected"
           \/ e \in Logged
<1> USE DEF redisVars, procVars
<1>t. DOMAIN outcome = Events
  BY DEF TypeInv, TypeOK
<1>1. ASSUME NEW p \in Replicas, Release(p) \/ ReleaseError(p), outcome'[e] # outcome[e], outcome'[e] # "rejected"
      PROVE  e \in Logged
  <2>1. pc[p] = "release" /\ e = current[p] /\ result[p] = "ok"
    BY <1>t, <1>1 DEF Release, ReleaseError, Resolve
  <2> QED
    BY <2>1 DEF DoneIsLogged
<1>2. ASSUME NEW p \in Replicas, AcquireTimeout(p) \/ AcquireError(p), outcome'[e] # outcome[e]
      PROVE  outcome'[e] = "rejected"
  BY <1>t, <1>2 DEF AcquireTimeout, AcquireError, RejectUnlocked
<1>3. ASSUME NEW p \in Replicas, NEW f \in Events, Submit(p, f), outcome'[e] # outcome[e]
      PROVE  outcome[e] = "new" /\ outcome'[e] = "pending"
  BY <1>t, <1>3 DEF Submit
<1>4. ASSUME NEW p \in Replicas, Crash(p), outcome'[e] # outcome[e] PROVE outcome'[e] = "rejected"
  BY <1>4 DEF Crash
<1> QED
  BY <1>1, <1>2, <1>3, <1>4
     DEF Next, Step, Fault, vars, Begin, DeadlinePasses, Acquire, LockExpires, ReadHead, ReadError,
         PersistCommit, PersistConflict, PersistError, LateAppend, WriteAnchor, AnchorError,
         NeverAnswered, Restart

\* A transaction that goes well has gone well before, or commits now.
LEMMA DoneBefore ==
    ASSUME TypeInv, [Next]_vars, NEW q \in Replicas,
           pc'[q] = "anchor" \/ (pc'[q] = "release" /\ result'[q] = "ok")
    PROVE  \/ /\ pc[q] = "anchor" \/ (pc[q] = "release" /\ result[q] = "ok")
              /\ current'[q] = current[q]
           \/ PersistCommit(q)
<1> USE DEF redisVars, procVars, Finish
<1>t. DOMAIN pc = Replicas /\ DOMAIN current = Replicas /\ DOMAIN result = Replicas
  BY DEF TypeInv, TypeOK
<1>1. CASE UNCHANGED <<pc, result, current>>
  BY <1>1
<1>2. ASSUME NEW p \in Replicas,
             \/ Begin(p) \/ Acquire(p) \/ AcquireTimeout(p) \/ AcquireError(p) \/ Release(p) \/ ReleaseError(p)
             \/ ReadHead(p) \/ ReadError(p) \/ PersistConflict(p) \/ PersistError(p)
             \/ AnchorError(p) \/ NeverAnswered(p) \/ Crash(p) \/ Restart(p)
      PROVE  /\ q # p
             /\ pc'[q] = pc[q] /\ current'[q] = current[q] /\ result'[q] = result[q]
  BY <1>t, <1>2 DEF Begin, Acquire, AcquireTimeout, AcquireError, RejectUnlocked, Release, ReleaseError, Resolve,
        ReadHead, ReadError, PersistConflict, PersistError, AnchorError, NeverAnswered, Crash, Restart
<1>3. ASSUME NEW p \in Replicas, WriteAnchor(p)
      PROVE  /\ pc[q] = "anchor" \/ (pc[q] = "release" /\ result[q] = "ok")
             /\ current'[q] = current[q]
  BY <1>t, <1>3 DEF WriteAnchor
<1>4. ASSUME NEW p \in Replicas, PersistCommit(p)
      PROVE  \/ /\ pc[q] = "anchor" \/ (pc[q] = "release" /\ result[q] = "ok")
                /\ current'[q] = current[q]
             \/ q = p
  BY <1>t, <1>4 DEF PersistCommit
<1> QED
  BY <1>1, <1>2, <1>3, <1>4
     DEF Next, Step, Fault, vars, Submit, DeadlinePasses, LockExpires, LateAppend

\* The record a replica sends is for the event in its hands.
LEMMA SentRecord ==
    ASSUME TypeInv, EventPlaced, NEW p \in Replicas, Sends(p)
    PROVE  built[p] \in Record /\ built[p].event = current[p] /\ current[p] \in Events
  BY DEF Sends, TypeInv, FieldsFilled, Busy, EventPlaced

LEMMA UntriedStays ==
    ASSUME TypeInv, EventInv, [Next]_vars
    PROVE  UntriedYet'
<1> SUFFICES ASSUME NEW e \in Events, Waiting(e)' PROVE Untried(e)'
  BY DEF UntriedYet
<1>1. Waiting(e) /\ Untried(e)
  BY WaitingBefore DEF EventInv, UntriedYet
<1>2. chain \in Seq(Record) /\ inFlight \subseteq Record
  BY DEF TypeInv, TypeOK
<1>3. CASE Rests
  BY <1>1, <1>3 DEF Rests, Untried, Logged
<1>4. ASSUME NEW p \in Replicas, Sends(p) PROVE built[p] \in Record /\ built[p].event # e
  BY <1>4, SentRecord, SentWaitsNoMore DEF EventInv
<1>5. ASSUME NEW p \in Replicas, Commits(p) PROVE Untried(e)'
  BY <1>1, <1>2, <1>4, <1>5, LoggedAfter DEF Commits, Untried
<1>6. ASSUME NEW p \in Replicas, Departs(p) PROVE Untried(e)'
  BY <1>1, <1>4, <1>6 DEF Departs, Untried, Logged
<1>7. ASSUME NEW r \in inFlight, Arrives(r) PROVE Untried(e)'
  BY <1>1, <1>2, <1>7, LoggedAfter DEF Arrives, Untried
<1> QED
  BY <1>3, <1>5, <1>6, <1>7, EventKinds DEF EventInv

LEMMA OnTheirWayStays ==
    ASSUME TypeInv, EventInv, [Next]_vars
    PROVE  OnTheirWay'
<1>1. chain \in Seq(Record) /\ inFlight \subseteq Record /\ \A r \in inFlight : r.event \in Events
  BY DEF TypeInv, TypeOK, Record
<1>2. \A r \in inFlight : outcome'[r.event] \in {"pending", "rejected"}
  BY <1>1, Verdicts DEF EventInv, OnTheirWay
<1>3. CASE Rests
  BY <1>2, <1>3 DEF EventInv, Rests, OnTheirWay, Logged
<1>4. ASSUME NEW p \in Replicas, Sends(p)
      PROVE  /\ built[p] \in Record /\ built[p].event \notin Logged
             /\ \A r \in inFlight : r.event # built[p].event
             /\ outcome'[built[p].event] \in {"pending", "rejected"}
  <2>1. built[p] \in Record /\ built[p].event = current[p] /\ current[p] \in Events
    BY <1>4, SentRecord DEF EventInv
  <2>2. Untried(current[p])
    BY <1>4, <2>1, SentWaitsNoMore DEF EventInv, UntriedYet
  <2> QED
    BY <1>4, <2>1, <2>2 DEF Untried, Sends
<1>5. ASSUME NEW p \in Replicas, Commits(p) PROVE OnTheirWay'
  <2>1. Logged' = Logged \cup {built[p].event}
    BY <1>1, <1>4, <1>5, LoggedAfter DEF Commits
  <2> QED
    BY <1>2, <1>4, <1>5, <2>1 DEF Commits, EventInv, OnTheirWay
<1>6. ASSUME NEW p \in Replicas, Departs(p) PROVE OnTheirWay'
  <2>1. Logged' = Logged
    BY <1>6 DEF Departs, Logged
  <2> QED
    BY <1>2, <1>4, <1>6, <2>1 DEF Departs, EventInv, OnTheirWay
<1>7. ASSUME NEW r \in inFlight, Arrives(r) PROVE OnTheirWay'
  <2>1. Logged' = Logged \cup {r.event}
    BY <1>1, <1>7, LoggedAfter DEF Arrives
  <2> QED
    BY <1>2, <1>7, <2>1 DEF Arrives, EventInv, OnTheirWay
<1> QED
  BY <1>3, <1>5, <1>6, <1>7, EventKinds DEF EventInv

LEMMA DoneStaysLogged ==
    ASSUME TypeInv, EventInv, [Next]_vars
    PROVE  DoneIsLogged'
<1>1. chain \in Seq(Record) /\ inFlight \subseteq Record /\ DOMAIN current = Replicas
  BY DEF TypeInv, TypeOK
<1>2. \A p \in Replicas : Sends(p) => built[p] \in Record
  BY SentRecord DEF EventInv
<1>3. Rests => Logged' = Logged
  BY DEF Rests, Logged
<1>4. \A p \in Replicas : Departs(p) => Logged' = Logged
  BY DEF Departs, Logged
<1>5. Logged \subseteq Logged'
  BY <1>1, <1>2, <1>3, <1>4, LoggedAfter, EventKinds DEF EventInv, Commits, Arrives
<1>6. ASSUME NEW q \in Replicas, PersistCommit(q) PROVE current'[q] \in Logged'
  <2>1. Sends(q) /\ chain' = Append(chain, built[q]) /\ current' = current
    BY <1>6, SendsStep DEF EventInv, PersistCommit, AppendScript
  <2>2. built[q] \in Record /\ built[q].event = current[q]
    BY <2>1, SentRecord DEF EventInv
  <2> QED
    BY <1>1, <2>1, <2>2, LoggedAfter
<1>7. ASSUME NEW q \in Replicas, pc'[q] = "anchor" \/ (pc'[q] = "release" /\ result'[q] = "ok")
      PROVE  current'[q] \in Logged'
  BY <1>5, <1>6, <1>7, DoneBefore DEF EventInv, DoneIsLogged
<1> QED
  BY <1>7 DEF DoneIsLogged

LEMMA InitEvents == Init => EventInv
<1> SUFFICES ASSUME Init PROVE EventInv
  OBVIOUS
<1>1. /\ chain = <<>> /\ inFlight = {} /\ \A e \in Events : outcome[e] = "new"
      /\ \A p \in Replicas : pc[p] = "idle" /\ queue[p] = <<>> /\ current[p] = NoEvent
  BY DEF Init
<1>2. Logged = {}
  BY <1>1 DEF Logged
<1>3. \A p \in Replicas : PendingOf(p) = {}
  BY <1>1 DEF PendingOf
<1>4. HeldOnce
  BY <1>1, <1>3 DEF HeldOnce
<1>5. UntriedYet /\ OnTheirWay
  BY <1>1, <1>2 DEF UntriedYet, Untried, OnTheirWay
<1> QED
  BY <1>1, <1>4, <1>5 DEF EventInv, EventPlaced, DoneIsLogged

LEMMA NextEvents == TypeInv /\ EventInv /\ [Next]_vars => EventInv'
  BY StaysHeldOnce, EventPlacedStep, UntriedStays, OnTheirWayStays, DoneStaysLogged
     DEF EventInv, TypeInv

\* The abstract log's definitions, over the chain.
LEMMA AbstractLogged ==
    ASSUME chain \in Seq(Record)
    PROVE  Log!Logged = Logged
<1>1. /\ Len(chain) \in Nat /\ LogOf(chain) \in Seq({chain[i].event : i \in 1 .. Len(chain)})
      /\ Len(LogOf(chain)) = Len(chain)
      /\ \A i \in 1 .. Len(chain) : LogOf(chain)[i] = chain[i].event
  BY DEF LogOf
<1>2. Log!Logged = {LogOf(chain)[i] : i \in 1 .. Len(LogOf(chain))}
  BY DEF Log!Logged, LogOf
<1>3. Log!Logged = {LogOf(chain)[i] : i \in 1 .. Len(chain)}
  BY <1>1, <1>2
<1> QED
  BY <1>1, <1>3 DEF Logged

LEMMA AbstractStutter ==
    ASSUME chain' = chain, outcome' = outcome
    PROVE  UNCHANGED Log!vars
  BY DEF Log!vars

LEMMA AbstractAppend ==
    ASSUME TypeInv, NEW r \in Record, chain' = Append(chain, r), outcome' = outcome,
           r.event \notin Logged, outcome[r.event] \in {"pending", "rejected"}
    PROVE  Log!Next
<1>1. chain \in Seq(Record) /\ r.event \in Events
  BY DEF TypeInv, TypeOK, Record
<1>2. LogOf(chain') = Append(LogOf(chain), r.event)
  BY <1>1, LogAfter
<1>3. r.event \notin Log!Logged
  BY <1>1, AbstractLogged
<1>4. Log!AppendEvent(r.event)
  BY <1>2, <1>3 DEF Log!AppendEvent, LogOf
<1> QED
  BY <1>1, <1>4 DEF Log!Next

LEMMA AbstractReject ==
    ASSUME NEW S \in SUBSET Events, \A e \in S : outcome[e] = "pending", chain' = chain,
           outcome' = [e \in Events |-> IF e \in S THEN "rejected" ELSE outcome[e]]
    PROVE  Log!Next
<1>1. Log!Reject(S)
  BY DEF Log!Reject
<1> QED
  BY <1>1 DEF Log!Next

\* A call that ends without reaching the chain is rejected; one whose
\* transaction is over is acknowledged or rejected.
LEMMA AbstractSettle ==
    ASSUME TypeInv, EventInv, NEW p \in Replicas, pc[p] \in Busy, chain' = chain,
           NEW how \in {"acked", "rejected"}, outcome' = [outcome EXCEPT ![current[p]] = how],
           how = "acked" => current[p] \in Logged
    PROVE  Log!Next
<1>1. current[p] \in Events /\ outcome \in [Events -> {"new", "pending", "acked", "rejected"}] /\ chain \in Seq(Record)
  BY DEF TypeInv, FieldsFilled, TypeOK
<1>2. outcome[current[p]] = "pending"
  BY <1>1, HeldBy DEF EventInv, HeldOnce
<1>3. CASE how = "acked"
  <2>1. current[p] \in Log!Logged
    BY <1>1, <1>3, AbstractLogged
  <2>2. Log!Ack(current[p])
    BY <1>2, <1>3, <2>1 DEF Log!Ack
  <2> QED
    BY <1>1, <2>2 DEF Log!Next
<1>4. CASE how = "rejected"
  <2>1. outcome' = [e \in Events |-> IF e \in {current[p]} THEN "rejected" ELSE outcome[e]]
    BY <1>1, <1>4
  <2> QED
    BY <1>1, <1>2, <2>1, AbstractReject
<1> QED
  BY <1>3, <1>4

LEMMA InitSimulates == Init => Log!Init
<1> SUFFICES ASSUME Init PROVE Log!Init
  OBVIOUS
<1>1. chain = <<>> /\ outcome = [e \in Events |-> "new"]
  BY DEF Init
<1>2. [i \in 1 .. Len(chain) |-> chain[i].event] = <<>>
  BY <1>1
<1> QED
  BY <1>1, <1>2 DEF Log!Init

LEMMA NextSimulates == TypeInv /\ EventInv /\ [Next]_vars => [Log!Next]_(Log!vars)
<1> SUFFICES ASSUME TypeInv, EventInv, [Next]_vars PROVE Log!Next \/ UNCHANGED Log!vars
  OBVIOUS
<1> USE DEF redisVars, procVars
<1>0. chain \in Seq(Record) /\ inFlight \subseteq Record
  BY DEF TypeInv, TypeOK
<1>1. ASSUME NEW p \in Replicas, NEW e \in Events, Submit(p, e) PROVE Log!Next
  <2>1. chain' = chain /\ outcome[e] = "new" /\ outcome' = [outcome EXCEPT ![e] = "pending"]
    BY <1>1 DEF Submit
  <2>2. Log!Submit(e)
    BY <2>1 DEF Log!Submit
  <2> QED
    BY <2>2 DEF Log!Next
<1>2. CASE chain' = chain /\ outcome' = outcome
  BY <1>2, AbstractStutter
<1>3. ASSUME NEW p \in Replicas, AcquireTimeout(p) \/ AcquireError(p) PROVE Log!Next
  <2>1. pc[p] \in Busy /\ chain' = chain /\ outcome' = [outcome EXCEPT ![current[p]] = "rejected"]
    BY <1>3 DEF AcquireTimeout, AcquireError, RejectUnlocked, Busy
  <2> QED
    BY <2>1, AbstractSettle
<1>4. ASSUME NEW p \in Replicas, Release(p) \/ ReleaseError(p) PROVE Log!Next
  <2>1. /\ pc[p] = "release" /\ chain' = chain
        /\ outcome' = [outcome EXCEPT ![current[p]] = IF result[p] = "ok" THEN "acked" ELSE "rejected"]
    BY <1>4 DEF Release, ReleaseError, Resolve
  <2>2. result[p] = "ok" => current[p] \in Logged
    BY <2>1 DEF EventInv, DoneIsLogged
  <2>3. CASE result[p] = "ok"
    BY <2>1, <2>2, <2>3, AbstractSettle DEF Busy
  <2>4. CASE result[p] # "ok"
    BY <2>1, <2>4, AbstractSettle DEF Busy
  <2> QED
    BY <2>3, <2>4
<1>5. ASSUME NEW p \in Replicas, Sends(p), chain' = Append(chain, built[p]), outcome' = outcome
      PROVE  Log!Next
  <2>1. built[p] \in Record /\ built[p].event = current[p] /\ current[p] \in Events
    BY <1>5, SentRecord DEF EventInv
  <2>2. Untried(current[p])
    BY <1>5, <2>1, SentWaitsNoMore DEF EventInv, UntriedYet
  <2> QED
    BY <1>5, <2>1, <2>2, AbstractAppend DEF Untried, Sends
<1>6. ASSUME NEW p \in Replicas, PersistCommit(p) \/ PersistError(p) PROVE Log!Next \/ UNCHANGED Log!vars
  <2>1. Sends(p) /\ outcome' = outcome
    BY <1>6, SendsStep DEF EventInv, PersistCommit, PersistError
  <2>2. chain' = chain \/ chain' = Append(chain, built[p])
    BY <1>6 DEF PersistCommit, PersistError, AppendScript
  <2> QED
    BY <1>5, <2>1, <2>2, AbstractStutter
<1>7. ASSUME NEW p \in Replicas, PersistConflict(p) PROVE UNCHANGED Log!vars
  BY <1>7, AbstractStutter DEF PersistConflict, AppendScript
<1>8. ASSUME NEW r \in inFlight, LateAppend(r) PROVE Log!Next \/ UNCHANGED Log!vars
  <2>1. /\ outcome' = outcome
        /\ chain' = chain \/ chain' = Append(chain, r)
    BY <1>8 DEF LateAppend, AppendScript
  <2>2. r \in Record /\ r.event \notin Logged /\ outcome[r.event] \in {"pending", "rejected"}
    BY <1>0 DEF EventInv, OnTheirWay
  <2> QED
    BY <2>1, <2>2, AbstractStutter, AbstractAppend
<1>9. ASSUME NEW p \in Replicas, Crash(p) PROVE Log!Next
  <2>1. /\ chain' = chain
        /\ outcome' = [e \in Events |-> IF e \in PendingOf(p) THEN "rejected" ELSE outcome[e]]
    BY <1>9 DEF Crash
  <2>2. queue[p] \in Seq(Events) /\ current[p] \in Events \cup {NoEvent}
    BY DEF TypeInv, TypeOK
  <2>3. PendingOf(p) \in SUBSET Events
    BY <2>2 DEF PendingOf
  <2>4. \A e \in PendingOf(p) : outcome[e] = "pending"
    BY DEF EventInv, HeldOnce
  <2> QED
    BY <2>1, <2>3, <2>4, AbstractReject
<1> QED
  BY <1>1, <1>2, <1>3, <1>4, <1>6, <1>7, <1>8, <1>9
     DEF Next, Step, Fault, vars, Begin, DeadlinePasses, Acquire, LockExpires, ReadHead, ReadError,
         WriteAnchor, AnchorError, NeverAnswered, Restart

\* The sink over Redis implements the abstract audit log: whatever lapses,
\* breaks or crashes, the list of records only grows, holds every event at most
\* once although a command may run long after its client gave up, and record()
\* resolves only for an event the list holds.
THEOREM RedisImplementsAuditLog == Spec => ImplementsAuditLog
<1>1. Init => TypeInv /\ EventInv
  BY InitTyped, InitEvents
<1>2. TypeInv /\ EventInv /\ [Next]_vars => (TypeInv /\ EventInv)'
  BY NextTyped, NextEvents
<1>3. Spec => [](TypeInv /\ EventInv)
  BY <1>1, <1>2, PTL DEF Spec
<1> QED
  BY <1>3, InitSimulates, NextSimulates, PTL DEF Spec, ImplementsAuditLog, Log!Spec
=============================================================================
