--------------------------- MODULE AuditIntegrity ---------------------------
(***************************************************************************)
(* The pure part of packages/audit: the sha256 hash chain, its anchors and *)
(* the verifier.  Nothing here has state; FileAuditSink and                *)
(* RedisAuditStore build their records and judge their logs with it.       *)
(*                                                                         *)
(* A digest is modelled by what it commits to.  sha256 of a record whose   *)
(* auditIntegrity holds the previous digest commits to the whole history,  *)
(* so eventHash is the sequence of all <<event, sequence>> commitments up  *)
(* to and including the record's own: two digests are equal exactly when   *)
(* the histories they commit to are (collision resistance).                *)
(***************************************************************************)
EXTENDS Naturals, Sequences, FiniteSets

CONSTANT Events    \* sanitised audit events, told apart by identity only

Commitment == [event : Events, sequence : Nat]
Hashes == Seq(Commitment)
NullHash == <<>>                            \* previousHash of the first record

\* What chained readers use of a record's auditIntegrity.
Integrity == [sequence : Nat, eventHash : Hashes]
NoIntegrity == [sequence |-> 0, eventHash |-> NullHash]

Record == [event : Events, sequence : Nat, previousHash : Hashes, eventHash : Hashes]

\* sha256(canonicalize(unsigned record)).
Sha256(previousHash, event, sequence) ==
    Append(previousHash, [event |-> event, sequence |-> sequence])

\* The next chained record on top of `previous` (NoIntegrity for null).
BuildIntegrityRecord(previous, event) ==
    LET sequence == previous.sequence + 1
    IN  [event        |-> event,
         sequence     |-> sequence,
         previousHash |-> previous.eventHash,
         eventHash    |-> Sha256(previous.eventHash, event, sequence)]

IntegrityOf(record) == [sequence |-> record.sequence, eventHash |-> record.eventHash]

-----------------------------------------------------------------------------
\* The verifier.  `records` are the parsed lines of the log; `anchors` is the
\* set of the readable {sequence, eventHash} lines of the anchor stream ({}
\* when no anchorPath is given).

Anchor == [sequence : Nat, eventHash : Hashes]

ExpectedPreviousHash(records, i) ==
    IF i = 1 THEN NullHash ELSE records[i - 1].eventHash

\* The per-record checks of the loop, at the i-th line.
RecordAccepted(records, anchors, i) ==
    LET r == records[i]
    IN  /\ r.sequence = i
        /\ r.previousHash = ExpectedPreviousHash(records, i)
        /\ r.eventHash = Sha256(r.previousHash, r.event, r.sequence)
        /\ \A a \in anchors : a.sequence = i => a.eventHash = r.eventHash

\* verifyAuditChain(...).valid: every line passes, and the chain is at least
\* as long as the highest anchored sequence.
VerifyAuditChain(records, anchors) ==
    /\ \A i \in 1 .. Len(records) : RecordAccepted(records, anchors, i)
    /\ \A a \in anchors : a.sequence <= Len(records)

\* The chain property alone, without anchors: no fork, no gap, no rewrite.
LinearChain(records) ==
    \A i \in 1 .. Len(records) : RecordAccepted(records, {}, i)
=============================================================================
