--------------------------- MODULE TokenVaultOps ----------------------------
(***************************************************************************)
(* The core-owned part of createTokenVault (packages/token-vault): what    *)
(* tokenize, purge and purgeExpired do to the store's mutable view, and    *)
(* what reveal and detokenize can still read from a record.                *)
(*                                                                         *)
(* A record is kept as the two expiry times the code tells apart: its own  *)
(* expiresAt and the one sealed into its envelope.  A token stands for a   *)
(* value under deterministic tokenization; a random token is one that is   *)
(* tokenized once.                                                         *)
(***************************************************************************)
EXTENDS Naturals

CONSTANTS
    Tokens,
    Retention,   \* retentionDays, in clock ticks
    NoRecord,
    MaxTime,     \* bound: clock ticks
    MaxCalls,    \* bound: mutations started
    MaxFaults    \* bound: errors and deaths of processes

VaultRecords == [expiresAt : Nat, sealedUntil : Nat]

ASSUME RetentionAssumption == Retention \in Nat \ {0}
ASSUME NoRecordAssumption == NoRecord \notin VaultRecords
ASSUME BoundsAssumption == MaxTime \in Nat /\ MaxCalls \in Nat /\ MaxFaults \in Nat

TokenMaps == [Tokens -> VaultRecords \cup {NoRecord}]

EmptyVault == [t \in Tokens |-> NoRecord]

Operations == [kind : {"tokenize", "purge"}, token : Tokens] \cup {[kind |-> "purgeExpired"]}

NoOperation == [kind |-> "none"]

-----------------------------------------------------------------------------
\* mutableView: the map, and the tokens set and deleted through it.

Views == [tokens : TokenMaps, dirty : SUBSET Tokens, deleted : SUBSET Tokens]

MutableView(tokens) == [tokens |-> tokens, dirty |-> {}, deleted |-> {}]

SetToken(view, t, record) ==
    [tokens |-> [view.tokens EXCEPT ![t] = record],
     dirty |-> view.dirty \cup {t},
     deleted |-> view.deleted \ {t}]

DeleteTokens(view, gone) ==
    [tokens |-> [t \in Tokens |-> IF t \in gone THEN NoRecord ELSE view.tokens[t]],
     dirty |-> view.dirty \ gone,
     deleted |-> view.deleted \cup gone]

-----------------------------------------------------------------------------
\* The operations, as functions of the view and the clock.

Expired(record, now) == record # NoRecord /\ record.expiresAt < now

PruneExpiredView(view, now) ==
    DeleteTokens(view, {t \in Tokens : Expired(view.tokens[t], now)})

\* A token that is still there keeps its envelope and gets a new expiresAt.
Tokenize(view, t, now) ==
    LET pruned == PruneExpiredView(view, now)
        existing == pruned.tokens[t]
    IN  SetToken(pruned, t,
                 IF existing # NoRecord
                 THEN [existing EXCEPT !.expiresAt = now + Retention]
                 ELSE [expiresAt |-> now + Retention, sealedUntil |-> now + Retention])

Purge(view, t, now) == DeleteTokens(PruneExpiredView(view, now), {t})

Mutation(o, tokens, now) ==
    LET view == MutableView(tokens)
    IN  CASE o.kind = "tokenize"     -> Tokenize(view, o.token, now)
          [] o.kind = "purge"        -> Purge(view, o.token, now)
          [] o.kind = "purgeExpired" -> PruneExpiredView(view, now)

\* reveal and detokenize: the record is there and not expired, and
\* assertEnvelopeFresh lets the envelope be opened.
Restorable(record, now) ==
    /\ record # NoRecord
    /\ ~Expired(record, now)
    /\ now < record.sealedUntil
=============================================================================
