------------------------------ MODULE LocalKeys -----------------------------
(***************************************************************************)
(* The local AES-256-GCM provider (packages/crypto): its key file, the     *)
(* per-key nonce budget it reserves a window at a time, and key rotation   *)
(* by `haechi init --force`.                                               *)
(*                                                                         *)
(* One gateway process runs encrypt() calls that interleave at every       *)
(* await; the CLI rotates the key file from outside; the gateway and the   *)
(* CLI may die at any await.  writeFile truncates the file and then fills  *)
(* it from its beginning, so a reader or a crash in between finds no keys  *)
(* in it, and two writers that both truncated it may leave their texts     *)
(* mixed.                                                                  *)
(***************************************************************************)
EXTENDS Naturals, FiniteSets

CONSTANTS
    Calls,          \* encrypt() calls that may be under way together
    Kids,           \* key ids that may ever be minted
    FirstKid,       \* the key the file starts with
    NoKid,
    MaxEncryptions, \* MAX_ENCRYPTIONS_PER_KEY
    Window,         \* NONCE_RESERVE_WINDOW
    MaxRequests,    \* bound: encrypt() calls made
    MaxKeyFaults,      \* bound: failed writes
    MaxCrashes      \* bound: deaths of the gateway or the CLI

ASSUME KidsAssumption == FirstKid \in Kids /\ NoKid \notin Kids
ASSUME BudgetAssumption == MaxEncryptions \in Nat \ {0} /\ Window \in Nat \ {0}
ASSUME KeysBounds == MaxRequests \in Nat /\ MaxKeyFaults \in Nat /\ MaxCrashes \in Nat

VARIABLES
    keyFile,          \* [text, active, present, usage]; it parses while its text is whole
    \* the gateway process
    up,
    cached,           \* cachedKeys.active.kid, or NoKid
    reservation,      \* {kid, base, granted, used}; kid = NoKid for null
    persistDisabled,
    callPc,               \* per call
    kid,              \* per call: the key it encrypts under
    raw,              \* per call: the key file as reserveNonceWindow parsed it
    \* the CLI
    rpc, rraw,
    \* history and bounds
    encryptions,      \* per key: IVs drawn under it, ever
    sinceStart,       \* per key: IVs drawn by the running process
    unpersisted,      \* whether a reservation ever failed to be written
    overlapped,       \* whether two encrypt() calls were ever under way together
    rotatedLive,      \* whether the CLI ever rotated under a running gateway
    torn,             \* whether a write of the key file was ever cut short
    minted,           \* kids ever generated: a fresh one is always new
    requests, keyFaults, crashes

keyProcVars == <<up, cached, reservation, persistDisabled, callPc, kid, raw>>
cliVars == <<rpc, rraw>>
switches == <<overlapped, rotatedLive, torn>>
history == <<encryptions, sinceStart, unpersisted, minted, switches>>
bounds == <<requests, keyFaults, crashes>>
keyVars == <<keyFile, keyProcVars, cliVars, history, bounds>>

NoReservation == [kid |-> NoKid, base |-> 0, granted |-> 0, used |-> 0]

FirstFile == [text |-> "whole", active |-> FirstKid, present |-> {FirstKid},
              usage |-> [k \in Kids |-> 0]]

KeysInit ==
    /\ keyFile = FirstFile
    /\ up = TRUE
    /\ cached = NoKid
    /\ reservation = NoReservation
    /\ persistDisabled = FALSE
    /\ callPc = [c \in Calls |-> "idle"]
    /\ kid = [c \in Calls |-> NoKid]
    /\ raw = [c \in Calls |-> FirstFile]
    /\ rpc = "idle"
    /\ rraw = FirstFile
    /\ encryptions = [k \in Kids |-> 0]
    /\ sinceStart = [k \in Kids |-> 0]
    /\ unpersisted = FALSE
    /\ overlapped = FALSE /\ rotatedLive = FALSE /\ torn = FALSE
    /\ minted = {FirstKid}
    /\ requests = 0 /\ keyFaults = 0 /\ crashes = 0

KeysGoto(c, where) == callPc' = [callPc EXCEPT ![c] = where]

-----------------------------------------------------------------------------
\* encrypt

\* loadKeys returns what is cached, or else reads the key file.
Encrypt(c) ==
    /\ up
    /\ callPc[c] = "idle"
    /\ requests < MaxRequests
    /\ requests' = requests + 1
    /\ overlapped' = (overlapped \/ \E d \in Calls : callPc[d] # "idle")
    /\ \/ cached = NoKid /\ KeysGoto(c, "load") /\ UNCHANGED kid
       \/ /\ cached # NoKid
          /\ KeysGoto(c, "consume")
          /\ kid' = [kid EXCEPT ![c] = cached]
    /\ UNCHANGED <<keyFile, up, cached, reservation, persistDisabled, raw, cliVars, encryptions,
                   sinceStart, unpersisted, minted, rotatedLive, torn, keyFaults, crashes>>

\* The keys that were read replace what other calls may have cached meanwhile.
\* hmac() and decrypt() load the keys the same way, then draw no IV.
LoadKeys(c) ==
    /\ callPc[c] = "load"
    /\ keyFile.text = "whole"
    /\ cached' = keyFile.active
    /\ kid' = [kid EXCEPT ![c] = keyFile.active]
    /\ KeysGoto(c, "consume") \/ KeysGoto(c, "idle")
    /\ UNCHANGED <<keyFile, up, reservation, persistDisabled, raw, cliVars, history, bounds>>

\* The call rejects: it draws no IV.
Rejects(c) ==
    /\ KeysGoto(c, "idle")
    /\ UNCHANGED <<keyFile, up, cached, reservation, persistDisabled, kid, raw, cliVars, history,
                   bounds>>

LoadFails(c) ==
    /\ callPc[c] = "load"
    /\ keyFile.text # "whole"
    /\ Rejects(c)

\* One IV is drawn under the call's key.
Count(c) ==
    /\ encryptions' = [encryptions EXCEPT ![kid[c]] = @ + 1]
    /\ sinceStart' = [sinceStart EXCEPT ![kid[c]] = @ + 1]

-----------------------------------------------------------------------------
\* consumeNonceBudget

NeedsWindow(c) ==
    \/ reservation.kid # kid[c]
    \/ reservation.used >= reservation.granted

\* index = base + used, checked against the limit, then used += 1: without a
\* wait when the window is there, or as the continuation of ReserveInMemory.
TakesIndex(c) ==
    \/ callPc[c] = "consume" /\ ~NeedsWindow(c)
    \/ callPc[c] = "take"

WithinLimit == reservation.base + reservation.used < MaxEncryptions

TakeIndex(c) ==
    /\ TakesIndex(c)
    /\ WithinLimit
    /\ reservation' = [reservation EXCEPT !.used = @ + 1]
    /\ Count(c)
    /\ KeysGoto(c, "idle")
    /\ UNCHANGED <<keyFile, up, cached, persistDisabled, kid, raw, cliVars, unpersisted, minted,
                   switches, bounds>>

LimitReached(c) ==
    /\ TakesIndex(c)
    /\ ~WithinLimit
    /\ Rejects(c)

Granted(current) ==
    IF Window < MaxEncryptions - current THEN Window ELSE MaxEncryptions - current

\* reserveNonceWindow comes back from the file and its caller's continuation
\* takes the first index: the microtask queue holds nothing else in between.
ReserveAndConsume(c, current) ==
    /\ reservation' = [kid |-> kid[c], base |-> current, granted |-> Granted(current), used |-> 1]
    /\ Count(c)
    /\ KeysGoto(c, "idle")

\* reserveNonceWindow, without persistence: count forward in memory.  Nothing
\* is awaited inside, so calls already queued may take from the new window
\* before the caller's own continuation does.
CountsInMemory(c) == persistDisabled /\ reservation.kid = kid[c]

OpenWindow(c, current) ==
    /\ reservation' = [kid |-> kid[c], base |-> current, granted |-> Granted(current), used |-> 0]
    /\ KeysGoto(c, "take")
    /\ UNCHANGED <<keyFile, up, cached, persistDisabled, kid, raw, cliVars, history, bounds>>

\* Mutant: each process counts every window afresh.
ReserveInMemoryAfresh(c) ==
    /\ callPc[c] = "consume"
    /\ NeedsWindow(c)
    /\ CountsInMemory(c)
    /\ OpenWindow(c, reservation.base)

ReserveInMemory(c) ==
    /\ callPc[c] = "consume"
    /\ NeedsWindow(c)
    /\ CountsInMemory(c)
    /\ LET current == reservation.base + reservation.granted
       IN  current < MaxEncryptions /\ OpenWindow(c, current)

InMemoryLimit(c) ==
    /\ callPc[c] = "consume"
    /\ NeedsWindow(c)
    /\ CountsInMemory(c)
    /\ reservation.base + reservation.granted >= MaxEncryptions
    /\ Rejects(c)

\* ... or readFile(keyFile) first.
StartReserve(c) ==
    /\ callPc[c] = "consume"
    /\ NeedsWindow(c)
    /\ ~CountsInMemory(c)
    /\ KeysGoto(c, "read")
    /\ UNCHANGED <<keyFile, up, cached, reservation, persistDisabled, kid, raw, cliVars, history,
                   bounds>>

Reservable(c) ==
    /\ keyFile.text = "whole"
    /\ kid[c] \in keyFile.present
    /\ keyFile.usage[kid[c]] < MaxEncryptions

ReadUsage(c) ==
    /\ callPc[c] = "read"
    /\ Reservable(c)
    /\ IF persistDisabled
       THEN /\ ReserveAndConsume(c, keyFile.usage[kid[c]])
            /\ unpersisted' = TRUE
            /\ UNCHANGED <<raw, minted, switches>>
       ELSE /\ raw' = [raw EXCEPT ![c] = keyFile]
            /\ KeysGoto(c, "write")
            /\ UNCHANGED <<reservation, history>>
    /\ UNCHANGED <<keyFile, up, cached, persistDisabled, kid, cliVars, bounds>>

\* No such key, a file that does not parse, or the limit.
ReadUsageFails(c) ==
    /\ callPc[c] = "read"
    /\ ~Reservable(c)
    /\ Rejects(c)

\* writeFile opens the file with truncation ...
Truncate == keyFile' = [keyFile EXCEPT !.text = "none"]

\* ... and then writes from the beginning of its own descriptor.  If another
\* writer's text is there by then, a shorter text leaves the end of that one
\* behind it; of two texts with as many keys either may be the shorter.
Overlaid == [keyFile EXCEPT !.text = IF @ = "none" THEN "none" ELSE "mixed"]

Fill(new) ==
    \/ /\ keyFile.text # "none" => Cardinality(new.present) >= Cardinality(keyFile.present)
       /\ keyFile' = new
    \/ /\ keyFile.text # "none" /\ keyFile # new
       /\ Cardinality(new.present) <= Cardinality(keyFile.present)
       /\ keyFile' = Overlaid

\* The writer fails or dies, perhaps with part of its text written.
CutShort(filling) == keyFile' = keyFile \/ (filling /\ keyFile' = Overlaid)

StartWrite(c) ==
    /\ callPc[c] = "write"
    /\ Truncate
    /\ KeysGoto(c, "fill")
    /\ UNCHANGED <<up, cached, reservation, persistDisabled, kid, raw, cliVars, history, bounds>>

\* Mutant: the window is written when the next one is reserved.
FinishWriteBehind(c) ==
    /\ callPc[c] = "fill"
    /\ LET current == raw[c].usage[kid[c]]
       IN  /\ Fill([raw[c] EXCEPT !.usage[kid[c]] = current + 1])
           /\ ReserveAndConsume(c, current)
    /\ UNCHANGED <<up, cached, persistDisabled, kid, raw, cliVars, unpersisted, minted,
                   switches, bounds>>

\* The file is filled with what was read, the new usage put in.
FinishWrite(c) ==
    /\ callPc[c] = "fill"
    /\ LET current == raw[c].usage[kid[c]]
       IN  /\ Fill([raw[c] EXCEPT !.usage[kid[c]] = current + Granted(current)])
           /\ ReserveAndConsume(c, current)
    /\ UNCHANGED <<up, cached, persistDisabled, kid, raw, cliVars, unpersisted, minted,
                   switches, bounds>>

\* The write fails: the error is swallowed and the window is used anyway.
\* It fails before the truncation (read-only mount) or after it (disk full).
WriteFails(c) ==
    /\ callPc[c] \in {"write", "fill"}
    /\ keyFaults < MaxKeyFaults
    /\ keyFaults' = keyFaults + 1
    /\ torn' = (torn \/ callPc[c] = "fill")
    /\ CutShort(callPc[c] = "fill")
    /\ persistDisabled' = TRUE
    /\ unpersisted' = TRUE
    /\ ReserveAndConsume(c, raw[c].usage[kid[c]])
    /\ UNCHANGED <<up, cached, kid, raw, cliVars, minted, overlapped, rotatedLive, requests, crashes>>

-----------------------------------------------------------------------------
\* The gateway process dies and is started again.

KeysCrash ==
    /\ up
    /\ crashes < MaxCrashes
    /\ crashes' = crashes + 1
    /\ torn' = (torn \/ \E c \in Calls : callPc[c] = "fill")
    /\ CutShort(\E c \in Calls : callPc[c] = "fill")
    /\ up' = FALSE
    /\ cached' = NoKid
    /\ reservation' = NoReservation
    /\ persistDisabled' = FALSE
    /\ callPc' = [c \in Calls |-> "idle"]
    /\ sinceStart' = [k \in Kids |-> 0]
    /\ UNCHANGED <<kid, raw, cliVars, encryptions, unpersisted, minted, overlapped, rotatedLive,
                   requests, keyFaults>>

Start ==
    /\ ~up
    /\ up' = TRUE
    /\ rotatedLive' = (rotatedLive \/ rpc # "idle")
    /\ UNCHANGED <<keyFile, cached, reservation, persistDisabled, callPc, kid, raw, cliVars, encryptions,
                   sinceStart, unpersisted, minted, overlapped, torn, bounds>>

-----------------------------------------------------------------------------
\* initLocalKeyFile(keyFile, { force: true }), in another process.

RotateRead ==
    /\ rpc = "idle"
    /\ keyFile.text = "whole"
    /\ rraw' = keyFile
    /\ rpc' = "write"
    /\ rotatedLive' = (rotatedLive \/ up)
    /\ UNCHANGED <<keyFile, keyProcVars, encryptions, sinceStart, unpersisted, minted, overlapped, torn,
                   bounds>>

RotateStartWrite ==
    /\ rpc = "write"
    /\ Truncate
    /\ rpc' = "fill"
    /\ UNCHANGED <<keyProcVars, rraw, history, bounds>>

\* Mutant: the prior keys are dropped.
RotateReplacing(k) ==
    /\ rpc = "fill"
    /\ k \notin minted
    /\ minted' = minted \cup {k}
    /\ Fill([rraw EXCEPT !.active = k, !.present = {k}])
    /\ rpc' = "idle"
    /\ UNCHANGED <<keyProcVars, rraw, encryptions, sinceStart, unpersisted, switches, bounds>>

\* Prior keys are retained; a fresh kid is active with no usage.
RotateFinishWrite(k) ==
    /\ rpc = "fill"
    /\ k \notin minted
    /\ minted' = minted \cup {k}
    /\ Fill([rraw EXCEPT !.active = k, !.present = @ \cup {k}])
    /\ rpc' = "idle"
    /\ UNCHANGED <<keyProcVars, rraw, encryptions, sinceStart, unpersisted, switches, bounds>>

RotateCrash ==
    /\ rpc \in {"write", "fill"}
    /\ crashes < MaxCrashes
    /\ crashes' = crashes + 1
    /\ torn' = (torn \/ rpc = "fill")
    /\ CutShort(rpc = "fill")
    /\ rpc' = "idle"
    /\ UNCHANGED <<keyProcVars, rraw, encryptions, sinceStart, unpersisted, minted, overlapped,
                   rotatedLive, requests, keyFaults>>

-----------------------------------------------------------------------------
CallStep(c) ==
    \/ Encrypt(c) \/ LoadKeys(c) \/ LoadFails(c) \/ TakeIndex(c) \/ LimitReached(c)
    \/ ReserveInMemory(c)
    \/ InMemoryLimit(c) \/ StartReserve(c) \/ ReadUsage(c) \/ ReadUsageFails(c) \/ StartWrite(c)
    \/ FinishWrite(c) \/ WriteFails(c)

Rotation ==
    RotateRead \/ RotateStartWrite \/ RotateCrash \/ \E k \in Kids : RotateFinishWrite(k)

KeysNext == (\E c \in Calls : CallStep(c)) \/ KeysCrash \/ Start \/ Rotation

KeysSpec == KeysInit /\ [][KeysNext]_keyVars

-----------------------------------------------------------------------------
\* Properties

Reservations == [kid : Kids \cup {NoKid}, base : Nat, granted : Nat, used : Nat]
KeyFiles == [text : {"whole", "none", "mixed"}, active : Kids, present : SUBSET Kids, usage : [Kids -> Nat]]

\* Every variable has the shape the code gives it.
KeysTypeOK ==
    /\ keyFile \in KeyFiles
    /\ up \in BOOLEAN
    /\ cached \in Kids \cup {NoKid}
    /\ reservation \in Reservations
    /\ persistDisabled \in BOOLEAN
    /\ callPc \in [Calls -> {"idle", "load", "consume", "read", "write", "fill", "take"}]
    /\ kid \in [Calls -> Kids \cup {NoKid}]
    /\ raw \in [Calls -> KeyFiles]
    /\ rpc \in {"idle", "write", "fill"}
    /\ rraw \in KeyFiles
    /\ encryptions \in [Kids -> Nat]
    /\ sinceStart \in [Kids -> Nat]
    /\ unpersisted \in BOOLEAN
    /\ overlapped \in BOOLEAN /\ rotatedLive \in BOOLEAN /\ torn \in BOOLEAN
    /\ minted \subseteq Kids
    /\ requests \in Nat /\ keyFaults \in Nat /\ crashes \in Nat

Sequential == ~overlapped /\ ~rotatedLive

\* What the file says of a key, once the write under way is done.
Writing == rpc = "fill" \/ \E c \in Calls : callPc[c] = "fill"

\* readNonceBudget never under-estimates (crypto/index.mjs:376-379): the
\* usage in the file covers every IV ever drawn under the key.
NeverUnderEstimates ==
    keyFile.text = "whole" /\ ~unpersisted => \A k \in Kids : encryptions[k] <= keyFile.usage[k]

\* It does so across crashes, torn writes and rotations as long as encrypt()
\* calls never overlapped and the CLI only rotated a stopped gateway.
CoversSequentialUse == Sequential => NeverUnderEstimates

\* Without persistence the limit still holds for each process ("enforcing the
\* PER-PROCESS limit only"), whether or not earlier windows were written.
PerProcessLimit ==
    Sequential => \A k \in Kids : sinceStart[k] <= MaxEncryptions

\* "No envelopes are orphaned" (operations-runbook.md:289): except while it is
\* being rewritten, and unless such a rewrite was cut short, the key file holds
\* every key that ever encrypted, although gateway and CLI overwrite each
\* other's versions of it.  Two cases are excepted, both outside what the
\* provider promises (one writer per key file, crypto/index.mjs:84-87): the
\* texts of two writers that were inside writeFile together are mixed, and
\* nothing can be read from them; and overlapping encrypt() calls in a gateway
\* that runs through a rotation, one of which may write back the file it read
\* before the rotation after another one used the new key.
NoOrphanedEnvelopes ==
    ~overlapped \/ ~rotatedLive =>
        \A k \in Kids : encryptions[k] > 0 =>
            \/ torn \/ Writing
            \/ keyFile.text = "whole" /\ k \in keyFile.present
            \/ keyFile.text = "mixed" /\ ~Sequential
=============================================================================
