-------------------------- MODULE LocalKeysProofs ---------------------------
(***************************************************************************)
(* Proofs about LocalKeys: its safety invariants hold for any number of    *)
(* calls and keys, any limit and any window.                               *)
(***************************************************************************)
EXTENDS LocalKeys, TLAPS

-----------------------------------------------------------------------------
(* The inductive invariant, in parts. *)

Rewriting(c) == callPc[c] \in {"write", "fill"}
Rotating == rpc \in {"write", "fill"}
\* Calls that have their key.
Keyed(c) == callPc[c] \in {"consume", "read", "write", "fill", "take"}

\* KeysTypeOK in two halves: the Booleans, and the rest.
SwitchesOK ==
    /\ up \in BOOLEAN /\ persistDisabled \in BOOLEAN /\ unpersisted \in BOOLEAN
    /\ overlapped \in BOOLEAN /\ rotatedLive \in BOOLEAN /\ torn \in BOOLEAN

DataOK ==
    /\ keyFile \in KeyFiles
    /\ cached \in Kids \cup {NoKid}
    /\ reservation \in Reservations
    /\ callPc \in [Calls -> {"idle", "load", "consume", "read", "write", "fill", "take"}]
    /\ kid \in [Calls -> Kids \cup {NoKid}]
    /\ raw \in [Calls -> KeyFiles]
    /\ rpc \in {"idle", "write", "fill"}
    /\ rraw \in KeyFiles
    /\ encryptions \in [Kids -> Nat]
    /\ sinceStart \in [Kids -> Nat]
    /\ minted \subseteq Kids
    /\ requests \in Nat /\ keyFaults \in Nat /\ crashes \in Nat

\* A process that is down holds nothing.
DownIsEmpty ==
    ~up => /\ cached = NoKid
           /\ reservation.kid = NoKid
           /\ ~persistDisabled
           /\ \A c \in Calls : callPc[c] = "idle"
           /\ \A k \in Kids : sinceStart[k] = 0

\* What the two switches say.
OneCallUnlessOverlapped ==
    ~overlapped => \A c, d \in Calls : callPc[c] # "idle" /\ callPc[d] # "idle" => c = d
StoppedUnlessLive == ~rotatedLive /\ Rotating => ~up

\* Every call past the load has a key, and one that is about to write a window
\* found room for it.
KeyedHaveKid ==
    \A c \in Calls : /\ Keyed(c) => kid[c] \in Kids
                     /\ Rewriting(c) => raw[c].usage[kid[c]] < MaxEncryptions

\* A file that does not parse is being rewritten, was cut short, or was written
\* by two writers at once.
UnreadableIsTorn ==
    /\ keyFile.text # "whole" => torn \/ Writing \/ keyFile.text = "mixed"
    /\ \A c \in Calls : Rewriting(c) => raw[c].text = "whole"
    /\ Rotating => rraw.text = "whole"

\* Every version of the file holds its active key.
ActivePresent ==
    /\ keyFile.active \in keyFile.present
    /\ \A c \in Calls : Rewriting(c) => raw[c].active \in raw[c].present

\* The keys that must not be lost: used ones, and ones about to be used.
InUse(k) ==
    \/ encryptions[k] > 0
    \/ cached = k
    \/ \E c \in Calls : Keyed(c) /\ kid[c] = k

\* Every version of the file that may yet be written holds them.
VersionsHoldKeys ==
    \A k \in Kids : InUse(k) =>
        /\ k \in keyFile.present
        /\ \A c \in Calls : Rewriting(c) => k \in raw[c].present
        /\ Rotating => k \in rraw.present

\* What is held against the file: a call holds no key that the file has lost,
\* the CLI holds every key of the file; nothing differs in a stopped system.
VersionsOrdered ==
    /\ \A c \in Calls : Rewriting(c) => raw[c].present \subseteq keyFile.present
    /\ Rotating => keyFile.present \subseteq rraw.present
    /\ ~rotatedLive => \A c \in Calls : Rewriting(c) => raw[c].present = keyFile.present

NothingLost ==
    ~overlapped \/ ~rotatedLive => VersionsHoldKeys /\ VersionsOrdered

\* Sequential use: one key per process, and the held versions are current.
OneKey ==
    /\ \A c \in Calls : Keyed(c) => kid[c] = cached
    /\ reservation.kid \in {NoKid, cached}
    /\ cached = NoKid => reservation.kid = NoKid
    /\ \A k \in Kids : k # reservation.kid => sinceStart[k] = 0
    /\ \A c \in Calls : callPc[c] = "load" => cached = NoKid

HeldIsCurrent ==
    /\ \A c \in Calls : Rewriting(c) => raw[c].usage = keyFile.usage
    /\ Rotating => rraw.usage = keyFile.usage

\* The window: within its grant and the limit, and accounted for in the file
\* unless the process could not write it.
WindowSound ==
    /\ reservation.used <= reservation.granted
    /\ reservation.base + reservation.granted <= MaxEncryptions
    /\ \A k \in Kids : k = reservation.kid => sinceStart[k] <= reservation.base + reservation.used
    /\ persistDisabled => reservation.kid = cached /\ cached # NoKid
    /\ \A c \in Calls : callPc[c] = "take" =>
          /\ reservation.used < reservation.granted
          /\ persistDisabled
    /\ \A c \in Calls : callPc[c] \in {"read", "write", "fill"} => ~persistDisabled
    /\ ~persistDisabled => \A k \in Kids : k = reservation.kid =>
          reservation.base + reservation.granted <= keyFile.usage[k]

UsageCovers ==
    ~unpersisted =>
        /\ ~persistDisabled
        /\ \A k \in Kids : encryptions[k] <= keyFile.usage[k]
        /\ \A k \in Kids : k = reservation.kid =>
              encryptions[k] + reservation.granted <= keyFile.usage[k] + reservation.used

\* One writer at a time finds the file as it truncated it.
NotMixed ==
    /\ keyFile.text # "mixed"
    /\ Writing => keyFile.text = "none"

SequentialSound ==
    Sequential => NotMixed /\ OneKey /\ HeldIsCurrent /\ WindowSound /\ UsageCovers

IInv ==
    /\ KeysTypeOK
    /\ DownIsEmpty /\ OneCallUnlessOverlapped /\ StoppedUnlessLive /\ KeyedHaveKid
    /\ UnreadableIsTorn /\ ActivePresent
    /\ NothingLost
    /\ SequentialSound
-----------------------------------------------------------------------------
(* Proofs. *)

\* Drawing an IV adds to two counters.
LEMMA CountTyped ==
    ASSUME KeysTypeOK, NEW c \in Calls, kid[c] \in Kids, Count(c)
    PROVE  /\ encryptions' \in [Kids -> Nat]
           /\ sinceStart' \in [Kids -> Nat]
BY DEF KeysTypeOK, Count

\* Taking an index changes one field.
LEMMA UsedTyped ==
    ASSUME NEW r \in Reservations
    PROVE  [r EXCEPT !.used = @ + 1] \in Reservations
<1>1. r.used + 1 \in Nat
  BY DEF Reservations
<1> QED
  BY <1>1 DEF Reservations

\* Writing a usage changes one entry of the file.
LEMMA UsageTyped ==
    ASSUME NEW f \in KeyFiles, NEW k \in Kids, NEW n \in Nat
    PROVE  [f EXCEPT !.usage[k] = n] \in KeyFiles
<1>1. [f.usage EXCEPT ![k] = n] \in [Kids -> Nat]
  BY DEF KeyFiles
<1> QED
  BY <1>1 DEF KeyFiles

\* What truncating, filling and failing to fill do to the file: its keys are
\* those it had, or the new text's.
SameKeys ==
    /\ keyFile'.active = keyFile.active
    /\ keyFile'.present = keyFile.present
    /\ keyFile'.usage = keyFile.usage

LEMMA TruncateKeeps ==
    ASSUME keyFile \in KeyFiles, Truncate
    PROVE  keyFile' \in KeyFiles /\ SameKeys /\ keyFile'.text = "none"
BY DEF Truncate, KeyFiles, SameKeys

LEMMA OverlayKeeps ==
    ASSUME keyFile \in KeyFiles, keyFile' = Overlaid
    PROVE  /\ keyFile' \in KeyFiles /\ SameKeys
           /\ keyFile'.text = IF keyFile.text = "none" THEN "none" ELSE "mixed"
BY DEF Overlaid, KeyFiles, SameKeys

LEMMA CutKeeps ==
    ASSUME keyFile \in KeyFiles, NEW filling, CutShort(filling)
    PROVE  /\ keyFile' \in KeyFiles /\ SameKeys
           /\ keyFile.text = "none" => keyFile'.text = "none"
           /\ ~filling => keyFile' = keyFile
           /\ keyFile'.text # keyFile.text => keyFile'.text = "mixed"
BY OverlayKeeps DEF CutShort, SameKeys

LEMMA FillKeeps ==
    ASSUME keyFile \in KeyFiles, NEW new \in KeyFiles, Fill(new)
    PROVE  /\ keyFile' \in KeyFiles
           /\ \/ keyFile' = new
              \/ SameKeys /\ keyFile.text # "none" /\ keyFile'.text = "mixed"
BY OverlayKeeps DEF Fill

\* The text a reservation writes, and the one a rotation writes.
Reserved(c) == [raw[c] EXCEPT !.usage[kid[c]] = @ + Granted(@)]
Rotated(k) == [rraw EXCEPT !.active = k, !.present = @ \cup {k}]

LEMMA RotatedTyped ==
    ASSUME rraw \in KeyFiles, NEW k \in Kids
    PROVE  /\ Rotated(k) \in KeyFiles
           /\ Rotated(k).active = k /\ Rotated(k).present = rraw.present \cup {k}
           /\ Rotated(k).usage = rraw.usage /\ Rotated(k).text = rraw.text
BY DEF Rotated, KeyFiles

LEMMA RotatedFills ==
    ASSUME KeysTypeOK, NEW k \in Kids, RotateFinishWrite(k)
    PROVE  /\ keyFile' \in KeyFiles
           /\ \/ keyFile' = Rotated(k)
              \/ SameKeys /\ keyFile.text # "none" /\ keyFile'.text = "mixed"
<1>1. Rotated(k) \in KeyFiles /\ Fill(Rotated(k)) /\ keyFile \in KeyFiles
  BY RotatedTyped DEF RotateFinishWrite, Rotated, KeysTypeOK
<1> QED
  BY <1>1, FillKeeps

\* A window opened below the limit is not empty and ends within the limit.
LEMMA GrantedTyped ==
    ASSUME NEW current \in Nat, current < MaxEncryptions
    PROVE  /\ Granted(current) \in Nat \ {0}
           /\ current + Granted(current) <= MaxEncryptions
BY BudgetAssumption DEF Granted

LEMMA ReservedTyped ==
    ASSUME KeysTypeOK, KeyedHaveKid, NEW c \in Calls, Rewriting(c)
    PROVE  LET current == raw[c].usage[kid[c]]
           IN  /\ Reserved(c) \in KeyFiles
               /\ Reserved(c).active = raw[c].active /\ Reserved(c).present = raw[c].present
               /\ Reserved(c).text = raw[c].text
               /\ Reserved(c).usage = [raw[c].usage EXCEPT ![kid[c]] = current + Granted(current)]
               /\ current \in Nat /\ current < MaxEncryptions
<1> DEFINE f == raw[c]
           current == f.usage[kid[c]]
           n == current + Granted(current)
<1>1. f \in KeyFiles /\ kid[c] \in Kids /\ current < MaxEncryptions
  BY DEF KeysTypeOK, KeyedHaveKid, Keyed, Rewriting
<1>2. current \in Nat
  BY <1>1 DEF KeyFiles
<1>3. n \in Nat
  BY <1>1, <1>2, GrantedTyped
<1>4. Reserved(c) = [f EXCEPT !.usage[kid[c]] = n]
  BY DEF Reserved
<1> HIDE DEF n, f
<1>5. Reserved(c) \in KeyFiles
  BY <1>1, <1>3, <1>4, UsageTyped
<1>6. /\ Reserved(c).active = f.active /\ Reserved(c).present = f.present
      /\ Reserved(c).text = f.text
      /\ Reserved(c).usage = [f.usage EXCEPT ![kid[c]] = n]
  BY <1>1, <1>4 DEF KeyFiles
<1> QED
  BY <1>1, <1>2, <1>5, <1>6 DEF f, n

LEMMA ReservedFills ==
    ASSUME KeysTypeOK, KeyedHaveKid, NEW c \in Calls, FinishWrite(c)
    PROVE  /\ keyFile' \in KeyFiles
           /\ \/ keyFile' = Reserved(c)
              \/ SameKeys /\ keyFile.text # "none" /\ keyFile'.text = "mixed"
<1>1. Reserved(c) \in KeyFiles
  BY ReservedTyped DEF FinishWrite, Rewriting
<1>2. Fill(Reserved(c))
  BY DEF FinishWrite, Reserved
<1>3. keyFile \in KeyFiles
  BY DEF KeysTypeOK
<1> QED
  BY <1>1, <1>2, <1>3, FillKeeps

\* The Booleans stay Booleans.
LEMMA SwitchesOKStep ==
    ASSUME SwitchesOK, KeysNext
    PROVE  SwitchesOK'
<1> USE DEF keyVars, keyProcVars, cliVars, switches, history, bounds, KeysGoto, SwitchesOK
<1>1. ASSUME NEW c \in Calls, Encrypt(c) PROVE SwitchesOK'
  BY <1>1 DEF Encrypt
<1>2. ASSUME NEW c \in Calls, LoadKeys(c) PROVE SwitchesOK'
  BY <1>2 DEF LoadKeys
<1>3. ASSUME NEW c \in Calls, LoadFails(c) PROVE SwitchesOK'
  BY <1>3 DEF LoadFails, Rejects
<1>4. ASSUME NEW c \in Calls, TakeIndex(c) PROVE SwitchesOK'
  BY <1>4 DEF TakeIndex, Count
<1>5. ASSUME NEW c \in Calls, LimitReached(c) PROVE SwitchesOK'
  BY <1>5 DEF LimitReached, Rejects
<1>6. ASSUME NEW c \in Calls, ReserveInMemory(c) PROVE SwitchesOK'
  BY <1>6 DEF ReserveInMemory, OpenWindow
<1>7. ASSUME NEW c \in Calls, InMemoryLimit(c) PROVE SwitchesOK'
  BY <1>7 DEF InMemoryLimit, Rejects
<1>8. ASSUME NEW c \in Calls, StartReserve(c) PROVE SwitchesOK'
  BY <1>8 DEF StartReserve
<1>9. ASSUME NEW c \in Calls, ReadUsage(c) PROVE SwitchesOK'
  BY <1>9 DEF ReadUsage, Reservable, ReserveAndConsume, Count
<1>10. ASSUME NEW c \in Calls, ReadUsageFails(c) PROVE SwitchesOK'
  BY <1>10 DEF ReadUsageFails, Rejects
<1>11. ASSUME NEW c \in Calls, StartWrite(c) PROVE SwitchesOK'
  BY <1>11 DEF StartWrite
<1>12. ASSUME NEW c \in Calls, FinishWrite(c) PROVE SwitchesOK'
  BY <1>12 DEF FinishWrite, ReserveAndConsume, Count
<1>13. ASSUME NEW c \in Calls, WriteFails(c) PROVE SwitchesOK'
  BY <1>13 DEF WriteFails, ReserveAndConsume, Count
<1>14. CASE KeysCrash
  BY <1>14 DEF KeysCrash, NoReservation
<1>15. CASE Start
  BY <1>15 DEF Start
<1>16. CASE RotateRead
  BY <1>16 DEF RotateRead
<1>17. CASE RotateStartWrite
  BY <1>17 DEF RotateStartWrite
<1>18. CASE RotateCrash
  BY <1>18 DEF RotateCrash
<1>19. ASSUME NEW k \in Kids, RotateFinishWrite(k) PROVE SwitchesOK'
  BY <1>19 DEF RotateFinishWrite
<1> QED
  BY <1>1, <1>2, <1>3, <1>4, <1>5, <1>6, <1>7, <1>8, <1>9, <1>10, <1>11, <1>12, <1>13, <1>14, <1>15, <1>16, <1>17, <1>18, <1>19 DEF KeysNext, CallStep, Rotation

\* The other variables keep their shape.
LEMMA DataOKStep ==
    ASSUME KeysTypeOK, KeyedHaveKid, KeysNext
    PROVE  DataOK'
<1> USE KidsAssumption, BudgetAssumption, KeysBounds DEF keyVars, keyProcVars, cliVars, switches, history, bounds, KeysGoto, KeysTypeOK, DataOK, Reservations, KeyFiles, KeyedHaveKid, Keyed, Rewriting
<1>1. ASSUME NEW c \in Calls, Encrypt(c) PROVE DataOK'
  <2> HIDE DEF KeyFiles, Reservations
  <2>1. /\ callPc' \in [Calls -> {"idle", "load", "consume", "read", "write", "fill", "take"}]
        /\ kid' \in [Calls -> Kids \cup {NoKid}]
        /\ requests' \in Nat
    BY <1>1 DEF Encrypt
  <2>2. UNCHANGED <<keyFile, cached, reservation, raw, rpc, rraw, encryptions, sinceStart, minted,
                    keyFaults, crashes>>
    BY <1>1 DEF Encrypt
  <2> QED
    BY <2>1, <2>2
<1>2. ASSUME NEW c \in Calls, LoadKeys(c) PROVE DataOK'
  BY <1>2 DEF LoadKeys
<1>3. ASSUME NEW c \in Calls, LoadFails(c) PROVE DataOK'
  BY <1>3 DEF LoadFails, Rejects
<1>4. ASSUME NEW c \in Calls, TakeIndex(c) PROVE DataOK'
  <2>1. kid[c] \in Kids
    BY <1>4 DEF TakeIndex, TakesIndex
  <2>2. encryptions' \in [Kids -> Nat] /\ sinceStart' \in [Kids -> Nat]
    BY <1>4, <2>1, CountTyped DEF TakeIndex
  <2>3. reservation' \in Reservations
    BY <1>4, UsedTyped DEF TakeIndex
  <2>4. UNCHANGED <<keyFile, cached, kid, raw, rpc, rraw, minted, requests, keyFaults, crashes>>
    BY <1>4 DEF TakeIndex
  <2>5. callPc' \in [Calls -> {"idle", "load", "consume", "read", "write", "fill", "take"}]
    BY <1>4 DEF TakeIndex
  <2> QED
    BY <2>2, <2>3, <2>4, <2>5
<1>5. ASSUME NEW c \in Calls, LimitReached(c) PROVE DataOK'
  BY <1>5 DEF LimitReached, Rejects
<1>6. ASSUME NEW c \in Calls, ReserveInMemory(c) PROVE DataOK'
  <2> DEFINE current == reservation.base + reservation.granted
  <2>1. current \in Nat /\ current < MaxEncryptions
    BY <1>6 DEF ReserveInMemory
  <2>2. Granted(current) \in Nat
    BY <2>1, GrantedTyped
  <2> QED
    BY <1>6, <2>1, <2>2 DEF ReserveInMemory, OpenWindow
<1>7. ASSUME NEW c \in Calls, InMemoryLimit(c) PROVE DataOK'
  BY <1>7 DEF InMemoryLimit, Rejects
<1>8. ASSUME NEW c \in Calls, StartReserve(c) PROVE DataOK'
  BY <1>8 DEF StartReserve
<1>9. ASSUME NEW c \in Calls, ReadUsage(c) PROVE DataOK'
  <2> DEFINE current == keyFile.usage[kid[c]]
  <2>1. kid[c] \in Kids
    BY <1>9 DEF ReadUsage
  <2>2. current \in Nat /\ current < MaxEncryptions
    BY <1>9, <2>1 DEF ReadUsage, Reservable
  <2>3. Granted(current) \in Nat
    BY <2>2, GrantedTyped
  <2>4. ReserveAndConsume(c, current) =>
          /\ encryptions' \in [Kids -> Nat] /\ sinceStart' \in [Kids -> Nat]
          /\ reservation' \in Reservations
          /\ callPc' \in [Calls -> {"idle", "load", "consume", "read", "write", "fill", "take"}]
    <3> HIDE DEF current
    <3> QED  BY <2>1, <2>2, <2>3, CountTyped DEF ReserveAndConsume
  <2>5. raw' \in [Calls -> KeyFiles]
    <3>1. keyFile \in KeyFiles /\ raw \in [Calls -> KeyFiles]
      OBVIOUS
    <3> HIDE DEF KeyFiles
    <3> QED
      BY <1>9, <3>1 DEF ReadUsage
  <2>6. /\ encryptions' \in [Kids -> Nat] /\ sinceStart' \in [Kids -> Nat]
        /\ reservation' \in Reservations
        /\ callPc' \in [Calls -> {"idle", "load", "consume", "read", "write", "fill", "take"}]
    BY <1>9, <2>4 DEF ReadUsage
  <2>7. /\ keyFile' = keyFile /\ cached' = cached /\ kid' = kid /\ rpc' = rpc /\ rraw' = rraw
        /\ minted' = minted /\ requests' = requests /\ keyFaults' \in Nat /\ crashes' = crashes
    BY <1>9 DEF ReadUsage
  <2> QED
    BY <2>5, <2>6, <2>7
<1>10. ASSUME NEW c \in Calls, ReadUsageFails(c) PROVE DataOK'
  BY <1>10 DEF ReadUsageFails, Rejects
<1>11. ASSUME NEW c \in Calls, StartWrite(c) PROVE DataOK'
  BY <1>11, TruncateKeeps DEF StartWrite
<1>12. ASSUME NEW c \in Calls, FinishWrite(c) PROVE DataOK'
  <2> DEFINE current == raw[c].usage[kid[c]]
  <2>1. kid[c] \in Kids
    BY <1>12 DEF FinishWrite
  <2>2. current \in Nat /\ current < MaxEncryptions
    BY <1>12, <2>1 DEF FinishWrite, Reservable
  <2>3. Granted(current) \in Nat
    BY <2>2, GrantedTyped
  <2>4. ReserveAndConsume(c, current) =>
          /\ encryptions' \in [Kids -> Nat] /\ sinceStart' \in [Kids -> Nat]
          /\ reservation' \in Reservations
          /\ callPc' \in [Calls -> {"idle", "load", "consume", "read", "write", "fill", "take"}]
    <3> HIDE DEF current
    <3> QED  BY <2>1, <2>2, <2>3, CountTyped DEF ReserveAndConsume
  <2>5. keyFile' \in KeyFiles
    BY <1>12, ReservedFills
  <2>6. /\ encryptions' \in [Kids -> Nat] /\ sinceStart' \in [Kids -> Nat]
        /\ reservation' \in Reservations
        /\ callPc' \in [Calls -> {"idle", "load", "consume", "read", "write", "fill", "take"}]
    BY <1>12, <2>4 DEF FinishWrite
  <2>7. /\ raw' = raw /\ cached' = cached /\ kid' = kid /\ rpc' = rpc /\ rraw' = rraw
        /\ minted' = minted /\ requests' = requests /\ keyFaults' \in Nat /\ crashes' = crashes
    BY <1>12 DEF FinishWrite
  <2> QED
    BY <2>5, <2>6, <2>7
<1>13. ASSUME NEW c \in Calls, WriteFails(c) PROVE DataOK'
  <2> DEFINE current == raw[c].usage[kid[c]]
  <2>1. kid[c] \in Kids
    BY <1>13 DEF WriteFails
  <2>2. current \in Nat /\ current < MaxEncryptions
    BY <1>13, <2>1 DEF WriteFails, Reservable
  <2>3. Granted(current) \in Nat
    BY <2>2, GrantedTyped
  <2>4. ReserveAndConsume(c, current) =>
          /\ encryptions' \in [Kids -> Nat] /\ sinceStart' \in [Kids -> Nat]
          /\ reservation' \in Reservations
          /\ callPc' \in [Calls -> {"idle", "load", "consume", "read", "write", "fill", "take"}]
    <3> HIDE DEF current
    <3> QED  BY <2>1, <2>2, <2>3, CountTyped DEF ReserveAndConsume
  <2>5. keyFile' \in KeyFiles
    BY <1>13, CutKeeps DEF WriteFails
  <2>6. /\ encryptions' \in [Kids -> Nat] /\ sinceStart' \in [Kids -> Nat]
        /\ reservation' \in Reservations
        /\ callPc' \in [Calls -> {"idle", "load", "consume", "read", "write", "fill", "take"}]
    BY <1>13, <2>4 DEF WriteFails
  <2>7. /\ raw' = raw /\ cached' = cached /\ kid' = kid /\ rpc' = rpc /\ rraw' = rraw
        /\ minted' = minted /\ requests' = requests /\ keyFaults' \in Nat /\ crashes' = crashes
    BY <1>13 DEF WriteFails
  <2> QED
    BY <2>5, <2>6, <2>7
<1>14. CASE KeysCrash
  <2>1. keyFile' \in KeyFiles
    BY <1>14, CutKeeps DEF KeysCrash
  <2>2. reservation' \in Reservations
    BY <1>14 DEF KeysCrash, NoReservation
  <2> HIDE DEF KeyFiles, Reservations
  <2> QED
    BY <1>14, <2>1, <2>2 DEF KeysCrash
<1>15. CASE Start
  BY <1>15 DEF Start
<1>16. CASE RotateRead
  BY <1>16 DEF RotateRead
<1>17. CASE RotateStartWrite
  BY <1>17, TruncateKeeps DEF RotateStartWrite
<1>18. CASE RotateCrash
  BY <1>18, CutKeeps DEF RotateCrash
<1>19. ASSUME NEW k \in Kids, RotateFinishWrite(k) PROVE DataOK'
  BY <1>19, RotatedFills DEF RotateFinishWrite
<1> QED
  BY <1>1, <1>2, <1>3, <1>4, <1>5, <1>6, <1>7, <1>8, <1>9, <1>10, <1>11, <1>12, <1>13, <1>14, <1>15, <1>16, <1>17, <1>18, <1>19 DEF KeysNext, CallStep, Rotation

\* The two halves make the whole.
LEMMA TypeOKHalves == KeysTypeOK <=> SwitchesOK /\ DataOK
BY DEF KeysTypeOK, SwitchesOK, DataOK

\* A process that died holds nothing of its last life.
LEMMA DownIsEmptyStep ==
    ASSUME KeysTypeOK, DownIsEmpty, KeysNext
    PROVE  DownIsEmpty'
<1> USE KidsAssumption, BudgetAssumption, KeysBounds DEF keyVars, keyProcVars, cliVars, switches, history, bounds, KeysGoto, KeysTypeOK, DownIsEmpty
<1>1. ASSUME NEW c \in Calls, Encrypt(c) PROVE DownIsEmpty'
  BY <1>1 DEF Encrypt
<1>2. ASSUME NEW c \in Calls, LoadKeys(c) PROVE DownIsEmpty'
  BY <1>2 DEF LoadKeys
<1>3. ASSUME NEW c \in Calls, LoadFails(c) PROVE DownIsEmpty'
  BY <1>3 DEF LoadFails, Rejects
<1>4. ASSUME NEW c \in Calls, TakeIndex(c) PROVE DownIsEmpty'
  BY <1>4 DEF TakeIndex, Count, TakesIndex, NeedsWindow
<1>5. ASSUME NEW c \in Calls, LimitReached(c) PROVE DownIsEmpty'
  BY <1>5 DEF LimitReached, Rejects
<1>6. ASSUME NEW c \in Calls, ReserveInMemory(c) PROVE DownIsEmpty'
  BY <1>6 DEF ReserveInMemory, OpenWindow
<1>7. ASSUME NEW c \in Calls, InMemoryLimit(c) PROVE DownIsEmpty'
  BY <1>7 DEF InMemoryLimit, Rejects
<1>8. ASSUME NEW c \in Calls, StartReserve(c) PROVE DownIsEmpty'
  BY <1>8 DEF StartReserve
<1>9. ASSUME NEW c \in Calls, ReadUsage(c) PROVE DownIsEmpty'
  BY <1>9 DEF ReadUsage, Reservable, ReserveAndConsume, Count
<1>10. ASSUME NEW c \in Calls, ReadUsageFails(c) PROVE DownIsEmpty'
  BY <1>10 DEF ReadUsageFails, Rejects
<1>11. ASSUME NEW c \in Calls, StartWrite(c) PROVE DownIsEmpty'
  BY <1>11 DEF StartWrite
<1>12. ASSUME NEW c \in Calls, FinishWrite(c) PROVE DownIsEmpty'
  BY <1>12 DEF FinishWrite, ReserveAndConsume, Count
<1>13. ASSUME NEW c \in Calls, WriteFails(c) PROVE DownIsEmpty'
  BY <1>13 DEF WriteFails, ReserveAndConsume, Count
<1>14. CASE KeysCrash
  BY <1>14 DEF KeysCrash, NoReservation
<1>15. CASE Start
  BY <1>15 DEF Start
<1>16. CASE RotateRead
  BY <1>16 DEF RotateRead
<1>17. CASE RotateStartWrite
  BY <1>17 DEF RotateStartWrite
<1>18. CASE RotateCrash
  BY <1>18 DEF RotateCrash
<1>19. ASSUME NEW k \in Kids, RotateFinishWrite(k) PROVE DownIsEmpty'
  BY <1>19 DEF RotateFinishWrite
<1> QED
  BY <1>1, <1>2, <1>3, <1>4, <1>5, <1>6, <1>7, <1>8, <1>9, <1>10, <1>11, <1>12, <1>13, <1>14, <1>15, <1>16, <1>17, <1>18, <1>19 DEF KeysNext, CallStep, Rotation

\* The first call that joins another one sets the switch.
LEMMA OneCallUnlessOverlappedStep ==
    ASSUME KeysTypeOK, OneCallUnlessOverlapped, KeysNext
    PROVE  OneCallUnlessOverlapped'
<1> USE KidsAssumption, BudgetAssumption, KeysBounds DEF keyVars, keyProcVars, cliVars, switches, history, bounds, KeysGoto, KeysTypeOK, OneCallUnlessOverlapped
<1>1. ASSUME NEW c \in Calls, Encrypt(c) PROVE OneCallUnlessOverlapped'
  <2> SUFFICES ASSUME ~overlapped', NEW x \in Calls, NEW y \in Calls, callPc'[x] # "idle", callPc'[y] # "idle"
               PROVE  x = y
    OBVIOUS
  <2>1. \A d \in Calls : callPc[d] = "idle"
    BY <1>1 DEF Encrypt
  <2>2. \A d \in Calls : d # c => callPc'[d] = callPc[d]
    BY <1>1 DEF Encrypt
  <2> QED
    BY <2>1, <2>2
<1>2. ASSUME NEW c \in Calls, LoadKeys(c) PROVE OneCallUnlessOverlapped'
  BY <1>2 DEF LoadKeys
<1>3. ASSUME NEW c \in Calls, LoadFails(c) PROVE OneCallUnlessOverlapped'
  BY <1>3 DEF LoadFails, Rejects
<1>4. ASSUME NEW c \in Calls, TakeIndex(c) PROVE OneCallUnlessOverlapped'
  BY <1>4 DEF TakeIndex, Count
<1>5. ASSUME NEW c \in Calls, LimitReached(c) PROVE OneCallUnlessOverlapped'
  BY <1>5 DEF LimitReached, Rejects
<1>6. ASSUME NEW c \in Calls, ReserveInMemory(c) PROVE OneCallUnlessOverlapped'
  BY <1>6 DEF ReserveInMemory, OpenWindow
<1>7. ASSUME NEW c \in Calls, InMemoryLimit(c) PROVE OneCallUnlessOverlapped'
  BY <1>7 DEF InMemoryLimit, Rejects
<1>8. ASSUME NEW c \in Calls, StartReserve(c) PROVE OneCallUnlessOverlapped'
  BY <1>8 DEF StartReserve
<1>9. ASSUME NEW c \in Calls, ReadUsage(c) PROVE OneCallUnlessOverlapped'
  BY <1>9 DEF ReadUsage, Reservable, ReserveAndConsume, Count
<1>10. ASSUME NEW c \in Calls, ReadUsageFails(c) PROVE OneCallUnlessOverlapped'
  BY <1>10 DEF ReadUsageFails, Rejects
<1>11. ASSUME NEW c \in Calls, StartWrite(c) PROVE OneCallUnlessOverlapped'
  BY <1>11 DEF StartWrite
<1>12. ASSUME NEW c \in Calls, FinishWrite(c) PROVE OneCallUnlessOverlapped'
  BY <1>12 DEF FinishWrite, ReserveAndConsume, Count
<1>13. ASSUME NEW c \in Calls, WriteFails(c) PROVE OneCallUnlessOverlapped'
  BY <1>13 DEF WriteFails, ReserveAndConsume, Count
<1>14. CASE KeysCrash
  BY <1>14 DEF KeysCrash, NoReservation
<1>15. CASE Start
  BY <1>15 DEF Start
<1>16. CASE RotateRead
  BY <1>16 DEF RotateRead
<1>17. CASE RotateStartWrite
  BY <1>17 DEF RotateStartWrite
<1>18. CASE RotateCrash
  BY <1>18 DEF RotateCrash
<1>19. ASSUME NEW k \in Kids, RotateFinishWrite(k) PROVE OneCallUnlessOverlapped'
  BY <1>19 DEF RotateFinishWrite
<1> QED
  BY <1>1, <1>2, <1>3, <1>4, <1>5, <1>6, <1>7, <1>8, <1>9, <1>10, <1>11, <1>12, <1>13, <1>14, <1>15, <1>16, <1>17, <1>18, <1>19 DEF KeysNext, CallStep, Rotation

\* A rotation under a running gateway, or a start under a rotation, sets the switch.
LEMMA StoppedUnlessLiveStep ==
    ASSUME KeysTypeOK, StoppedUnlessLive, KeysNext
    PROVE  StoppedUnlessLive'
<1> USE KidsAssumption, BudgetAssumption, KeysBounds DEF keyVars, keyProcVars, cliVars, switches, history, bounds, KeysGoto, KeysTypeOK, StoppedUnlessLive, Rotating
<1>1. ASSUME NEW c \in Calls, Encrypt(c) PROVE StoppedUnlessLive'
  BY <1>1 DEF Encrypt
<1>2. ASSUME NEW c \in Calls, LoadKeys(c) PROVE StoppedUnlessLive'
  BY <1>2 DEF LoadKeys
<1>3. ASSUME NEW c \in Calls, LoadFails(c) PROVE StoppedUnlessLive'
  BY <1>3 DEF LoadFails, Rejects
<1>4. ASSUME NEW c \in Calls, TakeIndex(c) PROVE StoppedUnlessLive'
  BY <1>4 DEF TakeIndex, Count
<1>5. ASSUME NEW c \in Calls, LimitReached(c) PROVE StoppedUnlessLive'
  BY <1>5 DEF LimitReached, Rejects
<1>6. ASSUME NEW c \in Calls, ReserveInMemory(c) PROVE StoppedUnlessLive'
  BY <1>6 DEF ReserveInMemory, OpenWindow
<1>7. ASSUME NEW c \in Calls, InMemoryLimit(c) PROVE StoppedUnlessLive'
  BY <1>7 DEF InMemoryLimit, Rejects
<1>8. ASSUME NEW c \in Calls, StartReserve(c) PROVE StoppedUnlessLive'
  BY <1>8 DEF StartReserve
<1>9. ASSUME NEW c \in Calls, ReadUsage(c) PROVE StoppedUnlessLive'
  BY <1>9 DEF ReadUsage, Reservable, ReserveAndConsume, Count
<1>10. ASSUME NEW c \in Calls, ReadUsageFails(c) PROVE StoppedUnlessLive'
  BY <1>10 DEF ReadUsageFails, Rejects
<1>11. ASSUME NEW c \in Calls, StartWrite(c) PROVE StoppedUnlessLive'
  BY <1>11 DEF StartWrite
<1>12. ASSUME NEW c \in Calls, FinishWrite(c) PROVE StoppedUnlessLive'
  BY <1>12 DEF FinishWrite, ReserveAndConsume, Count
<1>13. ASSUME NEW c \in Calls, WriteFails(c) PROVE StoppedUnlessLive'
  BY <1>13 DEF WriteFails, ReserveAndConsume, Count
<1>14. CASE KeysCrash
  BY <1>14 DEF KeysCrash, NoReservation
<1>15. CASE Start
  BY <1>15 DEF Start
<1>16. CASE RotateRead
  BY <1>16 DEF RotateRead
<1>17. CASE RotateStartWrite
  BY <1>17 DEF RotateStartWrite
<1>18. CASE RotateCrash
  BY <1>18 DEF RotateCrash
<1>19. ASSUME NEW k \in Kids, RotateFinishWrite(k) PROVE StoppedUnlessLive'
  BY <1>19 DEF RotateFinishWrite
<1> QED
  BY <1>1, <1>2, <1>3, <1>4, <1>5, <1>6, <1>7, <1>8, <1>9, <1>10, <1>11, <1>12, <1>13, <1>14, <1>15, <1>16, <1>17, <1>18, <1>19 DEF KeysNext, CallStep, Rotation

\* A call gets its key from the file or from the cache and keeps it.
LEMMA KeyedHaveKidStep ==
    ASSUME KeysTypeOK, ActivePresent, KeyedHaveKid, KeysNext
    PROVE  KeyedHaveKid'
<1> USE KidsAssumption, BudgetAssumption, KeysBounds DEF keyVars, keyProcVars, cliVars, switches, history, bounds, KeysGoto, KeysTypeOK, KeyFiles, KeyedHaveKid, Keyed, Rewriting
<1>1. ASSUME NEW c \in Calls, Encrypt(c) PROVE KeyedHaveKid'
  BY <1>1 DEF Encrypt
<1>2. ASSUME NEW c \in Calls, LoadKeys(c) PROVE KeyedHaveKid'
  BY <1>2 DEF LoadKeys
<1>3. ASSUME NEW c \in Calls, LoadFails(c) PROVE KeyedHaveKid'
  BY <1>3 DEF LoadFails, Rejects
<1>4. ASSUME NEW c \in Calls, TakeIndex(c) PROVE KeyedHaveKid'
  BY <1>4 DEF TakeIndex, Count
<1>5. ASSUME NEW c \in Calls, LimitReached(c) PROVE KeyedHaveKid'
  BY <1>5 DEF LimitReached, Rejects
<1>6. ASSUME NEW c \in Calls, ReserveInMemory(c) PROVE KeyedHaveKid'
  BY <1>6 DEF ReserveInMemory, OpenWindow
<1>7. ASSUME NEW c \in Calls, InMemoryLimit(c) PROVE KeyedHaveKid'
  BY <1>7 DEF InMemoryLimit, Rejects
<1>8. ASSUME NEW c \in Calls, StartReserve(c) PROVE KeyedHaveKid'
  BY <1>8 DEF StartReserve
<1>9. ASSUME NEW c \in Calls, ReadUsage(c) PROVE KeyedHaveKid'
  BY <1>9 DEF ReadUsage, Reservable, ReserveAndConsume, Count
<1>10. ASSUME NEW c \in Calls, ReadUsageFails(c) PROVE KeyedHaveKid'
  BY <1>10 DEF ReadUsageFails, Rejects
<1>11. ASSUME NEW c \in Calls, StartWrite(c) PROVE KeyedHaveKid'
  BY <1>11 DEF StartWrite
<1>12. ASSUME NEW c \in Calls, FinishWrite(c) PROVE KeyedHaveKid'
  BY <1>12 DEF FinishWrite, ReserveAndConsume, Count
<1>13. ASSUME NEW c \in Calls, WriteFails(c) PROVE KeyedHaveKid'
  BY <1>13 DEF WriteFails, ReserveAndConsume, Count
<1>14. CASE KeysCrash
  BY <1>14 DEF KeysCrash, NoReservation
<1>15. CASE Start
  BY <1>15 DEF Start
<1>16. CASE RotateRead
  BY <1>16 DEF RotateRead
<1>17. CASE RotateStartWrite
  BY <1>17 DEF RotateStartWrite
<1>18. CASE RotateCrash
  BY <1>18 DEF RotateCrash
<1>19. ASSUME NEW k \in Kids, RotateFinishWrite(k) PROVE KeyedHaveKid'
  BY <1>19 DEF RotateFinishWrite
<1> QED
  BY <1>1, <1>2, <1>3, <1>4, <1>5, <1>6, <1>7, <1>8, <1>9, <1>10, <1>11, <1>12, <1>13, <1>14, <1>15, <1>16, <1>17, <1>18, <1>19 DEF KeysNext, CallStep, Rotation

\* Only a truncation makes the file unreadable; what fills it again is whole.
LEMMA UnreadableIsTornStep ==
    ASSUME KeysTypeOK, KeyedHaveKid, UnreadableIsTorn, KeysNext
    PROVE  UnreadableIsTorn'
<1> USE KidsAssumption, BudgetAssumption, KeysBounds DEF keyVars, keyProcVars, cliVars, switches, history, bounds, KeysGoto, KeysTypeOK, UnreadableIsTorn, Rewriting, Rotating, Writing
<1>1. ASSUME NEW c \in Calls, Encrypt(c) PROVE UnreadableIsTorn'
  BY <1>1 DEF Encrypt
<1>2. ASSUME NEW c \in Calls, LoadKeys(c) PROVE UnreadableIsTorn'
  BY <1>2 DEF LoadKeys
<1>3. ASSUME NEW c \in Calls, LoadFails(c) PROVE UnreadableIsTorn'
  BY <1>3 DEF LoadFails, Rejects
<1>4. ASSUME NEW c \in Calls, TakeIndex(c) PROVE UnreadableIsTorn'
  BY <1>4 DEF TakeIndex, Count, TakesIndex, NeedsWindow
<1>5. ASSUME NEW c \in Calls, LimitReached(c) PROVE UnreadableIsTorn'
  BY <1>5 DEF LimitReached, Rejects, TakesIndex, NeedsWindow
<1>6. ASSUME NEW c \in Calls, ReserveInMemory(c) PROVE UnreadableIsTorn'
  BY <1>6 DEF ReserveInMemory, OpenWindow
<1>7. ASSUME NEW c \in Calls, InMemoryLimit(c) PROVE UnreadableIsTorn'
  BY <1>7 DEF InMemoryLimit, Rejects
<1>8. ASSUME NEW c \in Calls, StartReserve(c) PROVE UnreadableIsTorn'
  BY <1>8 DEF StartReserve
<1>9. ASSUME NEW c \in Calls, ReadUsage(c) PROVE UnreadableIsTorn'
  BY <1>9 DEF ReadUsage, Reservable, ReserveAndConsume, Count
<1>10. ASSUME NEW c \in Calls, ReadUsageFails(c) PROVE UnreadableIsTorn'
  BY <1>10 DEF ReadUsageFails, Rejects
<1>11. ASSUME NEW c \in Calls, StartWrite(c) PROVE UnreadableIsTorn'
  BY <1>11, TruncateKeeps DEF StartWrite, SameKeys
<1>12. ASSUME NEW c \in Calls, FinishWrite(c) PROVE UnreadableIsTorn'
  BY <1>12, ReservedFills, ReservedTyped DEF FinishWrite, ReserveAndConsume, Count, SameKeys
<1>13. ASSUME NEW c \in Calls, WriteFails(c) PROVE UnreadableIsTorn'
  BY <1>13, CutKeeps DEF WriteFails, ReserveAndConsume, Count, SameKeys
<1>14. CASE KeysCrash
  BY <1>14, CutKeeps DEF KeysCrash, NoReservation, SameKeys
<1>15. CASE Start
  BY <1>15 DEF Start
<1>16. CASE RotateRead
  BY <1>16 DEF RotateRead
<1>17. CASE RotateStartWrite
  BY <1>17, TruncateKeeps DEF RotateStartWrite, SameKeys
<1>18. CASE RotateCrash
  BY <1>18, CutKeeps DEF RotateCrash, SameKeys
<1>19. ASSUME NEW k \in Kids, RotateFinishWrite(k) PROVE UnreadableIsTorn'
  <2>a. rraw \in KeyFiles /\ rraw.text = "whole"
    BY <1>19 DEF RotateFinishWrite
  <2>b. Rotated(k).text = "whole"
    BY <2>a, RotatedTyped
  <2>c. keyFile' = Rotated(k) \/ keyFile'.text = "mixed"
    BY <1>19, RotatedFills
  <2>1. keyFile'.text = "whole" \/ keyFile'.text = "mixed"
    BY <2>b, <2>c
  <2> QED
    BY <1>19, <2>1 DEF RotateFinishWrite
<1> QED
  BY <1>1, <1>2, <1>3, <1>4, <1>5, <1>6, <1>7, <1>8, <1>9, <1>10, <1>11, <1>12, <1>13, <1>14, <1>15, <1>16, <1>17, <1>18, <1>19 DEF KeysNext, CallStep, Rotation

\* Reservations keep the active key, and a rotation puts its own in.
LEMMA ActivePresentStep ==
    ASSUME KeysTypeOK, KeyedHaveKid, ActivePresent, KeysNext
    PROVE  ActivePresent'
<1> USE KidsAssumption, BudgetAssumption, KeysBounds DEF keyVars, keyProcVars, cliVars, switches, history, bounds, KeysGoto, KeysTypeOK, KeyFiles, ActivePresent, Rewriting
<1>1. ASSUME NEW c \in Calls, Encrypt(c) PROVE ActivePresent'
  BY <1>1 DEF Encrypt
<1>2. ASSUME NEW c \in Calls, LoadKeys(c) PROVE ActivePresent'
  BY <1>2 DEF LoadKeys
<1>3. ASSUME NEW c \in Calls, LoadFails(c) PROVE ActivePresent'
  BY <1>3 DEF LoadFails, Rejects
<1>4. ASSUME NEW c \in Calls, TakeIndex(c) PROVE ActivePresent'
  BY <1>4 DEF TakeIndex, Count
<1>5. ASSUME NEW c \in Calls, LimitReached(c) PROVE ActivePresent'
  BY <1>5 DEF LimitReached, Rejects
<1>6. ASSUME NEW c \in Calls, ReserveInMemory(c) PROVE ActivePresent'
  BY <1>6 DEF ReserveInMemory, OpenWindow
<1>7. ASSUME NEW c \in Calls, InMemoryLimit(c) PROVE ActivePresent'
  BY <1>7 DEF InMemoryLimit, Rejects
<1>8. ASSUME NEW c \in Calls, StartReserve(c) PROVE ActivePresent'
  BY <1>8 DEF StartReserve
<1>9. ASSUME NEW c \in Calls, ReadUsage(c) PROVE ActivePresent'
  BY <1>9 DEF ReadUsage, Reservable, ReserveAndConsume, Count
<1>10. ASSUME NEW c \in Calls, ReadUsageFails(c) PROVE ActivePresent'
  BY <1>10 DEF ReadUsageFails, Rejects
<1>11. ASSUME NEW c \in Calls, StartWrite(c) PROVE ActivePresent'
  BY <1>11, TruncateKeeps DEF StartWrite, SameKeys
<1>12. ASSUME NEW c \in Calls, FinishWrite(c) PROVE ActivePresent'
  <2> HIDE DEF KeyFiles
  <2>a. Rewriting(c) /\ raw[c].active \in raw[c].present
    BY <1>12 DEF FinishWrite
  <2>b. Reserved(c).active = raw[c].active /\ Reserved(c).present = raw[c].present
    BY <2>a, ReservedTyped
  <2>c. keyFile' = Reserved(c) \/ SameKeys
    BY <1>12, ReservedFills
  <2>1. keyFile'.active \in keyFile'.present
    BY <2>a, <2>b, <2>c DEF SameKeys
  <2> QED
    BY <1>12, <2>1 DEF FinishWrite, ReserveAndConsume
<1>13. ASSUME NEW c \in Calls, WriteFails(c) PROVE ActivePresent'
  BY <1>13, CutKeeps DEF WriteFails, ReserveAndConsume, Count, SameKeys
<1>14. CASE KeysCrash
  BY <1>14, CutKeeps DEF KeysCrash, NoReservation, SameKeys
<1>15. CASE Start
  BY <1>15 DEF Start
<1>16. CASE RotateRead
  BY <1>16 DEF RotateRead
<1>17. CASE RotateStartWrite
  BY <1>17, TruncateKeeps DEF RotateStartWrite, SameKeys
<1>18. CASE RotateCrash
  BY <1>18, CutKeeps DEF RotateCrash, SameKeys
<1>19. ASSUME NEW k \in Kids, RotateFinishWrite(k) PROVE ActivePresent'
  <2> HIDE DEF KeyFiles
  <2>1. keyFile'.active \in keyFile'.present
    BY <1>19, RotatedFills, RotatedTyped DEF SameKeys
  <2> QED
    BY <1>19, <2>1 DEF RotateFinishWrite
<1> QED
  BY <1>1, <1>2, <1>3, <1>4, <1>5, <1>6, <1>7, <1>8, <1>9, <1>10, <1>11, <1>12, <1>13, <1>14, <1>15, <1>16, <1>17, <1>18, <1>19 DEF KeysNext, CallStep, Rotation

\* No version of the file that may still be written lacks a key in use: without
\* overlap there is one such call, and with the gateway stopped all versions agree.
LEMMA NothingLostStep ==
    ASSUME KeysTypeOK, DownIsEmpty, OneCallUnlessOverlapped, StoppedUnlessLive, KeyedHaveKid,
           ActivePresent, NothingLost, KeysNext
    PROVE  NothingLost'
<1> USE KidsAssumption, BudgetAssumption, KeysBounds DEF keyVars, keyProcVars, cliVars, switches, history, bounds, KeysGoto, KeysTypeOK, DownIsEmpty, OneCallUnlessOverlapped, StoppedUnlessLive, KeyedHaveKid, KeyFiles, NothingLost,
         ActivePresent, VersionsHoldKeys, VersionsOrdered, InUse, Keyed, Rewriting, Rotating
<1>1. ASSUME NEW c \in Calls, Encrypt(c) PROVE NothingLost'
  BY <1>1 DEF Encrypt
<1>2. ASSUME NEW c \in Calls, LoadKeys(c) PROVE NothingLost'
  <2> SUFFICES ASSUME ~overlapped' \/ ~rotatedLive'
               PROVE  VersionsHoldKeys' /\ VersionsOrdered'
    OBVIOUS
  <2>1. VersionsHoldKeys /\ VersionsOrdered /\ (~overlapped \/ ~rotatedLive)
    BY <1>2 DEF LoadKeys
  <2>2. /\ \A d \in Calls : callPc'[d] \in {"write", "fill"} <=> callPc[d] \in {"write", "fill"}
        /\ UNCHANGED <<keyFile, raw, rpc, rraw, encryptions, rotatedLive>>
    BY <1>2 DEF LoadKeys
  <2>3. VersionsOrdered'
    BY <2>1, <2>2
  <2>4. /\ keyFile.active \in keyFile.present
        /\ \A d \in Calls : Rewriting(d) => keyFile.active \in raw[d].present
        /\ Rotating => keyFile.active \in rraw.present
    BY <1>2, <2>1 DEF LoadKeys
  <2>5. \A j \in Kids : InUse(j)' => InUse(j) \/ j = keyFile.active
    BY <1>2 DEF LoadKeys
  <2> QED
    <3> HIDE DEF InUse
    <3> QED  BY <2>1, <2>2, <2>3, <2>4, <2>5
<1>3. ASSUME NEW c \in Calls, LoadFails(c) PROVE NothingLost'
  BY <1>3 DEF LoadFails, Rejects
<1>4. ASSUME NEW c \in Calls, TakeIndex(c) PROVE NothingLost'
  BY <1>4 DEF TakeIndex, Count, TakesIndex, NeedsWindow, WithinLimit
<1>5. ASSUME NEW c \in Calls, LimitReached(c) PROVE NothingLost'
  BY <1>5 DEF LimitReached, Rejects, TakesIndex, NeedsWindow
<1>6. ASSUME NEW c \in Calls, ReserveInMemory(c) PROVE NothingLost'
  BY <1>6 DEF ReserveInMemory, OpenWindow, CountsInMemory, NeedsWindow
<1>7. ASSUME NEW c \in Calls, InMemoryLimit(c) PROVE NothingLost'
  BY <1>7 DEF InMemoryLimit, Rejects
<1>8. ASSUME NEW c \in Calls, StartReserve(c) PROVE NothingLost'
  BY <1>8 DEF StartReserve, CountsInMemory, NeedsWindow
<1>9. ASSUME NEW c \in Calls, ReadUsage(c) PROVE NothingLost'
  <2> SUFFICES ASSUME ~overlapped' \/ ~rotatedLive'
               PROVE  VersionsHoldKeys' /\ VersionsOrdered'
    OBVIOUS
  <2>1. VersionsHoldKeys /\ VersionsOrdered /\ (~overlapped \/ ~rotatedLive)
    BY <1>9 DEF ReadUsage
  <2>2. \A j \in Kids : InUse(j)' => InUse(j)
    BY <1>9 DEF ReadUsage, Reservable, ReserveAndConsume, Count
  <2>3. /\ \A d \in Calls : /\ Rewriting(d)' => Rewriting(d) \/ d = c
                            /\ Rewriting(d)' => raw'[d] = raw[d] \/ raw'[d] = keyFile
        /\ UNCHANGED <<keyFile, rpc, rraw, rotatedLive>>
    BY <1>9 DEF ReadUsage, ReserveAndConsume
  <2>4. \A d \in Calls : Rewriting(d)' /\ raw'[d] # keyFile => Rewriting(d) /\ raw'[d] = raw[d]
    BY <1>9, <2>3 DEF ReadUsage, ReserveAndConsume
  <2>5. VersionsOrdered'
    BY <2>1, <2>3, <2>4
  <2> QED
    <3> HIDE DEF InUse
    <3> QED  BY <2>1, <2>2, <2>3, <2>4, <2>5
<1>10. ASSUME NEW c \in Calls, ReadUsageFails(c) PROVE NothingLost'
  BY <1>10 DEF ReadUsageFails, Rejects
<1>11. ASSUME NEW c \in Calls, StartWrite(c) PROVE NothingLost'
  BY <1>11, TruncateKeeps DEF StartWrite, SameKeys
<1>12. ASSUME NEW c \in Calls, FinishWrite(c) PROVE NothingLost'
  <2> HIDE DEF KeyFiles
  <2>1. keyFile'.present = raw[c].present \/ keyFile'.present = keyFile.present
    BY <1>12, ReservedFills, ReservedTyped DEF SameKeys, FinishWrite
  <2>2. /\ callPc[c] = "fill" /\ callPc' = [callPc EXCEPT ![c] = "idle"]
        /\ UNCHANGED <<cached, kid, raw, rpc, rraw, overlapped, rotatedLive, up>>
    BY <1>12 DEF FinishWrite, ReserveAndConsume
  <2>3. \A j \in Kids : InUse(j)' => InUse(j)
    BY <1>12, <2>2 DEF FinishWrite, ReserveAndConsume, Count
  <2>4. ~overlapped => \A d \in Calls : callPc'[d] = "idle"
    BY <2>2
  <2>5. ASSUME ~overlapped \/ ~rotatedLive PROVE VersionsOrdered'
    <3>1. VersionsOrdered
      BY <2>5
    <3>2. Rotating' => keyFile'.present \subseteq rraw'.present
      BY <2>1, <2>2, <3>1
    <3> QED
      BY <2>1, <2>2, <2>4, <2>5, <3>1, <3>2
  <2> QED
    <3> HIDE DEF InUse
    <3> QED  BY <2>1, <2>2, <2>3, <2>5
<1>13. ASSUME NEW c \in Calls, WriteFails(c) PROVE NothingLost'
  BY <1>13, CutKeeps DEF WriteFails, ReserveAndConsume, Count, SameKeys
<1>14. CASE KeysCrash
  <2> HIDE DEF KeyFiles
  <2>1. keyFile'.present = keyFile.present
    BY <1>14, CutKeeps DEF KeysCrash, SameKeys
  <2>2. \A j \in Kids : InUse(j)' => InUse(j)
    BY <1>14 DEF KeysCrash
  <2> QED
    <3> HIDE DEF InUse
    <3> QED  BY <1>14, <2>1, <2>2 DEF KeysCrash
<1>15. CASE Start
  BY <1>15 DEF Start
<1>16. CASE RotateRead
  BY <1>16 DEF RotateRead
<1>17. CASE RotateStartWrite
  BY <1>17, TruncateKeeps DEF RotateStartWrite, SameKeys
<1>18. CASE RotateCrash
  BY <1>18, CutKeeps DEF RotateCrash, SameKeys
<1>19. ASSUME NEW k \in Kids, RotateFinishWrite(k) PROVE NothingLost'
  <2> HIDE DEF KeyFiles
  <2>1. \/ keyFile'.present = rraw.present \cup {k}
        \/ keyFile'.present = keyFile.present
    BY <1>19, RotatedFills, RotatedTyped DEF SameKeys
  <2>2. /\ rpc = "fill" /\ rpc' = "idle"
        /\ UNCHANGED <<cached, callPc, kid, raw, encryptions, overlapped, rotatedLive, up>>
    BY <1>19 DEF RotateFinishWrite
  <2>3. ~rotatedLive => \A c \in Calls : callPc[c] = "idle"
    BY <2>2
  <2>4. \A j \in Kids : InUse(j)' <=> InUse(j)
    BY <2>2
  <2>5. ~overlapped \/ ~rotatedLive =>
          /\ keyFile.present \subseteq keyFile'.present
          /\ VersionsOrdered'
    BY <2>1, <2>2, <2>3
  <2> QED
    <3> HIDE DEF InUse
    <3> QED  BY <2>2, <2>4, <2>5
<1> QED
  BY <1>1, <1>2, <1>3, <1>4, <1>5, <1>6, <1>7, <1>8, <1>9, <1>10, <1>11, <1>12, <1>13, <1>14, <1>15, <1>16, <1>17, <1>18, <1>19 DEF KeysNext, CallStep, Rotation

\* The switches are only ever set.
LEMMA SequentialBefore ==
    ASSUME SwitchesOK, KeysNext, Sequential'
    PROVE  Sequential
BY DEF SwitchesOK, KeysNext, CallStep, Rotation, Sequential, keyVars, keyProcVars, cliVars, switches, history, bounds,
       Encrypt, LoadKeys, LoadFails, Rejects, TakeIndex, LimitReached, ReserveInMemory, OpenWindow,
       InMemoryLimit, StartReserve, ReadUsage, ReadUsageFails, StartWrite, FinishWrite, WriteFails, KeysCrash,
       Start, RotateRead, RotateStartWrite, RotateCrash, RotateFinishWrite

\* One writer at a time: whoever fills the file truncated it last.
LEMMA NotMixedStep ==
    ASSUME KeysTypeOK, DownIsEmpty, OneCallUnlessOverlapped, StoppedUnlessLive, KeyedHaveKid,
           UnreadableIsTorn, SequentialSound, KeysNext
    PROVE  Sequential' => NotMixed'
<1> SUFFICES ASSUME Sequential' PROVE NotMixed'
  OBVIOUS
<1>s. Sequential
  BY SequentialBefore, TypeOKHalves
<1>n. NotMixed /\ keyFile \in KeyFiles /\ callPc \in [Calls -> {"idle", "load", "consume", "read", "write", "fill", "take"}]
  BY <1>s DEF SequentialSound, KeysTypeOK
<1>a. ASSUME keyFile' = keyFile, Writing' => Writing PROVE NotMixed'
  BY <1>n, <1>a DEF NotMixed
<1> USE DEF KeysGoto, Writing, keyProcVars, cliVars, history, switches, bounds
<1>1. ASSUME NEW c \in Calls,
             \/ Encrypt(c) \/ LoadKeys(c) \/ LoadFails(c) \/ TakeIndex(c) \/ LimitReached(c)
             \/ ReserveInMemory(c) \/ InMemoryLimit(c) \/ StartReserve(c) \/ ReadUsage(c)
             \/ ReadUsageFails(c)
      PROVE  NotMixed'
  BY <1>1, <1>a, <1>n DEF Encrypt, LoadKeys, LoadFails, Rejects, TakeIndex, LimitReached, ReserveInMemory,
         OpenWindow, InMemoryLimit, StartReserve, ReadUsage, ReserveAndConsume, ReadUsageFails
<1>2. CASE Start \/ RotateRead
  BY <1>2, <1>a, <1>n DEF Start, RotateRead
<1>3. ASSUME (\E c \in Calls : StartWrite(c)) \/ RotateStartWrite PROVE NotMixed'
  <2>1. Truncate
    BY <1>3 DEF StartWrite, RotateStartWrite
  <2> QED
    BY <1>n, <2>1, TruncateKeeps DEF NotMixed
<1>4. ASSUME NEW c \in Calls, FinishWrite(c) PROVE NotMixed'
  <2>1. keyFile.text = "none"
    BY <1>n, <1>4 DEF NotMixed, FinishWrite
  <2>2. keyFile' = Reserved(c)
    BY <1>4, <2>1, ReservedFills
  <2>3. keyFile'.text = "whole"
    BY <1>4, <2>2, ReservedTyped DEF FinishWrite, Rewriting, UnreadableIsTorn
  <2>4. \A d \in Calls : d # c => callPc[d] = "idle"
    BY <1>s, <1>4 DEF OneCallUnlessOverlapped, Sequential, FinishWrite
  <2>5. up /\ rpc # "fill"
    BY <1>s, <1>4 DEF StoppedUnlessLive, Sequential, Rotating, FinishWrite, DownIsEmpty
  <2>6. ~Writing'
    BY <1>n, <1>4, <2>4, <2>5 DEF FinishWrite, ReserveAndConsume
  <2> QED
    BY <2>3, <2>6 DEF NotMixed
<1>5. ASSUME NEW k \in Kids, RotateFinishWrite(k) PROVE NotMixed'
  <2>1. keyFile.text = "none"
    BY <1>n, <1>5 DEF NotMixed, RotateFinishWrite
  <2>2. keyFile' = Rotated(k)
    BY <1>5, <2>1, RotatedFills
  <2>3. keyFile'.text = "whole"
    BY <1>5, <2>2, RotatedTyped DEF RotateFinishWrite, Rotating, UnreadableIsTorn, KeysTypeOK
  <2>4. ~up
    BY <1>s, <1>5 DEF StoppedUnlessLive, Sequential, Rotating, RotateFinishWrite
  <2>5. ~Writing'
    BY <1>5, <2>4 DEF RotateFinishWrite, DownIsEmpty
  <2> QED
    BY <2>3, <2>5 DEF NotMixed
<1>6. ASSUME NEW c \in Calls, WriteFails(c) PROVE NotMixed'
  <2>1. CutShort(callPc[c] = "fill") /\ (Writing' => Writing)
    BY <1>n, <1>6 DEF WriteFails, ReserveAndConsume
  <2>2. callPc[c] = "fill" => keyFile.text = "none"
    BY <1>n, <1>6 DEF NotMixed
  <2> QED
    BY <1>n, <1>a, <2>1, <2>2, CutKeeps DEF NotMixed
<1>7. CASE KeysCrash
  <2>1. CutShort(\E c \in Calls : callPc[c] = "fill") /\ (Writing' => Writing)
    BY <1>7 DEF KeysCrash
  <2>2. (\E c \in Calls : callPc[c] = "fill") => keyFile.text = "none"
    BY <1>n DEF NotMixed
  <2> QED
    BY <1>n, <1>a, <2>1, <2>2, CutKeeps DEF NotMixed
<1>8. CASE RotateCrash
  <2>1. CutShort(rpc = "fill") /\ (Writing' => Writing)
    BY <1>8 DEF RotateCrash
  <2>2. rpc = "fill" => keyFile.text = "none"
    BY <1>n DEF NotMixed
  <2> QED
    BY <1>n, <1>a, <2>1, <2>2, CutKeeps DEF NotMixed
<1> QED
  BY <1>1, <1>2, <1>3, <1>4, <1>5, <1>6, <1>7, <1>8 DEF KeysNext, CallStep, Rotation

\* A process whose calls do not overlap loads once and uses one key.
LEMMA OneKeyStep ==
    ASSUME KeysTypeOK, DownIsEmpty, OneCallUnlessOverlapped, StoppedUnlessLive, KeyedHaveKid,
           SequentialSound, KeysNext
    PROVE  Sequential' => OneKey'
<1> USE KidsAssumption, BudgetAssumption, KeysBounds DEF keyVars, keyProcVars, cliVars, switches, history, bounds, KeysGoto, KeysTypeOK, DownIsEmpty, OneCallUnlessOverlapped, StoppedUnlessLive, KeyedHaveKid, KeyFiles, Reservations,
         Sequential, SequentialSound, OneKey, HeldIsCurrent, WindowSound, UsageCovers,
         Keyed, Rewriting, Rotating
<1>1. ASSUME NEW c \in Calls, Encrypt(c) PROVE Sequential' => OneKey'
  BY <1>1 DEF Encrypt
<1>2. ASSUME NEW c \in Calls, LoadKeys(c) PROVE Sequential' => OneKey'
  <2>1. Sequential' => Sequential /\ cached = NoKid /\ reservation.kid = NoKid
    BY <1>2 DEF LoadKeys
  <2>2. Sequential' => \A d \in Calls : d # c => callPc[d] = "idle"
    BY <1>2, <2>1 DEF LoadKeys
  <2>3. UNCHANGED <<reservation, sinceStart>>
    BY <1>2 DEF LoadKeys
  <2>4. Sequential' => \A d \in Calls : Keyed(d)' => d = c /\ kid'[d] = cached'
    BY <1>2, <2>2 DEF LoadKeys
  <2>5. \A d \in Calls : callPc'[d] = "load" => d # c
    BY <1>2 DEF LoadKeys
  <2>6. Sequential' => \A d \in Calls : callPc'[d] # "load"
    BY <1>2, <2>2, <2>5 DEF LoadKeys
  <2> QED
    BY <2>1, <2>3, <2>4, <2>6
<1>3. ASSUME NEW c \in Calls, LoadFails(c) PROVE Sequential' => OneKey'
  BY <1>3 DEF LoadFails, Rejects
<1>4. ASSUME NEW c \in Calls, TakeIndex(c) PROVE Sequential' => OneKey'
  BY <1>4 DEF TakeIndex, Count, TakesIndex, NeedsWindow, WithinLimit
<1>5. ASSUME NEW c \in Calls, LimitReached(c) PROVE Sequential' => OneKey'
  BY <1>5 DEF LimitReached, Rejects, TakesIndex, NeedsWindow
<1>6. ASSUME NEW c \in Calls, ReserveInMemory(c) PROVE Sequential' => OneKey'
  BY <1>6 DEF ReserveInMemory, OpenWindow, CountsInMemory, NeedsWindow
<1>7. ASSUME NEW c \in Calls, InMemoryLimit(c) PROVE Sequential' => OneKey'
  BY <1>7 DEF InMemoryLimit, Rejects
<1>8. ASSUME NEW c \in Calls, StartReserve(c) PROVE Sequential' => OneKey'
  BY <1>8 DEF StartReserve, CountsInMemory, NeedsWindow
<1>9. ASSUME NEW c \in Calls, ReadUsage(c) PROVE Sequential' => OneKey'
  BY <1>9 DEF ReadUsage, Reservable, ReserveAndConsume, Count
<1>10. ASSUME NEW c \in Calls, ReadUsageFails(c) PROVE Sequential' => OneKey'
  BY <1>10 DEF ReadUsageFails, Rejects
<1>11. ASSUME NEW c \in Calls, StartWrite(c) PROVE Sequential' => OneKey'
  BY <1>11 DEF StartWrite
<1>12. ASSUME NEW c \in Calls, FinishWrite(c) PROVE Sequential' => OneKey'
  BY <1>12 DEF FinishWrite, ReserveAndConsume, Count
<1>13. ASSUME NEW c \in Calls, WriteFails(c) PROVE Sequential' => OneKey'
  BY <1>13 DEF WriteFails, ReserveAndConsume, Count
<1>14. CASE KeysCrash
  BY <1>14 DEF KeysCrash, NoReservation
<1>15. CASE Start
  BY <1>15 DEF Start
<1>16. CASE RotateRead
  BY <1>16 DEF RotateRead
<1>17. CASE RotateStartWrite
  BY <1>17 DEF RotateStartWrite
<1>18. CASE RotateCrash
  BY <1>18 DEF RotateCrash
<1>19. ASSUME NEW k \in Kids, RotateFinishWrite(k) PROVE Sequential' => OneKey'
  BY <1>19 DEF RotateFinishWrite
<1> QED
  BY <1>1, <1>2, <1>3, <1>4, <1>5, <1>6, <1>7, <1>8, <1>9, <1>10, <1>11, <1>12, <1>13, <1>14, <1>15, <1>16, <1>17, <1>18, <1>19 DEF KeysNext, CallStep, Rotation

\* What a call or the CLI read is still in the file when it writes.
LEMMA HeldIsCurrentStep ==
    ASSUME KeysTypeOK, DownIsEmpty, OneCallUnlessOverlapped, StoppedUnlessLive, KeyedHaveKid,
           SequentialSound, KeysNext
    PROVE  Sequential' => HeldIsCurrent'
<1> USE KidsAssumption, BudgetAssumption, KeysBounds DEF keyVars, keyProcVars, cliVars, switches, history, bounds, KeysGoto, KeysTypeOK, DownIsEmpty, OneCallUnlessOverlapped, StoppedUnlessLive, KeyedHaveKid, KeyFiles, Reservations,
         Sequential, SequentialSound, OneKey, HeldIsCurrent, WindowSound, UsageCovers,
         Keyed, Rewriting, Rotating
<1>1. ASSUME NEW c \in Calls, Encrypt(c) PROVE Sequential' => HeldIsCurrent'
  BY <1>1 DEF Encrypt
<1>2. ASSUME NEW c \in Calls, LoadKeys(c) PROVE Sequential' => HeldIsCurrent'
  BY <1>2 DEF LoadKeys
<1>3. ASSUME NEW c \in Calls, LoadFails(c) PROVE Sequential' => HeldIsCurrent'
  BY <1>3 DEF LoadFails, Rejects
<1>4. ASSUME NEW c \in Calls, TakeIndex(c) PROVE Sequential' => HeldIsCurrent'
  BY <1>4 DEF TakeIndex, Count, TakesIndex, NeedsWindow, WithinLimit
<1>5. ASSUME NEW c \in Calls, LimitReached(c) PROVE Sequential' => HeldIsCurrent'
  BY <1>5 DEF LimitReached, Rejects, TakesIndex, NeedsWindow
<1>6. ASSUME NEW c \in Calls, ReserveInMemory(c) PROVE Sequential' => HeldIsCurrent'
  BY <1>6 DEF ReserveInMemory, OpenWindow, CountsInMemory, NeedsWindow
<1>7. ASSUME NEW c \in Calls, InMemoryLimit(c) PROVE Sequential' => HeldIsCurrent'
  BY <1>7 DEF InMemoryLimit, Rejects
<1>8. ASSUME NEW c \in Calls, StartReserve(c) PROVE Sequential' => HeldIsCurrent'
  BY <1>8 DEF StartReserve, CountsInMemory, NeedsWindow
<1>9. ASSUME NEW c \in Calls, ReadUsage(c) PROVE Sequential' => HeldIsCurrent'
  BY <1>9 DEF ReadUsage, Reservable, ReserveAndConsume, Count
<1>10. ASSUME NEW c \in Calls, ReadUsageFails(c) PROVE Sequential' => HeldIsCurrent'
  BY <1>10 DEF ReadUsageFails, Rejects
<1>11. ASSUME NEW c \in Calls, StartWrite(c) PROVE Sequential' => HeldIsCurrent'
  BY <1>11, TruncateKeeps DEF StartWrite, SameKeys
<1>12. ASSUME NEW c \in Calls, FinishWrite(c) PROVE Sequential' => HeldIsCurrent'
  BY <1>12, ReservedFills, ReservedTyped DEF FinishWrite, ReserveAndConsume, Count, SameKeys
<1>13. ASSUME NEW c \in Calls, WriteFails(c) PROVE Sequential' => HeldIsCurrent'
  BY <1>13, CutKeeps DEF WriteFails, ReserveAndConsume, Count, SameKeys
<1>14. CASE KeysCrash
  BY <1>14, CutKeeps DEF KeysCrash, NoReservation, SameKeys
<1>15. CASE Start
  BY <1>15 DEF Start
<1>16. CASE RotateRead
  BY <1>16 DEF RotateRead
<1>17. CASE RotateStartWrite
  BY <1>17, TruncateKeeps DEF RotateStartWrite, SameKeys
<1>18. CASE RotateCrash
  BY <1>18, CutKeeps DEF RotateCrash, SameKeys
<1>19. ASSUME NEW k \in Kids, RotateFinishWrite(k) PROVE Sequential' => HeldIsCurrent'
  BY <1>19, RotatedFills, RotatedTyped DEF RotateFinishWrite, SameKeys
<1> QED
  BY <1>1, <1>2, <1>3, <1>4, <1>5, <1>6, <1>7, <1>8, <1>9, <1>10, <1>11, <1>12, <1>13, <1>14, <1>15, <1>16, <1>17, <1>18, <1>19 DEF KeysNext, CallStep, Rotation

\* A new window starts at or after the end of the last one of the process.
LEMMA WindowSoundStep ==
    ASSUME KeysTypeOK, DownIsEmpty, OneCallUnlessOverlapped, StoppedUnlessLive, KeyedHaveKid,
           SequentialSound, KeysNext
    PROVE  Sequential' => WindowSound'
<1> USE KidsAssumption, BudgetAssumption, KeysBounds DEF keyVars, keyProcVars, cliVars, switches, history, bounds, KeysGoto, KeysTypeOK, DownIsEmpty, OneCallUnlessOverlapped, StoppedUnlessLive, KeyedHaveKid, KeyFiles, Reservations,
         Sequential, SequentialSound, OneKey, HeldIsCurrent, WindowSound, UsageCovers,
         Keyed, Rewriting, Rotating
<1>1. ASSUME NEW c \in Calls, Encrypt(c) PROVE Sequential' => WindowSound'
  BY <1>1 DEF Encrypt
<1>2. ASSUME NEW c \in Calls, LoadKeys(c) PROVE Sequential' => WindowSound'
  BY <1>2 DEF LoadKeys
<1>3. ASSUME NEW c \in Calls, LoadFails(c) PROVE Sequential' => WindowSound'
  BY <1>3 DEF LoadFails, Rejects
<1>4. ASSUME NEW c \in Calls, TakeIndex(c) PROVE Sequential' => WindowSound'
  <2> SUFFICES ASSUME Sequential' PROVE WindowSound'
    OBVIOUS
  <2>1. /\ Sequential
        /\ kid[c] \in Kids /\ kid[c] = cached /\ reservation.kid = kid[c]
        /\ UNCHANGED <<keyFile, cached, persistDisabled>>
        /\ reservation.used < reservation.granted
    BY <1>4 DEF TakeIndex, TakesIndex, NeedsWindow
  <2>2. \A d \in Calls : callPc'[d] = "idle"
    BY <1>4, <2>1 DEF TakeIndex, TakesIndex
  <2>3. /\ reservation' = [reservation EXCEPT !.used = @ + 1]
        /\ sinceStart'[kid[c]] = sinceStart[kid[c]] + 1
    BY <1>4, <2>1 DEF TakeIndex, Count
  <2>4. /\ reservation'.used = reservation.used + 1 /\ reservation'.kid = reservation.kid
        /\ reservation'.base = reservation.base /\ reservation'.granted = reservation.granted
    BY <2>3
  <2> QED
    BY <2>1, <2>2, <2>3, <2>4
<1>5. ASSUME NEW c \in Calls, LimitReached(c) PROVE Sequential' => WindowSound'
  BY <1>5 DEF LimitReached, Rejects, TakesIndex, NeedsWindow
<1>6. ASSUME NEW c \in Calls, ReserveInMemory(c) PROVE Sequential' => WindowSound'
  <2> SUFFICES ASSUME Sequential' PROVE WindowSound'
    OBVIOUS
  <2> DEFINE current == reservation.base + reservation.granted
  <2>1. /\ Sequential
        /\ kid[c] \in Kids /\ kid[c] = cached /\ reservation.kid = kid[c]
        /\ persistDisabled /\ UNCHANGED <<cached, persistDisabled, sinceStart>>
    BY <1>6 DEF ReserveInMemory, CountsInMemory, OpenWindow
  <2>2. /\ \A d \in Calls : d # c => callPc[d] = "idle"
        /\ \A d \in Calls : d # c => callPc'[d] = "idle"
    BY <1>6, <2>1 DEF ReserveInMemory, OpenWindow
  <2>3. current \in Nat /\ current < MaxEncryptions
    BY <1>6 DEF ReserveInMemory
  <2>4. /\ Granted(current) \in Nat /\ 1 <= Granted(current)
        /\ current + Granted(current) <= MaxEncryptions
    BY <2>3, GrantedTyped
  <2>5. sinceStart[kid[c]] <= current
    BY <2>1
  <2>6. /\ reservation' = [kid |-> kid[c], base |-> current, granted |-> Granted(current), used |-> 0]
        /\ callPc'[c] = "take"
    BY <1>6 DEF ReserveInMemory, OpenWindow
  <2> HIDE DEF current
  <2> QED
    BY <2>1, <2>2, <2>3, <2>4, <2>5, <2>6
<1>7. ASSUME NEW c \in Calls, InMemoryLimit(c) PROVE Sequential' => WindowSound'
  BY <1>7 DEF InMemoryLimit, Rejects
<1>8. ASSUME NEW c \in Calls, StartReserve(c) PROVE Sequential' => WindowSound'
  BY <1>8 DEF StartReserve, CountsInMemory, NeedsWindow
<1>9. ASSUME NEW c \in Calls, ReadUsage(c) PROVE Sequential' => WindowSound'
  <2> SUFFICES ASSUME Sequential' PROVE WindowSound'
    OBVIOUS
  <2> DEFINE current == keyFile.usage[kid[c]]
  <2>1. /\ Sequential
        /\ kid[c] \in Kids /\ kid[c] = cached /\ cached' = cached
        /\ ~persistDisabled
    BY <1>9 DEF ReadUsage
  <2>2. \A d \in Calls : d # c => callPc[d] = "idle"
    BY <1>9, <2>1 DEF ReadUsage
  <2>3. current \in Nat /\ current < MaxEncryptions /\ current = keyFile.usage[kid[c]]
    BY <1>9, <2>1 DEF ReadUsage, Reservable
  <2>4. /\ Granted(current) \in Nat /\ 1 <= Granted(current)
        /\ current + Granted(current) <= MaxEncryptions
    BY <2>3, GrantedTyped
  <2>5. /\ UNCHANGED <<reservation, sinceStart, keyFile, persistDisabled>>
        /\ \A d \in Calls : callPc'[d] \in {"idle", "write"}
    BY <1>9, <2>1, <2>2 DEF ReadUsage
  <2> QED
    BY <2>1, <2>5
<1>10. ASSUME NEW c \in Calls, ReadUsageFails(c) PROVE Sequential' => WindowSound'
  BY <1>10 DEF ReadUsageFails, Rejects
<1>11. ASSUME NEW c \in Calls, StartWrite(c) PROVE Sequential' => WindowSound'
  BY <1>11, TruncateKeeps DEF StartWrite, SameKeys
<1>12. ASSUME NEW c \in Calls, FinishWrite(c) PROVE Sequential' => WindowSound'
  <2> SUFFICES ASSUME Sequential' PROVE WindowSound'
    OBVIOUS
  <2> DEFINE current == raw[c].usage[kid[c]]
  <2>1. /\ Sequential
        /\ kid[c] \in Kids /\ kid[c] = cached /\ cached' = cached
        /\ ~persistDisabled
    BY <1>12 DEF FinishWrite
  <2>2. \A d \in Calls : d # c => callPc[d] = "idle"
    BY <1>12, <2>1 DEF FinishWrite
  <2>3. current \in Nat /\ current < MaxEncryptions /\ current = keyFile.usage[kid[c]]
    BY <1>12, <2>1 DEF FinishWrite, Reservable
  <2>4. /\ Granted(current) \in Nat /\ 1 <= Granted(current)
        /\ current + Granted(current) <= MaxEncryptions
    BY <2>3, GrantedTyped
  <2>5. sinceStart[kid[c]] <= current
    <3>1. CASE reservation.kid = kid[c]
      BY <2>1, <2>3, <3>1
    <3>2. CASE reservation.kid # kid[c]
      BY <2>1, <2>3, <3>2
    <3> QED
      BY <3>1, <3>2
  <2>w. keyFile' = Reserved(c)
    BY <1>12, <2>1, ReservedFills DEF FinishWrite, NotMixed, Writing
  <2>6. ReserveAndConsume(c, current) /\ ~persistDisabled'
        /\ keyFile'.usage[kid[c]] = current + Granted(current)
    BY <1>12, <2>1, <2>w, ReservedTyped DEF FinishWrite
  <2>7. ReserveAndConsume(c, current) =>
          /\ reservation' = [kid |-> kid[c], base |-> current, granted |-> Granted(current), used |-> 1]
          /\ sinceStart'[kid[c]] = sinceStart[kid[c]] + 1
          /\ \A d \in Calls : callPc'[d] = "idle"
    BY <2>1, <2>2 DEF ReserveAndConsume, Count
  <2> HIDE DEF current
  <2> QED
    BY <1>12, <2>1, <2>2, <2>3, <2>4, <2>5, <2>6, <2>7 DEF FinishWrite
<1>13. ASSUME NEW c \in Calls, WriteFails(c) PROVE Sequential' => WindowSound'
  <2> SUFFICES ASSUME Sequential' PROVE WindowSound'
    OBVIOUS
  <2> DEFINE current == raw[c].usage[kid[c]]
  <2>1. /\ Sequential
        /\ kid[c] \in Kids /\ kid[c] = cached /\ cached' = cached
        /\ ~persistDisabled
    BY <1>13 DEF WriteFails
  <2>2. \A d \in Calls : d # c => callPc[d] = "idle"
    BY <1>13, <2>1 DEF WriteFails
  <2>3. current \in Nat /\ current < MaxEncryptions /\ current = keyFile.usage[kid[c]]
    BY <1>13, <2>1 DEF WriteFails, Reservable
  <2>4. /\ Granted(current) \in Nat /\ 1 <= Granted(current)
        /\ current + Granted(current) <= MaxEncryptions
    BY <2>3, GrantedTyped
  <2>5. sinceStart[kid[c]] <= current
    <3>1. CASE reservation.kid = kid[c]
      BY <2>1, <2>3, <3>1
    <3>2. CASE reservation.kid # kid[c]
      BY <2>1, <2>3, <3>2
    <3> QED
      BY <3>1, <3>2
  <2>6. ReserveAndConsume(c, current) /\ persistDisabled'
    BY <1>13, <2>1 DEF WriteFails
  <2>7. ReserveAndConsume(c, current) =>
          /\ reservation' = [kid |-> kid[c], base |-> current, granted |-> Granted(current), used |-> 1]
          /\ sinceStart'[kid[c]] = sinceStart[kid[c]] + 1
          /\ \A d \in Calls : callPc'[d] = "idle"
    BY <2>1, <2>2 DEF ReserveAndConsume, Count
  <2> HIDE DEF current
  <2> QED
    BY <1>13, <2>1, <2>2, <2>3, <2>4, <2>5, <2>6, <2>7 DEF WriteFails
<1>14. CASE KeysCrash
  BY <1>14, CutKeeps DEF KeysCrash, NoReservation, SameKeys
<1>15. CASE Start
  BY <1>15 DEF Start
<1>16. CASE RotateRead
  BY <1>16 DEF RotateRead
<1>17. CASE RotateStartWrite
  BY <1>17, TruncateKeeps DEF RotateStartWrite, SameKeys
<1>18. CASE RotateCrash
  BY <1>18, CutKeeps DEF RotateCrash, SameKeys
<1>19. ASSUME NEW k \in Kids, RotateFinishWrite(k) PROVE Sequential' => WindowSound'
  <2> SUFFICES ASSUME Sequential' PROVE WindowSound'
    OBVIOUS
  <2>1. Sequential /\ keyFile.text = "none" /\ rraw.usage = keyFile.usage
    BY <1>19 DEF RotateFinishWrite, NotMixed, Writing
  <2>2. keyFile'.usage = keyFile.usage
    BY <1>19, <2>1, RotatedFills, RotatedTyped DEF SameKeys
  <2> HIDE DEF KeyFiles
  <2> QED
    BY <1>19, <2>1, <2>2 DEF RotateFinishWrite
<1> QED
  BY <1>1, <1>2, <1>3, <1>4, <1>5, <1>6, <1>7, <1>8, <1>9, <1>10, <1>11, <1>12, <1>13, <1>14, <1>15, <1>16, <1>17, <1>18, <1>19 DEF KeysNext, CallStep, Rotation

\* The window is in the file before its first index is taken.
LEMMA UsageCoversStep ==
    ASSUME KeysTypeOK, DownIsEmpty, OneCallUnlessOverlapped, StoppedUnlessLive, KeyedHaveKid,
           SequentialSound, KeysNext
    PROVE  Sequential' => UsageCovers'
<1> USE KidsAssumption, BudgetAssumption, KeysBounds DEF keyVars, keyProcVars, cliVars, switches, history, bounds, KeysGoto, KeysTypeOK, DownIsEmpty, OneCallUnlessOverlapped, StoppedUnlessLive, KeyedHaveKid, KeyFiles, Reservations,
         Sequential, SequentialSound, OneKey, HeldIsCurrent, WindowSound, UsageCovers,
         Keyed, Rewriting, Rotating
<1>1. ASSUME NEW c \in Calls, Encrypt(c) PROVE Sequential' => UsageCovers'
  BY <1>1 DEF Encrypt
<1>2. ASSUME NEW c \in Calls, LoadKeys(c) PROVE Sequential' => UsageCovers'
  BY <1>2 DEF LoadKeys
<1>3. ASSUME NEW c \in Calls, LoadFails(c) PROVE Sequential' => UsageCovers'
  BY <1>3 DEF LoadFails, Rejects
<1>4. ASSUME NEW c \in Calls, TakeIndex(c) PROVE Sequential' => UsageCovers'
  BY <1>4 DEF TakeIndex, Count, TakesIndex, NeedsWindow, WithinLimit
<1>5. ASSUME NEW c \in Calls, LimitReached(c) PROVE Sequential' => UsageCovers'
  BY <1>5 DEF LimitReached, Rejects, TakesIndex, NeedsWindow
<1>6. ASSUME NEW c \in Calls, ReserveInMemory(c) PROVE Sequential' => UsageCovers'
  BY <1>6 DEF ReserveInMemory, OpenWindow, CountsInMemory, NeedsWindow
<1>7. ASSUME NEW c \in Calls, InMemoryLimit(c) PROVE Sequential' => UsageCovers'
  BY <1>7 DEF InMemoryLimit, Rejects
<1>8. ASSUME NEW c \in Calls, StartReserve(c) PROVE Sequential' => UsageCovers'
  BY <1>8 DEF StartReserve, CountsInMemory, NeedsWindow
<1>9. ASSUME NEW c \in Calls, ReadUsage(c) PROVE Sequential' => UsageCovers'
  BY <1>9 DEF ReadUsage, Reservable, ReserveAndConsume, Count
<1>10. ASSUME NEW c \in Calls, ReadUsageFails(c) PROVE Sequential' => UsageCovers'
  BY <1>10 DEF ReadUsageFails, Rejects
<1>11. ASSUME NEW c \in Calls, StartWrite(c) PROVE Sequential' => UsageCovers'
  BY <1>11, TruncateKeeps DEF StartWrite, SameKeys
<1>12. ASSUME NEW c \in Calls, FinishWrite(c) PROVE Sequential' => UsageCovers'
  <2> SUFFICES ASSUME Sequential' PROVE UsageCovers'
    OBVIOUS
  <2> DEFINE current == raw[c].usage[kid[c]]
  <2>1. /\ Sequential
        /\ kid[c] \in Kids /\ kid[c] = cached /\ cached' = cached
        /\ ~persistDisabled
    BY <1>12 DEF FinishWrite
  <2>2. \A d \in Calls : d # c => callPc[d] = "idle"
    BY <1>12, <2>1 DEF FinishWrite
  <2>3. current \in Nat /\ current < MaxEncryptions /\ current = keyFile.usage[kid[c]]
    BY <1>12, <2>1 DEF FinishWrite, Reservable
  <2>4. /\ Granted(current) \in Nat /\ 1 <= Granted(current)
        /\ current + Granted(current) <= MaxEncryptions
    BY <2>3, GrantedTyped
  <2>5. /\ reservation' = [kid |-> kid[c], base |-> current, granted |-> Granted(current), used |-> 1]
        /\ encryptions' = [encryptions EXCEPT ![kid[c]] = @ + 1]
        /\ UNCHANGED <<unpersisted, persistDisabled>>
    BY <1>12 DEF FinishWrite, ReserveAndConsume, Count
  <2>w. keyFile' = Reserved(c)
    BY <1>12, <2>1, ReservedFills DEF FinishWrite, NotMixed, Writing
  <2>6. keyFile'.usage = [raw[c].usage EXCEPT ![kid[c]] = current + Granted(current)]
    BY <1>12, <2>w, ReservedTyped DEF FinishWrite
  <2>7. \A j \in Kids : j # kid[c] => /\ keyFile'.usage[j] = keyFile.usage[j]
                                       /\ encryptions'[j] = encryptions[j]
    BY <1>12, <2>1, <2>5, <2>6 DEF FinishWrite
  <2>8. /\ keyFile'.usage[kid[c]] = current + Granted(current)
        /\ encryptions'[kid[c]] = encryptions[kid[c]] + 1
    BY <2>1, <2>5, <2>6
  <2> HIDE DEF current
  <2> QED
    BY <2>1, <2>3, <2>4, <2>5, <2>7, <2>8
<1>13. ASSUME NEW c \in Calls, WriteFails(c) PROVE Sequential' => UsageCovers'
  BY <1>13, CutKeeps DEF WriteFails, ReserveAndConsume, Count, SameKeys
<1>14. CASE KeysCrash
  BY <1>14, CutKeeps DEF KeysCrash, NoReservation, SameKeys
<1>15. CASE Start
  BY <1>15 DEF Start
<1>16. CASE RotateRead
  BY <1>16 DEF RotateRead
<1>17. CASE RotateStartWrite
  BY <1>17, TruncateKeeps DEF RotateStartWrite, SameKeys
<1>18. CASE RotateCrash
  BY <1>18, CutKeeps DEF RotateCrash, SameKeys
<1>19. ASSUME NEW k \in Kids, RotateFinishWrite(k) PROVE Sequential' => UsageCovers'
  <2> SUFFICES ASSUME Sequential' PROVE UsageCovers'
    OBVIOUS
  <2>1. Sequential /\ keyFile.text = "none" /\ rraw.usage = keyFile.usage
    BY <1>19 DEF RotateFinishWrite, NotMixed, Writing
  <2>2. keyFile'.usage = keyFile.usage
    BY <1>19, <2>1, RotatedFills, RotatedTyped DEF SameKeys
  <2> HIDE DEF KeyFiles
  <2> QED
    BY <1>19, <2>1, <2>2 DEF RotateFinishWrite
<1> QED
  BY <1>1, <1>2, <1>3, <1>4, <1>5, <1>6, <1>7, <1>8, <1>9, <1>10, <1>11, <1>12, <1>13, <1>14, <1>15, <1>16, <1>17, <1>18, <1>19 DEF KeysNext, CallStep, Rotation

-----------------------------------------------------------------------------
(* The invariant, and what follows from it. *)

\* It holds of the first key file and the first process.
LEMMA InitIInv == KeysInit => IInv
<1> SUFFICES ASSUME KeysInit PROVE IInv
  OBVIOUS
<1> USE KidsAssumption, BudgetAssumption DEF KeysInit, FirstFile, NoReservation
<1>1. KeysTypeOK
  BY DEF KeysTypeOK, KeyFiles, Reservations
<1>2. DownIsEmpty /\ OneCallUnlessOverlapped /\ StoppedUnlessLive /\ KeyedHaveKid
  BY DEF DownIsEmpty, OneCallUnlessOverlapped, StoppedUnlessLive, KeyedHaveKid, Keyed, Rewriting,
         Rotating
<1>3. UnreadableIsTorn /\ ActivePresent
  BY DEF UnreadableIsTorn, ActivePresent, Rewriting, Rotating, Writing
<1>4. NothingLost
  BY DEF NothingLost, VersionsHoldKeys, VersionsOrdered, InUse, Keyed, Rewriting, Rotating
<1>5. SequentialSound
  BY DEF SequentialSound, NotMixed, OneKey, HeldIsCurrent, WindowSound, UsageCovers, Keyed,
         Rewriting, Rotating, Writing
<1> QED
  BY <1>1, <1>2, <1>3, <1>4, <1>5 DEF IInv

\* Every step keeps it.
LEMMA IInvStep == IInv /\ [KeysNext]_keyVars => IInv'
<1> SUFFICES ASSUME IInv, [KeysNext]_keyVars PROVE IInv'
  OBVIOUS
<1> USE DEF IInv
<1>1. CASE KeysNext
  <2> USE <1>1
  <2>1. KeysTypeOK'
    <3>1. SwitchesOK'
      BY SwitchesOKStep, TypeOKHalves
    <3>2. DataOK'
      BY DataOKStep
    <3> QED
      BY <3>1, <3>2 DEF KeysTypeOK, SwitchesOK, DataOK
  <2>2. DownIsEmpty' /\ OneCallUnlessOverlapped' /\ StoppedUnlessLive' /\ KeyedHaveKid'
    BY DownIsEmptyStep, OneCallUnlessOverlappedStep, StoppedUnlessLiveStep, KeyedHaveKidStep
  <2>3. UnreadableIsTorn' /\ ActivePresent' /\ NothingLost'
    BY UnreadableIsTornStep, ActivePresentStep, NothingLostStep
  <2>4. SequentialSound'
    BY NotMixedStep, OneKeyStep, HeldIsCurrentStep, WindowSoundStep, UsageCoversStep DEF SequentialSound
  <2> QED
    BY <2>1, <2>2, <2>3, <2>4
<1>2. CASE UNCHANGED keyVars
  <2> USE <1>2 DEF keyVars, keyProcVars, cliVars, switches, history, bounds
  <2>1. KeysTypeOK'
    BY DEF KeysTypeOK
  <2>2. DownIsEmpty' /\ OneCallUnlessOverlapped' /\ StoppedUnlessLive' /\ KeyedHaveKid'
    BY DEF DownIsEmpty, OneCallUnlessOverlapped, StoppedUnlessLive, KeyedHaveKid, Keyed, Rewriting,
           Rotating
  <2>3. UnreadableIsTorn' /\ ActivePresent'
    BY DEF UnreadableIsTorn, ActivePresent, Rewriting, Rotating, Writing
  <2>4. NothingLost'
    BY DEF NothingLost, VersionsHoldKeys, VersionsOrdered, InUse, Keyed, Rewriting, Rotating
  <2>5. SequentialSound'
    BY DEF SequentialSound, Sequential, NotMixed, OneKey, HeldIsCurrent, WindowSound, UsageCovers,
           Keyed, Rewriting, Rotating, Writing
  <2> QED
    BY <2>1, <2>2, <2>3, <2>4, <2>5
<1> QED
  BY <1>1, <1>2

\* It holds throughout.
LEMMA Invariant == KeysSpec => []IInv
BY InitIInv, IInvStep, PTL DEF KeysSpec

\* The key file, the reservation and every call have the shape the code gives
\* them, however the provider and the CLI interleave.
THEOREM TypesHold == KeysSpec => []KeysTypeOK
<1>1. IInv => KeysTypeOK
  BY DEF IInv
<1> QED
  BY <1>1, Invariant, PTL

\* The usage in the key file covers every IV drawn by calls that do not overlap,
\* whatever crashes, is torn or is rotated in between (reserveNonceWindow).
THEOREM FileCoversUse == KeysSpec => []CoversSequentialUse
<1>1. IInv => CoversSequentialUse
  BY DEF IInv, SequentialSound, UsageCovers, CoversSequentialUse, NeverUnderEstimates
<1> QED
  BY <1>1, Invariant, PTL

\* A process whose calls do not overlap draws no more IVs under a key than
\* MAX_ENCRYPTIONS_PER_KEY, whether or not it can write the key file.
THEOREM LimitHolds == KeysSpec => []PerProcessLimit
<1>1. IInv => PerProcessLimit
  <2> SUFFICES ASSUME IInv, Sequential, NEW k \in Kids
               PROVE  sinceStart[k] <= MaxEncryptions
    BY DEF PerProcessLimit
  <2>1. WindowSound /\ OneKey /\ KeysTypeOK
    BY DEF IInv, SequentialSound
  <2>2. CASE reservation.kid = k
    BY <2>1, <2>2, BudgetAssumption DEF WindowSound, KeysTypeOK, Reservations
  <2>3. CASE reservation.kid # k
    BY <2>1, <2>3, BudgetAssumption DEF OneKey, KeysTypeOK
  <2> QED
    BY <2>2, <2>3
<1> QED
  BY <1>1, Invariant, PTL

\* No rotation and no reservation drops a key that encrypted, unless calls
\* overlapped in a gateway that was running through a rotation, a write was cut
\* short, or two writers were inside writeFile together and mixed their texts
\* (initLocalKeyFile against reserveNonceWindow).
THEOREM EnvelopesKeepTheirKeys == KeysSpec => []NoOrphanedEnvelopes
<1>1. IInv => NoOrphanedEnvelopes
  <2> SUFFICES ASSUME IInv, ~overlapped \/ ~rotatedLive, NEW k \in Kids, encryptions[k] > 0,
                      ~torn, ~Writing, keyFile.text # "mixed" \/ Sequential
               PROVE  keyFile.text = "whole" /\ k \in keyFile.present
    BY DEF NoOrphanedEnvelopes
  <2>1. keyFile.text = "whole"
    BY DEF IInv, UnreadableIsTorn, SequentialSound, NotMixed
  <2>2. k \in keyFile.present
    BY DEF IInv, NothingLost, VersionsHoldKeys, InUse
  <2> QED
    BY <2>1, <2>2
<1> QED
  BY <1>1, Invariant, PTL
=============================================================================
