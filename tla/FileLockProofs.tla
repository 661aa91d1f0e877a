--------------------------- MODULE FileLockProofs ---------------------------
(***************************************************************************)
(* The lock file for any number of processes: exclusion holds until the    *)
(* stale-lock path has unlinked a file it should not have.                 *)
(***************************************************************************)
EXTENDS FileLock, TLAPS

USE HoldersMayStallAssumption, NoFileAssumption

\* Whoever is inside created the file that is at the path.
HoldersOwnFile ==
    breaks <= SafeBreaks =>
        \A p \in Procs : lpc[p] = "in" => lockFile # NoFile /\ lockFile.by = p

\* While no holder has stalled, a stale file was left behind.
StaleIsOrphan ==
    ~stalled /\ breaks <= SafeBreaks =>
        (lockFile # NoFile /\ lockFile.stale => lpc[lockFile.by] # "in")

\* Before the first break, a process about to unlink still faces the stale
\* file it saw: nobody else can have removed it.
FirstBreakIsDue ==
    ~stalled /\ breaks = 0 =>
        \A p \in Procs : lpc[p] = "unlink" => lockFile # NoFile /\ lockFile.stale

LockInv == LockTypeOK /\ HoldersOwnFile /\ StaleIsOrphan /\ FirstBreakIsDue

LEMMA LockInitInv == LockInit => LockInv
<1> SUFFICES ASSUME LockInit PROVE LockInv
  OBVIOUS
<1>1. stalled \in BOOLEAN
  BY DEF LockInit
<1>2. LockTypeOK
  BY <1>1 DEF LockInit, LockTypeOK, LockStates, MaxBreaks
<1> QED
  BY <1>2 DEF LockInit, LockInv, HoldersOwnFile, StaleIsOrphan, FirstBreakIsDue

LEMMA LockNextInv == LockInv /\ [LockNext]_lockVars => LockInv'
<1> SUFFICES ASSUME LockInv, [LockNext]_lockVars PROVE LockInv'
  OBVIOUS
<1> USE DEF LockInv, LockTypeOK, LockStates, LockFiles, MaxBreaks, SafeBreaks, LockGoto,
            HoldersOwnFile, StaleIsOrphan, FirstBreakIsDue
<1>0. CASE UNCHANGED lockVars
  BY <1>0 DEF lockVars
<1>1. ASSUME NEW p \in Procs, Request(p) PROVE LockInv'
  BY <1>1 DEF Request
<1>2. ASSUME NEW p \in Procs, Enter(p) PROVE LockInv'
  <2> DEFINE new == [by |-> p, stale |-> FALSE]
  <2>a. new \in LockFiles
    BY DEF LockFiles
  <2>b. new # NoFile
    BY <2>a
  <2>c. new.by = p
    OBVIOUS
  <2>d. ~new.stale
    OBVIOUS
  <2>1. new \in LockFiles /\ new # NoFile /\ new.by = p /\ ~new.stale
    BY <2>a, <2>b, <2>c, <2>d
  <2>2. lockFile' = new /\ lockFile = NoFile
    BY <1>2 DEF Enter
  <2> HIDE DEF new
  <2>3. LockTypeOK'
    BY <1>2, <2>1, <2>2 DEF Enter
  <2>4. ASSUME breaks <= SafeBreaks, NEW q \in Procs, lpc'[q] = "in" PROVE q = p
    BY <1>2, <2>4 DEF Enter
  <2>5. HoldersOwnFile' /\ StaleIsOrphan'
    BY <1>2, <2>1, <2>2, <2>4 DEF Enter
  <2>6. FirstBreakIsDue'
    BY <1>2 DEF Enter
  <2> QED
    BY <2>3, <2>5, <2>6
<1>3. ASSUME NEW p \in Procs, Exists(p) PROVE LockInv'
  BY <1>3 DEF Exists
<1>4. ASSUME NEW p \in Procs, OpenFails(p) PROVE LockInv'
  BY <1>4 DEF OpenFails
<1>5. ASSUME NEW p \in Procs, Stat(p) PROVE LockInv'
  BY <1>5 DEF Stat
<1>6. ASSUME NEW p \in Procs, Break(p) PROVE LockInv'
  BY <1>6 DEF Break
<1>6f. ASSUME NEW p \in Procs, BreakFails(p) PROVE LockInv'
  BY <1>6f DEF BreakFails
<1>7. ASSUME NEW p \in Procs, Retry(p) PROVE LockInv'
  BY <1>7 DEF Retry
<1>8. ASSUME NEW p \in Procs, GiveUp(p) PROVE LockInv'
  BY <1>8 DEF GiveUp
<1>9. ASSUME NEW p \in Procs, DeadlinePasses(p) PROVE LockInv'
  BY <1>9 DEF DeadlinePasses
<1>10. ASSUME NEW p \in Procs, Unlock(p) PROVE LockInv'
  BY <1>10 DEF Unlock
<1>11. ASSUME NEW p \in Procs, UnlockFails(p) PROVE LockInv'
  BY <1>11 DEF UnlockFails
<1>12. ASSUME NEW p \in Procs, Die(p) PROVE LockInv'
  BY <1>12 DEF Die
<1>13. ASSUME NEW p \in Procs, Revive(p) PROVE LockInv'
  BY <1>13 DEF Revive
<1>14. ASSUME Ages PROVE LockInv'
  <2>1. lockFile \in LockFiles /\ lockFile' = [lockFile EXCEPT !.stale = TRUE]
    BY <1>14 DEF Ages
  <2>2. lockFile' \in LockFiles /\ lockFile'.by = lockFile.by /\ lockFile'.stale
    BY <2>1 DEF LockFiles
  <2>3. lockFile' # NoFile
    BY <2>2
  <2>4. stalled' \in BOOLEAN
    BY <1>14 DEF Ages, HolderInside
  <2>5. stalled => stalled'
    BY <1>14 DEF Ages
  <2>6. HolderInside => stalled'
    BY <1>14 DEF Ages
  <2>7. UNCHANGED <<lpc, late, breaks>>
    BY <1>14 DEF Ages
  <2>8. breaks <= SafeBreaks' => breaks <= SafeBreaks
    BY <2>4, <2>5 DEF SafeBreaks
  <2>9. LockTypeOK' /\ HoldersOwnFile'
    BY <1>14, <2>2, <2>3, <2>4, <2>7, <2>8 DEF Ages
  <2> QED
    BY <2>2, <2>3, <2>6, <2>7, <2>9 DEF HolderInside
<1> QED
  BY <1>0, <1>1, <1>2, <1>3, <1>4, <1>5, <1>6, <1>6f, <1>7, <1>8, <1>9, <1>10, <1>11, <1>12, <1>13, <1>14 DEF LockNext

\* A lock broken too often stays so.
LEMMA SafeBefore ==
    ASSUME LockInv, [LockNext]_lockVars, (breaks <= SafeBreaks)'
    PROVE  breaks <= SafeBreaks
<1>1. breaks \in Nat /\ breaks' \in Nat /\ stalled \in BOOLEAN /\ stalled' \in BOOLEAN
  BY LockNextInv DEF LockInv, LockTypeOK, MaxBreaks
<1>2. stalled => stalled'
  BY DEF LockNext, lockVars, Request, Enter, Exists, OpenFails, Stat, Break, BreakFails, Retry, GiveUp,
         DeadlinePasses, Unlock, UnlockFails, Die, Revive, Ages
<1>3. breaks <= breaks'
  BY <1>1 DEF LockNext, lockVars, Request, Enter, Exists, OpenFails, Stat, Break, BreakFails, Retry,
         GiveUp, DeadlinePasses, Unlock, UnlockFails, Die, Revive, Ages
<1> QED
  BY <1>1, <1>2, <1>3 DEF SafeBreaks

\* The lock file's variables keep their types.
THEOREM LockTypeCorrect == LockSpec => []LockTypeOK
<1>1. LockInv => LockTypeOK
  BY DEF LockInv
<1> QED
  BY LockInitInv, LockNextInv, <1>1, PTL DEF LockSpec

\* Two processes are inside together only after the stale-lock path has
\* unlinked two files (one, once a holder has outlasted STALE_LOCK_MS).
THEOREM LockExcludes == LockSpec => []ExclusiveUnlessBroken
<1>1. LockInv => ExclusiveUnlessBroken
  BY DEF LockInv, HoldersOwnFile, ExclusiveUnlessBroken, Exclusive
<1> QED
  BY LockInitInv, LockNextInv, <1>1, PTL DEF LockSpec
=============================================================================
