------------------------------ MODULE FileLock ------------------------------
(***************************************************************************)
(* The lock file that serialises the processes sharing an audit log        *)
(* (packages/audit) or a token vault (packages/token-vault); both packages *)
(* hold the same withFileLock, acquireLock and isStaleLock.                *)
(*                                                                         *)
(*   out --Request--> open --> in --Unlock--> out                          *)
(*                    open --EEXIST--> stat --> unlink --> open            *)
(*                                     stat --> wait --> open | out        *)
(*                                                                         *)
(* Each await is an action of its own.  The file carries no owner: whoever *)
(* unlinks the path removes whatever lock is there at that moment.         *)
(***************************************************************************)
EXTENDS Naturals

CONSTANTS
    Procs,
    HoldersMayStall,  \* whether a live holder may outlast STALE_LOCK_MS
    NoFile            \* stands for "no lock file at the path"

LockFiles == [by : Procs, stale : BOOLEAN]

ASSUME HoldersMayStallAssumption == HoldersMayStall \in BOOLEAN
ASSUME NoFileAssumption == NoFile \notin LockFiles

VARIABLES
    lockFile,  \* NoFile, or who created it and whether it is over 30 s old
    lpc,       \* where each process is in acquireLock / withFileLock
    late,      \* whether the process's 5 s deadline has passed
    breaks,    \* history: stale-lock unlinks that removed a file, up to MaxBreaks
    stalled    \* history: whether a lock grew stale under its live holder

lockVars == <<lockFile, lpc, late, breaks, stalled>>

MaxBreaks == 2   \* bound: the count saturates where the properties stop telling

LockStates == {"out", "open", "stat", "unlink", "wait", "in", "down"}

LockInit ==
    /\ lockFile = NoFile
    /\ lpc = [p \in Procs |-> "out"]
    /\ late = [p \in Procs |-> FALSE]
    /\ breaks = 0
    /\ stalled = FALSE

LockGoto(p, where) == lpc' = [lpc EXCEPT ![p] = where]

\* withFileLock is called; the deadline starts.
Request(p) ==
    /\ lpc[p] = "out"
    /\ LockGoto(p, "open")
    /\ late' = [late EXCEPT ![p] = FALSE]
    /\ UNCHANGED <<lockFile, breaks, stalled>>

\* open(lockPath, "wx") creates the file.
Enter(p) ==
    /\ lpc[p] = "open"
    /\ lockFile = NoFile
    /\ lockFile' = [by |-> p, stale |-> FALSE]
    /\ LockGoto(p, "in")
    /\ UNCHANGED <<late, breaks, stalled>>

\* EEXIST
Exists(p) ==
    /\ lpc[p] = "open"
    /\ lockFile # NoFile
    /\ LockGoto(p, "stat")
    /\ UNCHANGED <<lockFile, late, breaks, stalled>>

\* Any other error of open leaves acquireLock.
OpenFails(p) ==
    /\ lpc[p] = "open"
    /\ LockGoto(p, "out")
    /\ UNCHANGED <<lockFile, late, breaks, stalled>>

\* Mutant: any existing lock is stale.
StatIgnoresAge(p) ==
    /\ lpc[p] = "stat"
    /\ IF lockFile # NoFile
       THEN LockGoto(p, "unlink")
       ELSE LockGoto(p, "wait")
    /\ UNCHANGED <<lockFile, late, breaks, stalled>>

\* isStaleLock: a file that is gone by now is not stale.
Stat(p) ==
    /\ lpc[p] = "stat"
    /\ IF lockFile # NoFile /\ lockFile.stale
       THEN LockGoto(p, "unlink")
       ELSE LockGoto(p, "wait")
    /\ UNCHANGED <<lockFile, late, breaks, stalled>>

\* unlink(lockPath).catch(() => {}), then at once back to open.
Break(p) ==
    /\ lpc[p] = "unlink"
    /\ lockFile' = NoFile
    /\ breaks' = IF lockFile # NoFile /\ breaks < MaxBreaks THEN breaks + 1 ELSE breaks
    /\ LockGoto(p, "open")
    /\ UNCHANGED <<late, stalled>>

\* The unlink is rejected and the rejection swallowed: the file stays, and the
\* `continue` reaches open again without a look at the deadline.
BreakFails(p) ==
    /\ lpc[p] = "unlink"
    /\ lockFile # NoFile
    /\ LockGoto(p, "open")
    /\ UNCHANGED <<lockFile, late, breaks, stalled>>

\* delay(10) and try again.
Retry(p) ==
    /\ lpc[p] = "wait"
    /\ ~late[p]
    /\ LockGoto(p, "open")
    /\ UNCHANGED <<lockFile, late, breaks, stalled>>

\* "Timed out acquiring audit lock"
GiveUp(p) ==
    /\ lpc[p] = "wait"
    /\ late[p]
    /\ LockGoto(p, "out")
    /\ UNCHANGED <<lockFile, late, breaks, stalled>>

\* Mutant: the deadline starts anew with every attempt.
DeadlineRestarts(p) ==
    /\ lpc[p] \in {"open", "stat", "unlink", "wait"}
    /\ ~late[p]
    /\ UNCHANGED lockVars

DeadlinePasses(p) ==
    /\ lpc[p] \in {"open", "stat", "unlink", "wait"}
    /\ ~late[p]
    /\ late' = [late EXCEPT ![p] = TRUE]
    /\ UNCHANGED <<lockFile, lpc, breaks, stalled>>

\* withFileLock's finally: close, then unlink whatever is at the path.
Unlock(p) ==
    /\ lpc[p] = "in"
    /\ lockFile' = NoFile
    /\ LockGoto(p, "out")
    /\ UNCHANGED <<late, breaks, stalled>>

\* The unlink fails with something other than ENOENT: the file stays.
UnlockFails(p) ==
    /\ lpc[p] = "in"
    /\ lockFile # NoFile
    /\ LockGoto(p, "out")
    /\ UNCHANGED <<lockFile, late, breaks, stalled>>

\* The process dies wherever it is; the file stays.
Die(p) ==
    /\ lpc[p] # "down"
    /\ LockGoto(p, "down")
    /\ UNCHANGED <<lockFile, late, breaks, stalled>>

Revive(p) ==
    /\ lpc[p] = "down"
    /\ LockGoto(p, "out")
    /\ UNCHANGED <<lockFile, late, breaks, stalled>>

\* The process that created the lock file is still inside.
HolderInside == lpc[lockFile.by] = "in"

\* The file becomes older than STALE_LOCK_MS.  Its creator has left it behind,
\* or is still inside and slower than that.
Ages ==
    /\ lockFile # NoFile
    /\ ~lockFile.stale
    /\ HolderInside => HoldersMayStall
    /\ lockFile' = [lockFile EXCEPT !.stale = TRUE]
    /\ stalled' = (stalled \/ HolderInside)
    /\ UNCHANGED <<lpc, late, breaks>>

LockNext ==
    \/ \E p \in Procs :
        \/ Request(p) \/ Enter(p) \/ Exists(p) \/ OpenFails(p) \/ Stat(p) \/ Break(p)
        \/ BreakFails(p) \/ Retry(p) \/ GiveUp(p) \/ DeadlinePasses(p) \/ Unlock(p) \/ UnlockFails(p)
        \/ Die(p) \/ Revive(p)
    \/ Ages

LockSpec == LockInit /\ [][LockNext]_lockVars

-----------------------------------------------------------------------------
\* Properties

\* The lock file's variables have the shape the code gives them.
LockTypeOK ==
    /\ lockFile \in LockFiles \cup {NoFile}
    /\ lpc \in [Procs -> LockStates]
    /\ late \in [Procs -> BOOLEAN]
    /\ breaks \in 0 .. MaxBreaks
    /\ stalled \in BOOLEAN

Exclusive == \A p, q \in Procs : lpc[p] = "in" /\ lpc[q] = "in" => p = q

\* How many stale-lock unlinks the lock survives: one, while no holder has
\* stalled (it can only hit a file its creator left behind); none afterwards.
SafeBreaks == IF stalled THEN 0 ELSE 1

\* The critical section is exclusive until the stale-lock path has unlinked
\* more files than that: the second waiter that saw the same stale file
\* unlinks the first one's fresh lock (acquireLock stats and unlinks in two
\* steps).
ExclusiveUnlessBroken == breaks <= SafeBreaks => Exclusive
=============================================================================
