--------------------------- MODULE FileTokenStore ---------------------------
(***************************************************************************)
(* Processes (gateways, CLI commands) sharing one token vault on disk:     *)
(* createTokenVault over createFileTokenStore (packages/token-vault), with *)
(* the lock of module FileLock.  mutate() reads the whole vault, runs fn   *)
(* on it and replaces the file by write-temp-then-rename.                  *)
(***************************************************************************)
EXTENDS FileLock, TokenVaultOps

VARIABLES
    vault,      \* the tokens of the vault file; EmptyVault while it is absent
    step,       \* where a process is inside mutate()
    fileOp,     \* the mutation at the head of mutationQueue
    fileView,   \* the vault as read and mutated
    fileResult, \* how the mutation ends once the lock is released
    fileNow, fileCalls, fileFaults

storeVars == <<vault, step, fileOp, fileView, fileResult, fileNow, fileCalls, fileFaults>>
fileVars == <<lockVars, storeVars>>

FileInit ==
    /\ LockInit
    /\ vault = EmptyVault
    /\ step = [p \in Procs |-> "idle"]
    /\ fileOp = [p \in Procs |-> NoOperation]
    /\ fileView = [p \in Procs |-> EmptyVault]
    /\ fileResult = [p \in Procs |-> "none"]
    /\ fileNow = 0 /\ fileCalls = 0 /\ fileFaults = 0

FileFault == fileFaults < MaxFaults /\ fileFaults' = fileFaults + 1

FileTick ==
    /\ fileNow < MaxTime
    /\ fileNow' = fileNow + 1
    /\ UNCHANGED <<lockVars, vault, step, fileOp, fileView, fileResult, fileCalls, fileFaults>>

-----------------------------------------------------------------------------
\* mutationQueue and withFileLock

FileCall(p, o) ==
    /\ fileOp[p] = NoOperation
    /\ fileCalls < MaxCalls
    /\ fileCalls' = fileCalls + 1
    /\ Request(p)
    /\ fileOp' = [fileOp EXCEPT ![p] = o]
    /\ UNCHANGED <<vault, step, fileView, fileResult, fileNow, fileFaults>>

EnterMutate(p) ==
    /\ Enter(p)
    /\ step' = [step EXCEPT ![p] = "read"]
    /\ UNCHANGED <<vault, fileOp, fileView, fileResult, fileNow, fileCalls, fileFaults>>

WaitForLock(p) ==
    /\ Exists(p) \/ Stat(p) \/ Break(p) \/ BreakFails(p) \/ Retry(p) \/ DeadlinePasses(p)
    /\ UNCHANGED storeVars

\* mutate() settles.
FileSettle(p) ==
    /\ step' = [step EXCEPT ![p] = "idle"]
    /\ fileOp' = [fileOp EXCEPT ![p] = NoOperation]
    /\ fileView' = [fileView EXCEPT ![p] = EmptyVault]
    /\ fileResult' = [fileResult EXCEPT ![p] = "none"]
    /\ UNCHANGED <<vault, fileNow, fileCalls>>

LockRefused(p) ==
    /\ \/ GiveUp(p) /\ UNCHANGED fileFaults
       \/ OpenFails(p) /\ FileFault
    /\ FileSettle(p)

-----------------------------------------------------------------------------
\* createFileTokenStore.mutate

\* readVault, and fn over the fileView.
ReadAndRun(p) ==
    /\ step[p] = "read"
    /\ fileView' = [fileView EXCEPT ![p] = Mutation(fileOp[p], vault, fileNow).tokens]
    /\ step' = [step EXCEPT ![p] = "write"]
    /\ UNCHANGED <<lockVars, vault, fileOp, fileResult, fileNow, fileCalls, fileFaults>>

\* writeVault: the rename puts the whole new file in place.
WriteVault(p) ==
    /\ step[p] = "write"
    /\ vault' = fileView[p]
    /\ step' = [step EXCEPT ![p] = "release"]
    /\ fileResult' = [fileResult EXCEPT ![p] = "ok"]
    /\ UNCHANGED <<lockVars, fileOp, fileView, fileNow, fileCalls, fileFaults>>

\* Mutant: the file is overwritten in place and the write is cut short.
MutateFailsInPlace(p) ==
    /\ step[p] = "write"
    /\ FileFault
    /\ vault' = EmptyVault
    /\ step' = [step EXCEPT ![p] = "release"]
    /\ fileResult' = [fileResult EXCEPT ![p] = "error"]
    /\ UNCHANGED <<lockVars, fileOp, fileView, fileNow, fileCalls>>

\* The read, fn, the temporary file or the rename fails: the vault is as before.
MutateFails(p) ==
    /\ step[p] \in {"read", "write"}
    /\ FileFault
    /\ step' = [step EXCEPT ![p] = "release"]
    /\ fileResult' = [fileResult EXCEPT ![p] = "error"]
    /\ UNCHANGED <<lockVars, vault, fileOp, fileView, fileNow, fileCalls>>

\* withFileLock's finally; it throws if the lock file cannot be removed.
LeaveMutate(p) ==
    /\ step[p] = "release"
    /\ \/ Unlock(p) /\ UNCHANGED fileFaults
       \/ UnlockFails(p) /\ FileFault
    /\ FileSettle(p)

\* The process dies; a temporary file may stay behind, the vault does not change.
FileCrash(p) ==
    /\ Die(p)
    /\ FileFault
    /\ FileSettle(p)

Restart(p) == Revive(p) /\ UNCHANGED storeVars

\* A holder that outlasts STALE_LOCK_MS counts against the bound as a fault.
LockAges ==
    /\ Ages
    /\ IF HolderInside THEN FileFault ELSE UNCHANGED fileFaults
    /\ UNCHANGED <<vault, step, fileOp, fileView, fileResult, fileNow, fileCalls>>

-----------------------------------------------------------------------------
FileStep(p) ==
    \/ EnterMutate(p) \/ WaitForLock(p) \/ LockRefused(p) \/ ReadAndRun(p) \/ WriteVault(p)
    \/ MutateFails(p) \/ LeaveMutate(p) \/ FileCrash(p) \/ Restart(p)

FileNext ==
    \/ \E p \in Procs : FileStep(p) \/ \E o \in Operations : FileCall(p, o)
    \/ LockAges
    \/ FileTick

FileSpec == FileInit /\ [][FileNext]_fileVars

-----------------------------------------------------------------------------
\* Properties

\* Every variable has the shape the code gives it.
FileTypeOK ==
    /\ LockTypeOK
    /\ vault \in TokenMaps
    /\ step \in [Procs -> {"idle", "read", "write", "release"}]
    /\ fileOp \in [Procs -> Operations \cup {NoOperation}]
    /\ fileView \in [Procs -> TokenMaps]
    /\ fileResult \in [Procs -> {"none", "ok", "error"}]
    /\ fileNow \in Nat /\ fileCalls \in Nat /\ fileFaults \in Nat

Intact == breaks <= SafeBreaks   \* the lock has not been broken too often

\* One write of the vault: a token leaves it only once it has expired or as
\* somebody purges it, and its expiry never moves back.
TokensKept ==
    \A t \in Tokens : vault[t] # NoRecord =>
        IF vault'[t] = NoRecord
        THEN \/ Expired(vault[t], fileNow)
             \/ \E p \in Procs : step[p] = "write" /\ fileOp[p] = [kind |-> "purge", token |-> t]
        ELSE vault'[t].expiresAt >= vault[t].expiresAt

\* While the lock is intact no token is lost or cut short by a concurrent
\* mutation, a crash or a failed write: the queue and the store's critical
\* section keep "concurrent tokenize/purge from corrupting or losing tokens"
\* (token-vault/index.mjs:121-123).  A stale lock broken once too often voids
\* the promise, as it does for the audit log.
KeptWhileLocked == [][Intact => TokensKept]_fileVars
=============================================================================
