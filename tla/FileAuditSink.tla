--------------------------- MODULE FileAuditSink ----------------------------
(***************************************************************************)
(* Processes (gateways, CLI commands) appending to one audit log on disk:  *)
(* createAuditSink over createFileAuditStore (packages/audit), with the    *)
(* lock of module FileLock, the anchor stream, write errors that leave     *)
(* part of a line behind, and crashes at every await.                      *)
(***************************************************************************)
EXTENDS FileLock, AuditIntegrity

CONSTANTS
    EveryRecords,      \* audit.anchor.everyRecords
    MaxFaults,         \* bound: file-system errors, process deaths and stalls
    NoEvent

\* What a write that did not complete leaves: nothing, a prefix that is not
\* JSON, or all of the JSON without its newline.
Tears == {"none", "partial", "whole"}

ASSUME EveryRecordsAssumption == EveryRecords \in Nat \ {0}
ASSUME BoundsAssumption == MaxFaults \in Nat
ASSUME NoEventAssumption == NoEvent \notin Events

EmptyRecord == [event |-> NoEvent, sequence |-> 0, previousHash |-> NullHash, eventHash |-> NullHash]

VARIABLES
    file,        \* the JSONL log: lines [body, json, nl]
    anchorFile,  \* the anchor stream: lines [body, json, nl]
    step,        \* where a process is inside its transaction
    queue,       \* writeQueue
    current,     \* the event being written
    built,       \* the record built for it
    result,      \* how the transaction ends once the lock is released
    outcome,     \* what the caller of record(event) knows
    torn,        \* history: how writes of the log and the anchors were cut short
    faults

sinkVars == <<file, anchorFile, step, queue, current, built, result, outcome, torn, faults>>
vars == <<lockVars, sinkVars>>

Init ==
    /\ LockInit
    /\ file = <<>>
    /\ anchorFile = <<>>
    /\ step = [p \in Procs |-> "idle"]
    /\ queue = [p \in Procs |-> <<>>]
    /\ current = [p \in Procs |-> NoEvent]
    /\ built = [p \in Procs |-> EmptyRecord]
    /\ result = [p \in Procs |-> "none"]
    /\ outcome = [e \in Events |-> "new"]
    /\ torn = {}
    /\ faults = 0

Fault == faults < MaxFaults /\ faults' = faults + 1

-----------------------------------------------------------------------------
\* appendFile(path, line): the bytes go to the end of the file, behind
\* whatever an earlier write left there without a newline.

AppendText(lines, body, text) ==
    LET n == Len(lines)
    IN  IF text = "none" THEN lines
        ELSE IF n > 0 /\ ~lines[n].nl
             THEN [lines EXCEPT ![n] = [@ EXCEPT !.json = FALSE, !.nl = (text = "line")]]
             ELSE Append(lines, [body |-> body, json |-> text # "partial", nl |-> text = "line"])

TearLog(p) ==
    \E tear \in Tears :
        /\ file' = AppendText(file, built[p], tear)
        /\ torn' = torn \cup {<<"log", tear>>}

TearAnchor(p) ==
    \E tear \in Tears :
        /\ anchorFile' = AppendText(anchorFile, IntegrityOf(built[p]), tear)
        /\ torn' = torn \cup {<<"anchor", tear>>}

\* Mutant: a last line that does not parse is skipped over.
TailAlwaysReadable == TRUE

\* readLastIntegrity: JSON.parse of the last line, which may throw.
TailReadable == file # <<>> => file[Len(file)].json

ReadLastIntegrity ==
    IF file = <<>> THEN NoIntegrity ELSE IntegrityOf(file[Len(file)].body)

\* readAnchors: skips what does not parse; a later line for a sequence wins.
ReadAnchors(lines) ==
    {lines[i].body : i \in {j \in 1 .. Len(lines) :
        /\ lines[j].json
        /\ \A k \in j + 1 .. Len(lines) :
               lines[k].json => lines[k].body.sequence # lines[j].body.sequence}}

-----------------------------------------------------------------------------
\* createAuditSink.record

Submit(p, e) ==
    /\ lpc[p] # "down"
    /\ outcome[e] = "new"
    /\ outcome' = [outcome EXCEPT ![e] = "pending"]
    /\ queue' = [queue EXCEPT ![p] = Append(@, e)]
    /\ UNCHANGED <<lockVars, file, anchorFile, step, current, built, result, torn, faults>>

\* The head of writeQueue enters store.transaction -> withFileLock.
Begin(p) ==
    /\ queue[p] # <<>>
    /\ Request(p)
    /\ current' = [current EXCEPT ![p] = Head(queue[p])]
    /\ queue' = [queue EXCEPT ![p] = Tail(@)]
    /\ UNCHANGED <<file, anchorFile, step, built, result, outcome, torn, faults>>

EnterTransaction(p) ==
    /\ Enter(p)
    /\ step' = [step EXCEPT ![p] = "read"]
    /\ UNCHANGED <<file, anchorFile, queue, current, built, result, outcome, torn, faults>>

WaitForLock(p) ==
    /\ Exists(p) \/ Stat(p) \/ Break(p) \/ BreakFails(p) \/ Retry(p)
    /\ UNCHANGED sinkVars

TimePasses(p) == DeadlinePasses(p) /\ UNCHANGED sinkVars

Settle(p, how) ==
    /\ outcome' = [outcome EXCEPT ![current[p]] = how]
    /\ current' = [current EXCEPT ![p] = NoEvent]
    /\ built' = [built EXCEPT ![p] = EmptyRecord]
    /\ result' = [result EXCEPT ![p] = "none"]
    /\ step' = [step EXCEPT ![p] = "idle"]
    /\ UNCHANGED <<file, anchorFile, queue, torn>>

LockRefused(p) ==
    /\ \/ GiveUp(p) /\ UNCHANGED faults
       \/ OpenFails(p) /\ Fault
    /\ Settle(p, "rejected")

\* fn is over: leave through withFileLock's finally.
Finish(p, how) ==
    /\ step' = [step EXCEPT ![p] = "release"]
    /\ result' = [result EXCEPT ![p] = how]

Read(p) ==
    /\ step[p] = "read"
    /\ TailReadable
    /\ built' = [built EXCEPT ![p] = BuildIntegrityRecord(ReadLastIntegrity, current[p])]
    /\ step' = [step EXCEPT ![p] = "persist"]
    /\ UNCHANGED <<lockVars, file, anchorFile, queue, current, result, outcome, torn, faults>>

\* The last line does not parse, or the file cannot be read.
ReadThrows(p) ==
    /\ step[p] = "read"
    /\ \/ ~TailReadable /\ UNCHANGED faults
       \/ Fault
    /\ Finish(p, "error")
    /\ UNCHANGED <<lockVars, file, anchorFile, queue, current, built, outcome, torn>>

Persist(p) ==
    /\ step[p] = "persist"
    /\ file' = AppendText(file, built[p], "line")
    /\ step' = [step EXCEPT ![p] = "anchor"]
    /\ UNCHANGED <<lockVars, anchorFile, queue, current, built, result, outcome, torn, faults>>

\* Mutant: the append's error is swallowed.
PersistFailsSilently(p) ==
    /\ step[p] = "persist"
    /\ Fault
    /\ TearLog(p)
    /\ Finish(p, "ok")
    /\ UNCHANGED <<lockVars, anchorFile, queue, current, built, outcome>>

\* Mutant: the anchor is written whether or not the record was.
PersistFailsAnchored(p) ==
    /\ step[p] = "persist"
    /\ Fault
    /\ TearLog(p)
    /\ step' = [step EXCEPT ![p] = "anchor"]
    /\ UNCHANGED <<lockVars, anchorFile, queue, current, built, result, outcome>>

PersistFails(p) ==
    /\ step[p] = "persist"
    /\ Fault
    /\ TearLog(p)
    /\ Finish(p, "error")
    /\ UNCHANGED <<lockVars, anchorFile, queue, current, built, outcome>>

AnchorDue(p) == built[p].sequence % EveryRecords = 0

WriteAnchor(p) ==
    /\ step[p] = "anchor"
    /\ anchorFile' = IF AnchorDue(p)
                     THEN AppendText(anchorFile, IntegrityOf(built[p]), "line")
                     ELSE anchorFile
    /\ Finish(p, "ok")
    /\ UNCHANGED <<lockVars, file, queue, current, built, outcome, torn, faults>>

\* Mutant: anchoring is best effort.
AnchorFailsSilently(p) ==
    /\ step[p] = "anchor"
    /\ AnchorDue(p)
    /\ Fault
    /\ TearAnchor(p)
    /\ Finish(p, "ok")
    /\ UNCHANGED <<lockVars, file, queue, current, built, outcome>>

AnchorFails(p) ==
    /\ step[p] = "anchor"
    /\ AnchorDue(p)
    /\ Fault
    /\ TearAnchor(p)
    /\ Finish(p, "error")
    /\ UNCHANGED <<lockVars, file, queue, current, built, outcome>>

LeaveTransaction(p) ==
    /\ step[p] = "release"
    /\ Unlock(p)
    /\ Settle(p, IF result[p] = "ok" THEN "acked" ELSE "rejected")
    /\ UNCHANGED faults

\* The finally block throws: the lock file stays and record() rejects.
LeaveFails(p) ==
    /\ step[p] = "release"
    /\ UnlockFails(p)
    /\ Fault
    /\ Settle(p, "rejected")

-----------------------------------------------------------------------------
\* The process dies, perhaps in the middle of a write.

PendingOf(p) == {queue[p][i] : i \in 1 .. Len(queue[p])}
                \cup (IF current[p] = NoEvent THEN {} ELSE {current[p]})

Crash(p) ==
    /\ Die(p)
    /\ Fault
    /\ CASE step[p] = "persist" -> TearLog(p) /\ UNCHANGED anchorFile
         [] step[p] = "anchor" /\ AnchorDue(p) -> TearAnchor(p) /\ UNCHANGED file
         [] OTHER -> UNCHANGED <<file, anchorFile, torn>>
    /\ outcome' = [e \in Events |-> IF e \in PendingOf(p) THEN "rejected" ELSE outcome[e]]
    /\ step' = [step EXCEPT ![p] = "idle"]
    /\ queue' = [queue EXCEPT ![p] = <<>>]
    /\ current' = [current EXCEPT ![p] = NoEvent]
    /\ built' = [built EXCEPT ![p] = EmptyRecord]
    /\ result' = [result EXCEPT ![p] = "none"]

Restart(p) == Revive(p) /\ UNCHANGED sinkVars

\* A holder that outlasts STALE_LOCK_MS counts against the bound as a fault.
LockAges ==
    /\ Ages
    /\ IF HolderInside THEN Fault ELSE UNCHANGED faults
    /\ UNCHANGED <<file, anchorFile, step, queue, current, built, result, outcome, torn>>

-----------------------------------------------------------------------------
Step(p) ==
    \/ Begin(p) \/ EnterTransaction(p) \/ WaitForLock(p) \/ LockRefused(p)
    \/ Read(p) \/ ReadThrows(p) \/ Persist(p) \/ WriteAnchor(p) \/ LeaveTransaction(p)

Failure(p) ==
    PersistFails(p) \/ AnchorFails(p) \/ LeaveFails(p) \/ Crash(p) \/ Restart(p)

Next ==
    \/ \E p \in Procs : Step(p) \/ TimePasses(p) \/ Failure(p) \/ \E e \in Events : Submit(p, e)
    \/ LockAges

Spec == Init /\ [][Next]_vars

\* Continuations run and the 5 s deadline comes; nothing else is promised.
Fairness == \A p \in Procs : WF_vars(Step(p)) /\ WF_vars(TimePasses(p))

FairSpec == Spec /\ Fairness

-----------------------------------------------------------------------------
\* Properties

Line(Body) == [body : Body, json : BOOLEAN, nl : BOOLEAN]

\* Every variable has the shape the code gives it.
TypeOK ==
    /\ LockTypeOK
    /\ file \in Seq(Line(Record))
    /\ anchorFile \in Seq(Line(Anchor))
    /\ step \in [Procs -> {"idle", "read", "persist", "anchor", "release"}]
    /\ queue \in [Procs -> Seq(Events)]
    /\ current \in [Procs -> Events \cup {NoEvent}]
    /\ built \in [Procs -> Record \cup {EmptyRecord}]
    /\ result \in [Procs -> {"none", "ok", "error"}]
    /\ outcome \in [Events -> {"new", "pending", "acked", "rejected"}]
    /\ torn \subseteq {"log", "anchor"} \X Tears
    /\ faults \in 0 .. MaxFaults

Records == [i \in 1 .. Len(file) |-> file[i].body]

AllParse == \A i \in 1 .. Len(file) : file[i].json

Intact == breaks <= SafeBreaks   \* the lock has not been broken too often

\* While the lock holds, the log is one chain with at most its very last line
\* damaged: a torn line stops every later record() at readLastIntegrity, so
\* nothing is ever chained past the damage.
DamageOnlyAtTail ==
    Intact =>
        LET n == Len(file)
            sound == IF n > 0 /\ ~file[n].json THEN n - 1 ELSE n
        IN  /\ \A i \in 1 .. sound : file[i].json
            /\ LinearChain(SubSeq(Records, 1, sound))

\* An event whose record() resolved is in the log, on a line that parses: torn
\* writes, failed anchors, crashes and lock waits never cost an acknowledged
\* record.  The exception is a write that lost only its newline, onto whose
\* line the next record is appended (audit/index.mjs:63).
AckedReadable ==
    Intact /\ <<"log", "whole">> \notin torn =>
        \A e \in Events : outcome[e] = "acked" =>
            \E i \in 1 .. Len(file) : file[i].json /\ file[i].body.event = e

\* verifyAuditChain raises no false alarm: crashes between persist and
\* writeAnchor, lost anchors and torn anchor lines never make it reject a log
\* nobody touched.
NoFalseAlarm ==
    Intact /\ AllParse => VerifyAuditChain(Records, ReadAnchors(anchorFile))

\* Cutting the log before an acknowledged record that was due an anchor is
\* detected: "deleting trailing records leaves the chain shorter than the last
\* anchored sequence" (audit/index.mjs:121-122).  The exception is an anchor
\* line that was cut short and takes the next anchor with it.
TruncationCaught ==
    Intact /\ torn \cap {<<"anchor", "partial">>, <<"anchor", "whole">>} = {} =>
        \A i \in 1 .. Len(file) :
            /\ file[i].json
            /\ outcome[file[i].body.event] = "acked"
            /\ i % EveryRecords = 0
            => \A k \in 0 .. i - 1 :
                   ~VerifyAuditChain(SubSeq(Records, 1, k), ReadAnchors(anchorFile))

\* record()'s own claim: the queue and the transaction "keep the chain strictly
\* sequential and never forked under concurrency" (audit/index.mjs:148-150).
NeverForked == AllParse => LinearChain(Records)

\* Every record() call settles: it resolves or rejects, or its process dies.
\* The exception is a stale lock file whose unlink fails again and again: the
\* loop of acquireLock then never reaches its 5 s deadline (audit/index.mjs:451-454).
EveryRecordSettles ==
    \/ []<><<\E p \in Procs : BreakFails(p)>>_lpc
    \/ \A e \in Events : outcome[e] = "pending" ~> outcome[e] # "pending"
=============================================================================
