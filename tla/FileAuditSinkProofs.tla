------------------------ MODULE FileAuditSinkProofs -------------------------
(***************************************************************************)
(* The audit log on disk, for any number of processes, events, faults and  *)
(* deaths and any anchor period.  While the lock is intact one process at  *)
(* most is in its transaction, so the record it built still fits the log   *)
(* it appends to; the rest is what the file keeps of a write cut short.    *)
(***************************************************************************)
EXTENDS FileAuditSink, FileLockProofs, SequenceTheorems, TLAPS

USE EveryRecordsAssumption, BoundsAssumption, NoEventAssumption

-----------------------------------------------------------------------------
\* The inductive invariant

\* Who is where: a process is in its transaction only inside the lock, it has
\* an event exactly while it wants the lock or has it, and the record is built
\* from "persist" on.
Placed ==
    \A p \in Procs :
        /\ step[p] # "idle" => lpc[p] = "in"
        /\ lpc[p] \in {"out", "down"} <=> current[p] = NoEvent
        /\ step[p] \in {"persist", "anchor"} => built[p] \in Record

Shapes == TypeOK /\ Placed

\* An event that is waiting or being written waits in one place, and its
\* caller has heard nothing yet.
HeldOnce ==
    /\ \A p, q \in Procs : p # q => PendingOf(p) \cap PendingOf(q) = {}
    /\ \A p \in Procs : \A i, j \in 1 .. Len(queue[p]) : i # j => queue[p][i] # queue[p][j]
    /\ \A p \in Procs : \A i \in 1 .. Len(queue[p]) : queue[p][i] # current[p]
    /\ \A p \in Procs : \A e \in PendingOf(p) : outcome[e] = "pending"

\* The i-th line holds the i-th record of the chain.
LastHash(lines, i) == IF i = 0 THEN NullHash ELSE lines[i].body.eventHash

Continues(lines, i, r) ==
    /\ r.sequence = i + 1
    /\ r.previousHash = LastHash(lines, i)
    /\ r.eventHash = Sha256(r.previousHash, r.event, r.sequence)

\* Only the last line may be damaged or lack its newline; the others form the chain.
LogSound ==
    /\ \A i \in 1 .. Len(file) : i < Len(file) => file[i].json /\ file[i].nl
    /\ \A i \in 1 .. Len(file) : file[i].json => Continues(file, i - 1, file[i].body)

\* The record about to be written continues the log as it is, ...
BuiltFresh ==
    \A p \in Procs : step[p] = "persist" =>
        /\ TailReadable
        /\ built[p].event = current[p]
        /\ Continues(file, Len(file), built[p])

\* ... and the record about to be anchored is the last one, unless it was
\* written onto a line that lacked its newline.
BuiltWritten ==
    \A p \in Procs : step[p] = "anchor" =>
        /\ file # <<>>
        /\ file[Len(file)].json => file[Len(file)].body = built[p]

\* The anchors are in the order of their sequences and behind the log.
AnchorsOrdered ==
    /\ \A j, k \in 1 .. Len(anchorFile) :
           j < k => anchorFile[j].body.sequence < anchorFile[k].body.sequence
    /\ TailReadable => \A j \in 1 .. Len(anchorFile) : anchorFile[j].body.sequence <= Len(file)
    /\ \A p \in Procs : step[p] = "anchor" =>
           \A j \in 1 .. Len(anchorFile) : anchorFile[j].body.sequence < built[p].sequence

\* Every readable anchor is of a record of the log, unless the log is damaged.
AnchorsTrue ==
    TailReadable =>
        \A j \in 1 .. Len(anchorFile) : anchorFile[j].json =>
            /\ anchorFile[j].body.sequence \in 1 .. Len(file)
            /\ anchorFile[j].body.eventHash = file[anchorFile[j].body.sequence].body.eventHash

\* Without torn anchor lines every line of the anchor stream is whole, and a
\* record that was due an anchor and has none is rejected, or will be.
AnchorsWhole == torn \cap {<<"anchor", "partial">>, <<"anchor", "whole">>} = {}

Anchored(i) == \E j \in 1 .. Len(anchorFile) : anchorFile[j].body.sequence = i

Unanchored(p, i) ==
    /\ current[p] = file[i].body.event
    /\ built[p].sequence = i
    /\ \/ step[p] = "anchor"
       \/ step[p] = "release" /\ result[p] = "error"

AnchorsOwed ==
    AnchorsWhole =>
        /\ \A j \in 1 .. Len(anchorFile) : anchorFile[j].json /\ anchorFile[j].nl
        /\ \A i \in 1 .. Len(file) :
               file[i].json /\ i % EveryRecords = 0 /\ ~Anchored(i) =>
                   \/ outcome[file[i].body.event] = "rejected"
                   \/ \E p \in Procs : Unanchored(p, i)

\* Without a write that lost only its newline a line that parses is never
\* written to again, and an event is in one when its caller is told so.
Readable(e) == \E i \in 1 .. Len(file) : file[i].json /\ file[i].body.event = e

Written ==
    <<"log", "whole">> \notin torn =>
        /\ \A i \in 1 .. Len(file) : file[i].json => file[i].nl
        /\ \A e \in Events : outcome[e] = "acked" => Readable(e)
        /\ \A p \in Procs : step[p] = "anchor" \/ (step[p] = "release" /\ result[p] = "ok") =>
               Readable(current[p])

LogInv ==
    /\ LogSound /\ BuiltFresh /\ BuiltWritten
    /\ AnchorsOrdered /\ AnchorsTrue /\ AnchorsOwed
    /\ Written

SinkInv ==
    /\ LockInv
    /\ Shapes
    /\ HeldOnce
    /\ Intact => LogInv

-----------------------------------------------------------------------------
\* appendFile: a new line, or the end of a line that lacked its newline

Texts == Tears \cup {"line"}

Grown(lines, new, body, text) ==
    LET n == Len(lines)
    IN  /\ n > 0 => lines[n].nl
        /\ Len(new) = n + 1
        /\ \A i \in 1 .. n : new[i] = lines[i]
        /\ new[n + 1].body = body
        /\ new[n + 1].json <=> text # "partial"
        /\ new[n + 1].nl <=> text = "line"

Spoiled(lines, new) ==
    LET n == Len(lines)
    IN  /\ n > 0 /\ ~lines[n].nl
        /\ Len(new) = n
        /\ \A i \in 1 .. n : i < n => new[i] = lines[i]
        /\ new[n].body = lines[n].body
        /\ ~new[n].json

LEMMA AppendTextEffect ==
    ASSUME NEW Body, NEW lines \in Seq(Line(Body)), NEW body \in Body, NEW text \in Texts
    PROVE  LET new == AppendText(lines, body, text)
           IN  /\ new \in Seq(Line(Body))
               /\ \/ text = "none" /\ new = lines
                  \/ text # "none" /\ Spoiled(lines, new)
                  \/ text # "none" /\ Grown(lines, new, body, text)
<1> DEFINE n == Len(lines)
           new == AppendText(lines, body, text)
<1>0. n \in Nat /\ \A i \in 1 .. n : lines[i] \in Line(Body)
  OBVIOUS
<1>1. CASE text = "none"
  BY <1>1 DEF AppendText
<1>2. CASE text # "none" /\ n > 0 /\ ~lines[n].nl
  <2> DEFINE last == [lines[n] EXCEPT !.json = FALSE, !.nl = (text = "line")]
  <2>1. new = [lines EXCEPT ![n] = last]
    BY <1>2 DEF AppendText
  <2>2. lines[n] \in Line(Body)
    BY <1>0, <1>2
  <2>3. last \in Line(Body)
    BY <2>2 DEF Line
  <2>4. last.body = lines[n].body
    BY <2>2 DEF Line
  <2>5. ~last.json
    BY <2>2 DEF Line
  <2> HIDE DEF last, new
  <2>6. new \in Seq(Line(Body)) /\ Len(new) = n
    BY <2>1, <2>3, <1>2
  <2>7. \A i \in 1 .. n : new[i] = IF i = n THEN last ELSE lines[i]
    BY <2>1, <1>0
  <2>8. Spoiled(lines, new)
    BY <1>0, <1>2, <2>4, <2>5, <2>6, <2>7 DEF Spoiled
  <2> QED
    BY <1>2, <2>6, <2>8 DEF new
<1>3. CASE text # "none" /\ ~(n > 0 /\ ~lines[n].nl)
  <2> DEFINE last == [body |-> body, json |-> text # "partial", nl |-> text = "line"]
  <2>1. new = Append(lines, last)
    BY <1>3 DEF AppendText
  <2>2. last \in Line(Body)
    BY DEF Line
  <2>3. last.body = body
    OBVIOUS
  <2>4. last.json <=> text # "partial"
    OBVIOUS
  <2>5. last.nl <=> text = "line"
    OBVIOUS
  <2> HIDE DEF last, new
  <2>6. new \in Seq(Line(Body)) /\ Len(new) = n + 1 /\ new[n + 1] = last
    BY <2>1, <2>2
  <2>7. \A i \in 1 .. n : new[i] = lines[i]
    BY <2>1, <2>2
  <2>8. Grown(lines, new, body, text)
    BY <1>0, <1>3, <2>3, <2>4, <2>5, <2>6, <2>7 DEF Grown
  <2> QED
    BY <1>3, <2>6, <2>8 DEF new
<1> QED
  BY <1>1, <1>2, <1>3

-----------------------------------------------------------------------------
\* The record, its digest and its anchor

LEMMA Sha256Type ==
    ASSUME NEW h \in Hashes, NEW e \in Events, NEW n \in Nat
    PROVE  Sha256(h, e, n) \in Hashes
BY DEF Sha256, Hashes, Commitment

LEMMA BuiltRecord ==
    ASSUME NEW i \in Integrity, NEW e \in Events
    PROVE  LET r == BuildIntegrityRecord(i, e)
           IN  /\ r \in Record
               /\ r.event = e
               /\ r.sequence = i.sequence + 1
               /\ r.previousHash = i.eventHash
               /\ r.eventHash = Sha256(r.previousHash, r.event, r.sequence)
BY Sha256Type DEF BuildIntegrityRecord, Integrity, Record

LEMMA AnchorOfRecord ==
    ASSUME NEW r \in Record
    PROVE  /\ IntegrityOf(r) \in Anchor /\ IntegrityOf(r) \in Integrity
           /\ IntegrityOf(r).sequence = r.sequence
           /\ IntegrityOf(r).eventHash = r.eventHash
BY DEF IntegrityOf, Anchor, Integrity, Record

\* readLastIntegrity gives an integrity, whatever the log holds.
LEMMA ReadLastType ==
    ASSUME TypeOK
    PROVE  ReadLastIntegrity \in Integrity
<1>1. NoIntegrity \in Integrity
  BY DEF NoIntegrity, Integrity, NullHash, Hashes
<1>2. ASSUME file # <<>> PROVE file[Len(file)].body \in Record
  <2>1. file \in Seq(Line(Record)) /\ Len(file) \in 1 .. Len(file)
    BY <1>2 DEF TypeOK
  <2>2. file[Len(file)] \in Line(Record)
    BY <2>1
  <2> QED
    BY <2>2 DEF Line
<1> QED
  BY <1>1, <1>2, AnchorOfRecord DEF ReadLastIntegrity

-----------------------------------------------------------------------------
\* Shapes

LEMMA SinkLockStep ==
    ASSUME [Next]_vars
    PROVE  [LockNext]_lockVars
BY DEF Next, Step, Failure, vars, Submit, Begin, EnterTransaction, WaitForLock, TimePasses, LockRefused,
       Read, ReadThrows, Persist, PersistFails, WriteAnchor, AnchorFails, LeaveTransaction, LeaveFails,
       Crash, Restart, LockAges, LockNext

LEMMA IntactBefore ==
    ASSUME LockInv, [LockNext]_lockVars, Intact'
    PROVE  Intact
BY SafeBefore DEF Intact

\* A write cut short leaves lines, and notes how it was cut.
LEMMA TearTyped ==
    ASSUME TypeOK, NEW p \in Procs, built[p] \in Record
    PROVE  /\ TearLog(p) => file' \in Seq(Line(Record)) /\ torn' \subseteq {"log", "anchor"} \X Tears
           /\ TearAnchor(p) =>
                  anchorFile' \in Seq(Line(Anchor)) /\ torn' \subseteq {"log", "anchor"} \X Tears
<1>1. file \in Seq(Line(Record)) /\ anchorFile \in Seq(Line(Anchor))
  BY DEF TypeOK
<1>2. torn \subseteq {"log", "anchor"} \X Tears
  BY DEF TypeOK
<1>3. \A tear \in Tears : tear \in Texts /\ <<"log", tear>> \in {"log", "anchor"} \X Tears
                         /\ <<"anchor", tear>> \in {"log", "anchor"} \X Tears
  BY DEF Texts
<1>4. IntegrityOf(built[p]) \in Anchor
  BY AnchorOfRecord
<1>5. ASSUME NEW tear \in Tears
      PROVE  /\ AppendText(file, built[p], tear) \in Seq(Line(Record))
             /\ AppendText(anchorFile, IntegrityOf(built[p]), tear) \in Seq(Line(Anchor))
  BY <1>1, <1>3, <1>4, AppendTextEffect
<1> QED
  BY <1>2, <1>3, <1>5 DEF TearLog, TearAnchor

LEMMA SinkInitShapes == Init => LockInv /\ Shapes /\ HeldOnce
<1> SUFFICES ASSUME Init PROVE LockInv /\ Shapes /\ HeldOnce
  OBVIOUS
<1>1. LockInv
  BY LockInitInv DEF Init
<1>2. Shapes
  BY <1>1 DEF Init, LockInit, LockInv, Shapes, TypeOK, Placed
<1>3. HeldOnce
  BY DEF Init, HeldOnce, PendingOf
<1> QED
  BY <1>1, <1>2, <1>3

\* record() settles and its process leaves the lock.
LEMMA SettleShapes ==
    ASSUME LockInv, Shapes, NEW p \in Procs, NEW how \in {"acked", "rejected"}, Settle(p, how),
           lpc' = [lpc EXCEPT ![p] = "out"], LockTypeOK', faults' \in 0 .. MaxFaults
    PROVE  Shapes'
<1>1. lpc \in [Procs -> LockStates] /\ TypeOK /\ Placed
  BY DEF LockInv, LockTypeOK, Shapes
<1>2. /\ step' = [step EXCEPT ![p] = "idle"] /\ current' = [current EXCEPT ![p] = NoEvent]
      /\ built' = [built EXCEPT ![p] = EmptyRecord] /\ result' = [result EXCEPT ![p] = "none"]
      /\ outcome' = [outcome EXCEPT ![current[p]] = how] /\ UNCHANGED <<file, anchorFile, queue, torn>>
  BY DEF Settle
<1>3. outcome' \in [Events -> {"new", "pending", "acked", "rejected"}]
  BY <1>1, <1>2 DEF TypeOK
<1>4. TypeOK'
  BY <1>1, <1>2, <1>3 DEF TypeOK
<1>5. Placed'
  BY <1>1, <1>2 DEF TypeOK, Placed
<1> QED
  BY <1>4, <1>5 DEF Shapes

LEMMA SinkShapes ==
    ASSUME LockInv, Shapes, [Next]_vars
    PROVE  Shapes'
<1> USE DEF Shapes
<1>l. LockTypeOK'
  BY SinkLockStep, LockNextInv DEF LockInv
<1> USE DEF LockGoto, sinkVars, Fault
<1>t. lpc \in [Procs -> LockStates]
  BY DEF LockInv, LockTypeOK
<1>0. CASE UNCHANGED vars
  BY <1>0, <1>l DEF vars, lockVars, TypeOK, Placed
<1>1. ASSUME NEW p \in Procs, NEW e \in Events, Submit(p, e) PROVE Shapes'
  <2>1. Append(queue[p], e) \in Seq(Events)
    BY DEF TypeOK
  <2> QED
    BY <1>1, <1>l, <2>1 DEF Submit, lockVars, TypeOK, Placed
<1>2. ASSUME NEW p \in Procs, Begin(p) PROVE Shapes'
  <2>1. Head(queue[p]) \in Events /\ Tail(queue[p]) \in Seq(Events)
    BY <1>2 DEF Begin, TypeOK
  <2> QED
    BY <1>2, <1>l, <1>t, <2>1 DEF Begin, Request, TypeOK, Placed
<1>3. ASSUME NEW p \in Procs, EnterTransaction(p) PROVE Shapes'
  BY <1>3, <1>l, <1>t DEF EnterTransaction, Enter, TypeOK, Placed
<1>4. ASSUME NEW p \in Procs, WaitForLock(p) PROVE Shapes'
  BY <1>4, <1>l, <1>t DEF WaitForLock, Exists, Stat, Break, BreakFails, Retry, TypeOK, Placed
<1>5. ASSUME NEW p \in Procs, TimePasses(p) PROVE Shapes'
  BY <1>5, <1>l, <1>t DEF TimePasses, DeadlinePasses, TypeOK, Placed
<1>6. ASSUME NEW p \in Procs, LockRefused(p) PROVE Shapes'
  <2>1. Settle(p, "rejected") /\ lpc' = [lpc EXCEPT ![p] = "out"] /\ faults' \in 0 .. MaxFaults
    BY <1>6 DEF LockRefused, GiveUp, OpenFails, TypeOK
  <2> QED
    BY <1>l, <2>1, SettleShapes
<1>7. ASSUME NEW p \in Procs, Read(p) PROVE Shapes'
  <2>1. current[p] \in Events
    BY <1>7 DEF Read, TypeOK, Placed
  <2>2. BuildIntegrityRecord(ReadLastIntegrity, current[p]) \in Record
    BY <2>1, ReadLastType, BuiltRecord
  <2> QED
    BY <1>7, <1>l, <2>2 DEF Read, lockVars, TypeOK, Placed
<1>8. ASSUME NEW p \in Procs, ReadThrows(p) PROVE Shapes'
  BY <1>8, <1>l DEF ReadThrows, Finish, lockVars, TypeOK, Placed
<1>9. ASSUME NEW p \in Procs, Persist(p) PROVE Shapes'
  <2>1. built[p] \in Record /\ file \in Seq(Line(Record)) /\ "line" \in Texts
    BY <1>9 DEF Persist, TypeOK, Placed, Texts
  <2>2. file' \in Seq(Line(Record))
    BY <1>9, <2>1, AppendTextEffect DEF Persist
  <2> QED
    BY <1>9, <1>l, <2>2 DEF Persist, lockVars, TypeOK, Placed
<1>10. ASSUME NEW p \in Procs, PersistFails(p) PROVE Shapes'
  <2>1. file' \in Seq(Line(Record)) /\ torn' \subseteq {"log", "anchor"} \X Tears
    BY <1>10, TearTyped DEF PersistFails, Placed
  <2> QED
    BY <1>10, <1>l, <2>1 DEF PersistFails, Finish, lockVars, TypeOK, Placed
<1>11. ASSUME NEW p \in Procs, WriteAnchor(p) PROVE Shapes'
  <2>1. built[p] \in Record /\ anchorFile \in Seq(Line(Anchor)) /\ "line" \in Texts
    BY <1>11 DEF WriteAnchor, TypeOK, Placed, Texts
  <2>2. AppendText(anchorFile, IntegrityOf(built[p]), "line") \in Seq(Line(Anchor))
    BY <2>1, AppendTextEffect, AnchorOfRecord
  <2> QED
    BY <1>11, <1>l, <2>1, <2>2 DEF WriteAnchor, Finish, lockVars, TypeOK, Placed
<1>12. ASSUME NEW p \in Procs, AnchorFails(p) PROVE Shapes'
  <2>1. anchorFile' \in Seq(Line(Anchor)) /\ torn' \subseteq {"log", "anchor"} \X Tears
    BY <1>12, TearTyped DEF AnchorFails, Placed
  <2> QED
    BY <1>12, <1>l, <2>1 DEF AnchorFails, Finish, lockVars, TypeOK, Placed
<1>13. ASSUME NEW p \in Procs, LeaveTransaction(p) \/ LeaveFails(p) PROVE Shapes'
  <2>1. PICK how \in {"acked", "rejected"} : Settle(p, how)
    BY <1>13 DEF LeaveTransaction, LeaveFails
  <2>2. lpc' = [lpc EXCEPT ![p] = "out"] /\ faults' \in 0 .. MaxFaults
    BY <1>13 DEF LeaveTransaction, LeaveFails, Unlock, UnlockFails, TypeOK
  <2> QED
    BY <1>l, <2>1, <2>2, SettleShapes
<1>14. ASSUME NEW p \in Procs, Crash(p) PROVE Shapes'
  <2>1. /\ file' \in Seq(Line(Record)) /\ anchorFile' \in Seq(Line(Anchor))
        /\ torn' \subseteq {"log", "anchor"} \X Tears
    <3>1. CASE step[p] = "persist"
      BY <1>14, <3>1, TearTyped DEF Crash, TypeOK, Placed
    <3>2. CASE step[p] = "anchor" /\ AnchorDue(p)
      BY <1>14, <3>2, TearTyped DEF Crash, TypeOK, Placed
    <3>3. CASE step[p] # "persist" /\ ~(step[p] = "anchor" /\ AnchorDue(p))
      BY <1>14, <3>3 DEF Crash, TypeOK
    <3> QED
      BY <3>1, <3>2, <3>3
  <2>2. /\ step' = [step EXCEPT ![p] = "idle"] /\ queue' = [queue EXCEPT ![p] = <<>>]
        /\ current' = [current EXCEPT ![p] = NoEvent] /\ built' = [built EXCEPT ![p] = EmptyRecord]
        /\ result' = [result EXCEPT ![p] = "none"] /\ lpc' = [lpc EXCEPT ![p] = "down"]
        /\ faults < MaxFaults /\ faults' = faults + 1
        /\ outcome' = [e \in Events |-> IF e \in PendingOf(p) THEN "rejected" ELSE outcome[e]]
    BY <1>14 DEF Crash, Die
  <2> QED
    BY <1>l, <1>t, <2>1, <2>2 DEF TypeOK, Placed
<1>15. ASSUME NEW p \in Procs, Restart(p) PROVE Shapes'
  BY <1>15, <1>l, <1>t DEF Restart, Revive, TypeOK, Placed
<1>16. ASSUME LockAges PROVE Shapes'
  BY <1>16, <1>l DEF LockAges, Ages, TypeOK, Placed
<1> QED
  BY <1>0, <1>1, <1>2, <1>3, <1>4, <1>5, <1>6, <1>7, <1>8, <1>9, <1>10, <1>11, <1>12, <1>13, <1>14,
     <1>15, <1>16 DEF Next, Step, Failure

-----------------------------------------------------------------------------
\* Every waiting event waits once

LEMMA HeldBy ==
    ASSUME NEW p \in Procs, NEW e
    PROVE  e \in PendingOf(p) <=>
               \/ \E i \in 1 .. Len(queue[p]) : queue[p][i] = e
               \/ e = current[p] /\ e # NoEvent
<1> DEFINE queued == {queue[p][i] : i \in 1 .. Len(queue[p])}
           writing == IF current[p] = NoEvent THEN {} ELSE {current[p]}
<1>1. e \in writing <=> e = current[p] /\ e # NoEvent
  OBVIOUS
<1>2. e \in queued <=> \E i \in 1 .. Len(queue[p]) : queue[p][i] = e
  OBVIOUS
<1>3. PendingOf(p) = queued \cup writing
  BY DEF PendingOf
<1> HIDE DEF queued, writing
<1> QED
  BY <1>1, <1>2, <1>3

LEMMA HeldByAfter ==
    ASSUME NEW p \in Procs, NEW e
    PROVE  e \in PendingOf(p)' <=>
               \/ \E i \in 1 .. Len(queue'[p]) : queue'[p][i] = e
               \/ e = current'[p] /\ e # NoEvent
<1> DEFINE queued == {queue'[p][i] : i \in 1 .. Len(queue'[p])}
           writing == IF current'[p] = NoEvent THEN {} ELSE {current'[p]}
<1>1. e \in writing <=> e = current'[p] /\ e # NoEvent
  OBVIOUS
<1>2. e \in queued <=> \E i \in 1 .. Len(queue'[p]) : queue'[p][i] = e
  OBVIOUS
<1>3. PendingOf(p)' = queued \cup writing
  BY DEF PendingOf
<1> HIDE DEF queued, writing
<1> QED
  BY <1>1, <1>2, <1>3

LEMMA QueuedIsHeld ==
    ASSUME NEW p \in Procs, NEW i \in 1 .. Len(queue[p])
    PROVE  queue[p][i] \in PendingOf(p)
<1> DEFINE e == queue[p][i]
<1>1. \E j \in 1 .. Len(queue[p]) : queue[p][j] = e
  OBVIOUS
<1> HIDE DEF e
<1>2. e \in PendingOf(p)
  BY <1>1, HeldBy
<1> QED
  BY <1>2 DEF e

\* A process lets go of some of its events, whose callers hear something; the
\* others' are left alone.
LEMMA LetGo ==
    ASSUME Shapes, HeldOnce, NEW p \in Procs,
           \A q \in Procs : q # p => queue'[q] = queue[q] /\ current'[q] = current[q],
           current'[p] = NoEvent,
           queue'[p] = queue[p] \/ queue'[p] = <<>>,
           \A e \in Events : outcome'[e] = outcome[e] \/ (e \in PendingOf(p) /\ e \notin PendingOf(p)')
    PROVE  HeldOnce'
<1>1. \A q \in Procs : PendingOf(q)' \subseteq PendingOf(q)
  BY HeldBy, HeldByAfter
<1>2. \A q \in Procs : queue[q] \in Seq(Events)
  BY DEF Shapes, TypeOK
<1>3. \A q \in Procs : PendingOf(q) \subseteq Events
  BY <1>2 DEF PendingOf, Shapes, TypeOK
<1>4. \A q \in Procs : \A e \in PendingOf(q)' : outcome'[e] = "pending"
  <2> SUFFICES ASSUME NEW q \in Procs, NEW e \in PendingOf(q)' PROVE outcome'[e] = "pending"
    OBVIOUS
  <2>1. e \in Events /\ e \in PendingOf(q) /\ outcome[e] = "pending"
    BY <1>1, <1>3 DEF HeldOnce
  <2>2. ~(e \in PendingOf(p) /\ e \notin PendingOf(p)')
    BY <1>1, <2>1 DEF HeldOnce
  <2> QED
    BY <2>1, <2>2
<1>5. \A q \in Procs : \A i \in 1 .. Len(queue'[q]) : queue'[q][i] # current'[q]
  BY <1>2 DEF HeldOnce
<1>6. \A q \in Procs : \A i, j \in 1 .. Len(queue'[q]) : i # j => queue'[q][i] # queue'[q][j]
  BY DEF HeldOnce
<1>7. \A q, r \in Procs : q # r => PendingOf(q)' \cap PendingOf(r)' = {}
  BY <1>1 DEF HeldOnce
<1> QED
  BY <1>4, <1>5, <1>6, <1>7 DEF HeldOnce

LEMMA SettleHeld ==
    ASSUME Shapes, HeldOnce, NEW p \in Procs, NEW how, Settle(p, how)
    PROVE  HeldOnce'
<1>1. /\ queue' = queue /\ current' = [current EXCEPT ![p] = NoEvent]
      /\ outcome' = [outcome EXCEPT ![current[p]] = how]
      /\ DOMAIN current = Procs /\ DOMAIN outcome = Events
  BY DEF Settle, Shapes, TypeOK
<1>2. ASSUME NEW e \in Events, outcome'[e] # outcome[e]
      PROVE  e \in PendingOf(p) /\ e \notin PendingOf(p)'
  <2>1. e = current[p] /\ e # NoEvent
    BY <1>1, <1>2
  <2>2. e \in PendingOf(p)
    BY <2>1, HeldBy
  <2>3. ~\E i \in 1 .. Len(queue[p]) : queue[p][i] = e
    BY <2>1 DEF HeldOnce
  <2> QED
    BY <1>1, <2>1, <2>2, <2>3, HeldByAfter
<1> QED
  BY <1>1, <1>2, LetGo

LEMMA SinkHeldOnce ==
    ASSUME LockInv, Shapes, HeldOnce, [Next]_vars
    PROVE  HeldOnce'
<1>q. queue \in [Procs -> Seq(Events)] /\ current \in [Procs -> Events \cup {NoEvent}]
  BY DEF Shapes, TypeOK
<1>o. DOMAIN outcome = Events
  BY DEF Shapes, TypeOK
<1>0. CASE UNCHANGED <<queue, current, outcome>>
  <2>1. \A p \in Procs : PendingOf(p)' = PendingOf(p)
    BY <1>0 DEF PendingOf
  <2> QED
    BY <1>0, <2>1 DEF HeldOnce
<1>1. ASSUME NEW p \in Procs, NEW e \in Events, Submit(p, e) PROVE HeldOnce'
  <2>1. /\ queue' = [queue EXCEPT ![p] = Append(queue[p], e)] /\ current' = current
        /\ outcome[e] = "new" /\ outcome' = [outcome EXCEPT ![e] = "pending"]
    BY <1>1 DEF Submit
  <2>2. /\ Len(queue'[p]) = Len(queue[p]) + 1 /\ queue'[p][Len(queue[p]) + 1] = e
        /\ \A i \in 1 .. Len(queue[p]) : queue'[p][i] = queue[p][i]
        /\ Len(queue[p]) \in Nat
    BY <1>q, <2>1
  <2>3. \A q \in Procs : e \notin PendingOf(q)
    BY <2>1 DEF HeldOnce
  <2>4. \A q \in Procs : /\ \A i \in 1 .. Len(queue[q]) : queue[q][i] # e
                         /\ current[q] # e
    BY <2>3, HeldBy
  <2>5. \A q \in Procs : q # p => queue'[q] = queue[q] /\ PendingOf(q)' = PendingOf(q)
    BY <1>q, <2>1 DEF PendingOf
  <2>6. PendingOf(p)' \subseteq PendingOf(p) \cup {e}
    BY <2>1, <2>2, HeldBy, HeldByAfter
  <2>7. \A q \in Procs : \A f \in PendingOf(q)' : outcome'[f] = "pending"
    BY <1>o, <2>1, <2>3, <2>5, <2>6 DEF HeldOnce
  <2>8. \A q, r \in Procs : q # r => PendingOf(q)' \cap PendingOf(r)' = {}
    BY <2>3, <2>5, <2>6 DEF HeldOnce
  <2>9. \A q \in Procs : \A i, j \in 1 .. Len(queue'[q]) : i # j => queue'[q][i] # queue'[q][j]
    <3>1. ASSUME NEW i \in 1 .. Len(queue'[p]), NEW j \in 1 .. Len(queue'[p]), i < j
          PROVE  queue'[p][i] # queue'[p][j]
      <4>1. i \in 1 .. Len(queue[p]) /\ queue'[p][i] = queue[p][i]
        BY <2>2, <3>1
      <4>2. CASE j = Len(queue[p]) + 1
        BY <2>2, <2>4, <4>1, <4>2
      <4>3. CASE j \in 1 .. Len(queue[p])
        BY <2>2, <3>1, <4>1, <4>3 DEF HeldOnce
      <4> QED
        BY <2>2, <4>2, <4>3
    <3>2. \A i, j \in 1 .. Len(queue'[p]) : i # j => i < j \/ j < i
      BY <2>2
    <3>3. \A i, j \in 1 .. Len(queue'[p]) : i # j => queue'[p][i] # queue'[p][j]
      BY <3>1, <3>2
    <3> QED
      BY <2>5, <3>3 DEF HeldOnce
  <2>10. \A q \in Procs : \A i \in 1 .. Len(queue'[q]) : queue'[q][i] # current'[q]
    <3>1. \A i \in 1 .. Len(queue'[p]) : queue'[p][i] # current[p]
      BY <2>2, <2>4 DEF HeldOnce
    <3> QED
      BY <2>1, <2>5, <3>1 DEF HeldOnce
  <2> QED
    BY <2>7, <2>8, <2>9, <2>10 DEF HeldOnce
<1>2. ASSUME NEW p \in Procs, Begin(p) PROVE HeldOnce'
  <2>1. /\ queue' = [queue EXCEPT ![p] = Tail(queue[p])] /\ queue[p] # <<>>
        /\ current' = [current EXCEPT ![p] = Head(queue[p])] /\ outcome' = outcome
    BY <1>2 DEF Begin
  <2>2. current[p] = NoEvent
    BY <1>2 DEF Begin, Request, Shapes, Placed
  <2>3. /\ Len(queue[p]) \in Nat /\ Len(queue[p]) > 0 /\ Len(queue'[p]) = Len(queue[p]) - 1
        /\ \A i \in 1 .. Len(queue'[p]) : queue'[p][i] = queue[p][i + 1]
        /\ current'[p] = queue[p][1] /\ queue[p][1] \in Events
    BY <1>q, <2>1
  <2>4. \A q \in Procs : q # p => queue'[q] = queue[q] /\ current'[q] = current[q]
    BY <1>q, <2>1
  <2>5. PendingOf(p)' \subseteq PendingOf(p)
    <3> SUFFICES ASSUME NEW e \in PendingOf(p)' PROVE e \in PendingOf(p)
      OBVIOUS
    <3>1. CASE \E i \in 1 .. Len(queue'[p]) : queue'[p][i] = e
      <4>1. PICK i \in 1 .. Len(queue'[p]) : queue'[p][i] = e
        BY <3>1
      <4>2. i + 1 \in 1 .. Len(queue[p]) /\ queue[p][i + 1] = e
        BY <2>3, <4>1
      <4> QED
        BY <4>2, QueuedIsHeld
    <3>2. CASE e = current'[p]
      <4>1. 1 \in 1 .. Len(queue[p]) /\ queue[p][1] = e
        BY <2>3, <3>2
      <4> QED
        BY <4>1, QueuedIsHeld
    <3> QED
      BY <3>1, <3>2, HeldByAfter
  <2>6. \A q \in Procs : PendingOf(q)' \subseteq PendingOf(q)
    BY <2>4, <2>5, HeldBy, HeldByAfter
  <2>7. \A i, j \in 1 .. Len(queue'[p]) : i # j => queue'[p][i] # queue'[p][j]
    <3> SUFFICES ASSUME NEW i \in 1 .. Len(queue'[p]), NEW j \in 1 .. Len(queue'[p]), i # j
                 PROVE  queue'[p][i] # queue'[p][j]
      OBVIOUS
    <3>1. i + 1 \in 1 .. Len(queue[p]) /\ j + 1 \in 1 .. Len(queue[p]) /\ i + 1 # j + 1
      BY <2>3
    <3> QED
      BY <2>3, <3>1 DEF HeldOnce
  <2>8. \A i \in 1 .. Len(queue'[p]) : queue'[p][i] # current'[p]
    <3> SUFFICES ASSUME NEW i \in 1 .. Len(queue'[p]) PROVE queue'[p][i] # current'[p]
      OBVIOUS
    <3>1. i + 1 \in 1 .. Len(queue[p]) /\ 1 \in 1 .. Len(queue[p]) /\ i + 1 # 1
      BY <2>3
    <3> QED
      BY <2>3, <3>1 DEF HeldOnce
  <2> QED
    BY <2>1, <2>4, <2>6, <2>7, <2>8 DEF HeldOnce
<1>3. ASSUME NEW p \in Procs, LockRefused(p) \/ LeaveTransaction(p) \/ LeaveFails(p) PROVE HeldOnce'
  BY <1>3, SettleHeld DEF LockRefused, LeaveTransaction, LeaveFails
<1>4. ASSUME NEW p \in Procs, Crash(p) PROVE HeldOnce'
  <2>1. /\ queue' = [queue EXCEPT ![p] = <<>>] /\ current' = [current EXCEPT ![p] = NoEvent]
        /\ outcome' = [e \in Events |-> IF e \in PendingOf(p) THEN "rejected" ELSE outcome[e]]
    BY <1>4 DEF Crash
  <2>2. queue'[p] = <<>> /\ current'[p] = NoEvent
    BY <1>q, <2>1
  <2>3. PendingOf(p)' = {}
    BY <2>2 DEF PendingOf
  <2>4. \A q \in Procs : q # p => queue'[q] = queue[q] /\ current'[q] = current[q]
    BY <1>q, <2>1
  <2>5. \A e \in Events : outcome'[e] = outcome[e] \/ (e \in PendingOf(p) /\ e \notin PendingOf(p)')
    BY <2>1, <2>3
  <2> QED
    BY <2>2, <2>4, <2>5, LetGo
<1> QED
  BY <1>0, <1>1, <1>2, <1>3, <1>4
     DEF Next, Step, Failure, vars, sinkVars, EnterTransaction, WaitForLock, TimePasses, Read, ReadThrows,
         Persist, PersistFails, WriteAnchor, AnchorFails, Restart, LockAges

-----------------------------------------------------------------------------
\* The kinds of steps, as the two files see them

Same(q) ==
    step'[q] = step[q] /\ built'[q] = built[q] /\ current'[q] = current[q] /\ result'[q] = result[q]

Others(p) == \A q \in Procs : q # p => Same(q)

Resting(q) ==
    \/ step'[q] \in {"idle", "read"}
    \/ step'[q] = "release" /\ result'[q] = "error"

\* The transaction is over for p, and its caller has got an error or will.
Fails(p) ==
    \/ step'[p] = "idle" /\ outcome'[current[p]] = "rejected"
    \/ /\ step'[p] = "release" /\ result'[p] = "error"
       /\ current'[p] = current[p] /\ built'[p] = built[p]

Quiet ==
    /\ UNCHANGED <<file, anchorFile, torn>>
    /\ \A q \in Procs : Same(q) \/ Resting(q) \/ Read(q)

LogTorn(p, tear) ==
    /\ step[p] = "persist"
    /\ file' = AppendText(file, built[p], tear)
    /\ torn' = torn \cup {<<"log", tear>>}
    /\ anchorFile' = anchorFile
    /\ Fails(p) /\ Others(p)

AnchorTorn(p, tear) ==
    /\ step[p] = "anchor"
    /\ anchorFile' = AppendText(anchorFile, IntegrityOf(built[p]), tear)
    /\ torn' = torn \cup {<<"anchor", tear>>}
    /\ file' = file
    /\ Fails(p) /\ Others(p)

LEMMA SinkKinds ==
    ASSUME Shapes, [Next]_vars
    PROVE  \/ Quiet
           \/ \E p \in Procs : Persist(p) \/ WriteAnchor(p)
           \/ \E p \in Procs, tear \in Tears : LogTorn(p, tear) \/ AnchorTorn(p, tear)
<1> DEFINE Kind == \/ Quiet
                   \/ \E p \in Procs : Persist(p) \/ WriteAnchor(p)
                   \/ \E p \in Procs, tear \in Tears : LogTorn(p, tear) \/ AnchorTorn(p, tear)
<1>t. DOMAIN step = Procs /\ DOMAIN built = Procs /\ DOMAIN current = Procs /\ DOMAIN result = Procs
  BY DEF Shapes, TypeOK
<1>0. CASE UNCHANGED vars
  BY <1>0 DEF vars, sinkVars, Quiet, Same
<1>1. ASSUME NEW p \in Procs, NEW e \in Events, Submit(p, e) PROVE Quiet
  BY <1>1 DEF Submit, Quiet, Same
<1>2. ASSUME NEW p \in Procs, Begin(p) PROVE Quiet
  <2>1. step[p] = "idle"
    BY <1>2 DEF Begin, Request, Shapes, TypeOK, Placed
  <2> QED
    BY <1>t, <1>2, <2>1 DEF Begin, Quiet, Same, Resting
<1>3. ASSUME NEW p \in Procs, EnterTransaction(p) PROVE Quiet
  BY <1>t, <1>3 DEF EnterTransaction, Quiet, Same, Resting
<1>4. ASSUME NEW p \in Procs, WaitForLock(p) \/ TimePasses(p) \/ Restart(p) PROVE Quiet
  BY <1>4 DEF WaitForLock, TimePasses, Restart, sinkVars, Quiet, Same
<1>5. ASSUME LockAges PROVE Quiet
  BY <1>5 DEF LockAges, sinkVars, Quiet, Same
<1>6. ASSUME NEW p \in Procs, LockRefused(p) \/ LeaveTransaction(p) \/ LeaveFails(p) PROVE Quiet
  BY <1>t, <1>6 DEF LockRefused, LeaveTransaction, LeaveFails, Settle, Quiet, Same, Resting
<1>7. ASSUME NEW p \in Procs, Read(p) PROVE Quiet
  BY <1>t, <1>7 DEF Read, Quiet, Same
<1>8. ASSUME NEW p \in Procs, ReadThrows(p) PROVE Quiet
  BY <1>t, <1>8 DEF ReadThrows, Finish, Quiet, Same, Resting
<1>9. ASSUME NEW p \in Procs, PersistFails(p) PROVE \E tear \in Tears : LogTorn(p, tear)
  BY <1>t, <1>9 DEF PersistFails, TearLog, Finish, LogTorn, Fails, Others, Same
<1>10. ASSUME NEW p \in Procs, AnchorFails(p) PROVE \E tear \in Tears : AnchorTorn(p, tear)
  BY <1>t, <1>10 DEF AnchorFails, TearAnchor, Finish, AnchorTorn, Fails, Others, Same
<1>11. ASSUME NEW p \in Procs, Crash(p) PROVE Kind
  <2>1. /\ step' = [step EXCEPT ![p] = "idle"]
        /\ current' = [current EXCEPT ![p] = NoEvent] /\ built' = [built EXCEPT ![p] = EmptyRecord]
        /\ result' = [result EXCEPT ![p] = "none"]
        /\ outcome' = [e \in Events |-> IF e \in PendingOf(p) THEN "rejected" ELSE outcome[e]]
    BY <1>11 DEF Crash
  <2>2. Others(p) /\ step'[p] = "idle"
    BY <1>t, <2>1 DEF Others, Same
  <2>3. ASSUME step[p] # "idle" PROVE Fails(p)
    <3>1. current[p] \in Events /\ current[p] # NoEvent
      BY <2>3 DEF Shapes, TypeOK, Placed
    <3>2. current[p] \in PendingOf(p)
      BY <3>1, HeldBy
    <3> QED
      BY <2>1, <2>2, <3>1, <3>2 DEF Fails
  <2>4. CASE step[p] = "persist"
    <3>1. TearLog(p) /\ UNCHANGED anchorFile
      BY <1>11, <2>4 DEF Crash
    <3> QED
      BY <2>2, <2>3, <2>4, <3>1 DEF TearLog, LogTorn
  <2>5. CASE step[p] = "anchor" /\ AnchorDue(p)
    <3>1. TearAnchor(p) /\ UNCHANGED file
      BY <1>11, <2>5 DEF Crash
    <3> QED
      BY <2>2, <2>3, <2>5, <3>1 DEF TearAnchor, AnchorTorn
  <2>6. CASE step[p] # "persist" /\ ~(step[p] = "anchor" /\ AnchorDue(p))
    <3>1. UNCHANGED <<file, anchorFile, torn>>
      BY <1>11, <2>6 DEF Crash
    <3> QED
      BY <2>2, <3>1 DEF Quiet, Others, Resting
  <2> QED
    BY <2>4, <2>5, <2>6
<1> QED
  BY <1>0, <1>1, <1>2, <1>3, <1>4, <1>5, <1>6, <1>7, <1>8, <1>9, <1>10, <1>11 DEF Next, Step, Failure

-----------------------------------------------------------------------------
\* What callers hear

\* An error is final, and an acknowledgement follows a transaction that went well.
LEMMA Verdicts ==
    ASSUME LockInv, Shapes, HeldOnce, [Next]_vars, NEW e \in Events
    PROVE  /\ outcome[e] = "rejected" => outcome'[e] = "rejected"
           /\ outcome'[e] = "acked" => \/ outcome[e] = "acked"
                                       \/ \E p \in Procs : /\ step[p] = "release" /\ result[p] = "ok"
                                                            /\ current[p] = e
<1>o. DOMAIN outcome = Events
  BY DEF Shapes, TypeOK
<1>p. \A p \in Procs : current[p] # NoEvent => outcome[current[p]] = "pending"
  BY HeldBy DEF HeldOnce
<1>0. CASE outcome' = outcome
  BY <1>0
<1>1. ASSUME NEW p \in Procs, NEW f \in Events, Submit(p, f) PROVE outcome'[e] \in {outcome[e], "pending"} /\ (outcome[e] # "new" => outcome'[e] = outcome[e])
  BY <1>o, <1>1 DEF Submit
<1>2. ASSUME NEW p \in Procs, NEW how, Settle(p, how), lpc[p] \notin {"out", "down"}
      PROVE  \/ outcome'[e] = outcome[e]
             \/ outcome[e] = "pending" /\ outcome'[e] = how /\ e = current[p]
  BY <1>o, <1>p, <1>2 DEF Settle, Shapes, Placed
<1>3. ASSUME NEW p \in Procs, LockRefused(p) PROVE outcome'[e] \in {outcome[e], "rejected"}
  BY <1>2, <1>3 DEF LockRefused, GiveUp, OpenFails
<1>4. ASSUME NEW p \in Procs, LeaveTransaction(p) \/ LeaveFails(p)
      PROVE  \/ outcome'[e] \in {outcome[e], "rejected"}
             \/ /\ outcome[e] = "pending"
                /\ step[p] = "release" /\ result[p] = "ok" /\ current[p] = e
  BY <1>2, <1>4 DEF LeaveTransaction, LeaveFails, Unlock, UnlockFails
<1>5. ASSUME NEW p \in Procs, Crash(p) PROVE outcome'[e] \in {outcome[e], "rejected"}
  BY <1>5 DEF Crash
<1>6. \/ outcome' = outcome
      \/ \E p \in Procs, f \in Events : Submit(p, f)
      \/ \E p \in Procs : LockRefused(p) \/ LeaveTransaction(p) \/ LeaveFails(p) \/ Crash(p)
  BY DEF Next, Step, Failure, vars, sinkVars, Begin, EnterTransaction, WaitForLock, TimePasses, Read,
         ReadThrows, Persist, PersistFails, WriteAnchor, AnchorFails, Restart, LockAges
<1> QED
  BY <1>0, <1>1, <1>3, <1>4, <1>5, <1>6

-----------------------------------------------------------------------------
\* The two files after a write

LEMMA LinesTyped ==
    ASSUME Shapes
    PROVE  /\ file \in Seq(Line(Record)) /\ Len(file) \in Nat
           /\ \A i \in 1 .. Len(file) : /\ file[i].body \in Record
                                         /\ file[i].body.event \in Events
                                         /\ file[i].body.sequence \in Nat
           /\ anchorFile \in Seq(Line(Anchor)) /\ Len(anchorFile) \in Nat
           /\ \A j \in 1 .. Len(anchorFile) : anchorFile[j].body.sequence \in Nat
<1>1. file \in Seq(Line(Record)) /\ anchorFile \in Seq(Line(Anchor))
  BY DEF Shapes, TypeOK
<1>2. /\ \A i \in 1 .. Len(file) : file[i] \in Line(Record)
      /\ \A j \in 1 .. Len(anchorFile) : anchorFile[j] \in Line(Anchor)
  BY <1>1
<1>3. \A i \in 1 .. Len(file) : file[i].body \in Record
  BY <1>2 DEF Line
<1>4. \A r \in Record : r.event \in Events /\ r.sequence \in Nat
  BY DEF Record
<1>5. \A j \in 1 .. Len(anchorFile) : anchorFile[j].body \in Anchor
  BY <1>2 DEF Line
<1>6. \A a \in Anchor : a.sequence \in Nat
  BY DEF Anchor
<1> QED
  BY <1>1, <1>3, <1>4, <1>5, <1>6

LEMMA LogAppend ==
    ASSUME Shapes, NEW p \in Procs, step[p] = "persist", NEW text \in Texts,
           file' = AppendText(file, built[p], text)
    PROVE  \/ text = "none" /\ file' = file
           \/ Spoiled(file, file')
           \/ text # "none" /\ Grown(file, file', built[p], text)
<1>1. file \in Seq(Line(Record)) /\ built[p] \in Record
  BY LinesTyped DEF Shapes, Placed
<1> QED
  BY <1>1, AppendTextEffect

LEMMA AnchorAppend ==
    ASSUME Shapes, NEW p \in Procs, step[p] = "anchor", NEW text \in Texts,
           anchorFile' = AppendText(anchorFile, IntegrityOf(built[p]), text)
    PROVE  \/ text = "none" /\ anchorFile' = anchorFile
           \/ text # "none" /\ Spoiled(anchorFile, anchorFile')
           \/ text # "none" /\ Grown(anchorFile, anchorFile', IntegrityOf(built[p]), text)
<1>1. anchorFile \in Seq(Line(Anchor)) /\ IntegrityOf(built[p]) \in Anchor
  BY LinesTyped, AnchorOfRecord DEF Shapes, Placed
<1> QED
  BY <1>1, AppendTextEffect

\* While the lock is intact, nobody else is in its transaction.
LEMMA OthersIdle ==
    ASSUME LockInv, Shapes, Intact, NEW p \in Procs, step[p] # "idle"
    PROVE  \A q \in Procs : q # p => step[q] = "idle"
BY DEF LockInv, HoldersOwnFile, Intact, Shapes, Placed

\* So after a write only the writer is in its transaction, and moved on in it.
LEMMA WriterAlone ==
    ASSUME LockInv, Shapes, Intact, NEW p \in Procs, step[p] # "idle", Others(p)
    PROVE  \A q \in Procs : step'[q] # "idle" => q = p
BY OthersIdle DEF Others, Same

LEMMA PersistOthers ==
    ASSUME Shapes, NEW p \in Procs, Persist(p) \/ WriteAnchor(p)
    PROVE  /\ Others(p) /\ torn' = torn
           /\ built' = built /\ current' = current
<1>1. DOMAIN step = Procs /\ DOMAIN built = Procs /\ DOMAIN current = Procs /\ DOMAIN result = Procs
  BY DEF Shapes, TypeOK
<1> QED
  BY <1>1 DEF Persist, WriteAnchor, Finish, Others, Same

\* Every write of the log, whole or cut short.
Writes(p, text) ==
    /\ step[p] = "persist"
    /\ file' = AppendText(file, built[p], text)
    /\ anchorFile' = anchorFile
    /\ Others(p)
    /\ step'[p] # "persist"
    /\ \/ text = "line" /\ Persist(p) /\ step'[p] = "anchor"
       \/ text \in Tears /\ LogTorn(p, text) /\ step'[p] # "anchor"

\* Every write of the anchor stream, whole or cut short, or none as none is due.
Anchors(p, text) ==
    /\ step[p] = "anchor"
    /\ file' = file
    /\ anchorFile' = AppendText(anchorFile, IntegrityOf(built[p]), text)
    /\ Others(p)
    /\ step'[p] \notin {"persist", "anchor"}
    /\ \/ text = "line" /\ WriteAnchor(p) /\ AnchorDue(p)
       \/ text = "none" /\ WriteAnchor(p) /\ ~AnchorDue(p)
       \/ text \in Tears /\ AnchorTorn(p, text)

LEMMA SinkWrites ==
    ASSUME Shapes, [Next]_vars
    PROVE  Quiet \/ \E p \in Procs, text \in Texts : Writes(p, text) \/ Anchors(p, text)
<1>t. DOMAIN step = Procs /\ "line" \in Texts /\ "none" \in Texts
  BY DEF Shapes, TypeOK, Texts, Tears
<1>1. ASSUME NEW p \in Procs, Persist(p) PROVE Writes(p, "line")
  BY <1>t, <1>1, PersistOthers DEF Persist, Writes
<1>2. ASSUME NEW p \in Procs, WriteAnchor(p), AnchorDue(p) PROVE Anchors(p, "line")
  BY <1>t, <1>2, PersistOthers DEF WriteAnchor, Finish, Anchors
<1>3. ASSUME NEW p \in Procs, WriteAnchor(p), ~AnchorDue(p) PROVE Anchors(p, "none")
  BY <1>t, <1>3, PersistOthers DEF WriteAnchor, Finish, Anchors, AppendText
<1>4. ASSUME NEW p \in Procs, NEW tear \in Tears, LogTorn(p, tear) PROVE Writes(p, tear)
  BY <1>4 DEF LogTorn, Fails, Writes
<1>5. ASSUME NEW p \in Procs, NEW tear \in Tears, AnchorTorn(p, tear) PROVE Anchors(p, tear)
  BY <1>5 DEF AnchorTorn, Fails, Anchors
<1> QED
  BY <1>t, <1>1, <1>2, <1>3, <1>4, <1>5, SinkKinds DEF Texts

-----------------------------------------------------------------------------
\* The log stays one chain

\* What readLastIntegrity returns is what the next record has to continue.
LEMMA ReadContinues ==
    ASSUME Shapes, LogSound, TailReadable, NEW e \in Events
    PROVE  LET r == BuildIntegrityRecord(ReadLastIntegrity, e)
           IN  r.event = e /\ Continues(file, Len(file), r)
<1> DEFINE r == BuildIntegrityRecord(ReadLastIntegrity, e)
<1>1. ReadLastIntegrity.sequence = Len(file) /\ ReadLastIntegrity.eventHash = LastHash(file, Len(file))
  <2>1. CASE file = <<>>
    BY <2>1 DEF ReadLastIntegrity, NoIntegrity, LastHash
  <2>2. CASE file # <<>>
    <3>1. Len(file) \in 1 .. Len(file) /\ file[Len(file)].json /\ file[Len(file)].body \in Record
      BY <2>2, LinesTyped DEF TailReadable
    <3>2. file[Len(file)].body.sequence = Len(file) - 1 + 1 /\ Len(file) # 0 /\ Len(file) \in Nat
      BY <3>1, LinesTyped DEF LogSound, Continues
    <3> QED
      BY <2>2, <3>1, <3>2, AnchorOfRecord DEF ReadLastIntegrity, LastHash
  <2> QED
    BY <2>1, <2>2
<1>2. ReadLastIntegrity \in Integrity
  BY ReadLastType DEF Shapes
<1>3. /\ r.event = e
      /\ r.sequence = ReadLastIntegrity.sequence + 1
      /\ r.previousHash = ReadLastIntegrity.eventHash
      /\ r.eventHash = Sha256(r.previousHash, r.event, r.sequence)
  BY <1>2, BuiltRecord
<1> HIDE DEF r
<1> QED
  BY <1>1, <1>3 DEF Continues, r

LEMMA LogSoundWrite ==
    ASSUME Shapes, LogSound, BuiltFresh, NEW p \in Procs, NEW text \in Texts, Writes(p, text)
    PROVE  LogSound'
<1>1. /\ TailReadable /\ Continues(file, Len(file), built[p]) /\ Len(file) \in Nat
      /\ \A i \in 1 .. Len(file) : file[i].json
  <2>1. TailReadable /\ Continues(file, Len(file), built[p]) /\ Len(file) \in Nat
    BY LinesTyped DEF BuiltFresh, Writes
  <2>2. \A i \in 1 .. Len(file) : file # <<>>
    BY LinesTyped
  <2> QED
    BY <2>1, <2>2 DEF TailReadable, LogSound
<1>2. CASE file' = file
  BY <1>2 DEF LogSound
<1>3. CASE Spoiled(file, file')
  BY <1>1, <1>3 DEF Spoiled, LogSound, Continues, LastHash
<1>4. CASE Grown(file, file', built[p], text)
  <2>1. \A i \in 1 .. Len(file') : i < Len(file') => file'[i].json /\ file'[i].nl
    BY <1>1, <1>4 DEF Grown, LogSound
  <2>2. \A i \in 0 .. Len(file) : LastHash(file', i) = LastHash(file, i)
    BY <1>1, <1>4 DEF Grown, LastHash
  <2>3. \A i \in 1 .. Len(file) : Continues(file', i - 1, file'[i].body)
    BY <1>1, <1>4, <2>2 DEF Grown, LogSound, Continues
  <2>4. Continues(file', Len(file), file'[Len(file) + 1].body)
    BY <1>1, <1>4, <2>2 DEF Grown, Continues
  <2> QED
    BY <1>1, <1>4, <2>1, <2>3, <2>4 DEF Grown, LogSound
<1> QED
  BY <1>2, <1>3, <1>4, LogAppend DEF Writes

LEMMA LogSoundStep ==
    ASSUME Shapes, LogInv, [Next]_vars
    PROVE  LogSound'
<1>1. CASE Quiet
  BY <1>1 DEF Quiet, LogInv, LogSound
<1>2. ASSUME NEW p \in Procs, NEW text \in Texts, Writes(p, text) PROVE LogSound'
  BY <1>2, LogSoundWrite DEF LogInv
<1>3. ASSUME NEW p \in Procs, NEW text \in Texts, Anchors(p, text) PROVE LogSound'
  BY <1>3 DEF Anchors, LogInv, LogSound
<1> QED
  BY <1>1, <1>2, <1>3, SinkWrites

LEMMA BuiltFreshStep ==
    ASSUME LockInv, Shapes, Intact, LogInv, [Next]_vars
    PROVE  BuiltFresh'
<1> SUFFICES ASSUME NEW q \in Procs, step'[q] = "persist"
             PROVE  /\ TailReadable'
                    /\ built'[q].event = current'[q]
                    /\ Continues(file', Len(file'), built'[q])
  BY DEF BuiltFresh
<1>1. CASE Quiet
  <2>1. file' = file /\ (TailReadable => TailReadable')
    BY <1>1 DEF Quiet, TailReadable
  <2>2. CASE Same(q)
    BY <2>1, <2>2 DEF Same, LogInv, BuiltFresh
  <2>3. CASE Read(q)
    <3>1. /\ TailReadable /\ current'[q] = current[q] /\ current[q] \in Events
          /\ built'[q] = BuildIntegrityRecord(ReadLastIntegrity, current[q])
      BY <2>3 DEF Read, Shapes, TypeOK, Placed
    <3> QED
      BY <2>1, <3>1, ReadContinues DEF LogInv
  <2> QED
    BY <1>1, <2>2, <2>3 DEF Quiet, Resting
<1>2. ASSUME NEW p \in Procs, NEW text \in Texts, Writes(p, text) \/ Anchors(p, text) PROVE FALSE
  BY <1>2, WriterAlone DEF Writes, Anchors
<1> QED
  BY <1>1, <1>2, SinkWrites

LEMMA BuiltWrittenStep ==
    ASSUME LockInv, Shapes, Intact, LogInv, [Next]_vars
    PROVE  BuiltWritten'
<1> SUFFICES ASSUME NEW q \in Procs, step'[q] = "anchor"
             PROVE  /\ file' # <<>>
                    /\ file'[Len(file')].json => file'[Len(file')].body = built'[q]
  BY DEF BuiltWritten
<1>1. CASE Quiet
  <2>1. Same(q)
    BY <1>1 DEF Quiet, Resting, Read, Shapes, TypeOK
  <2> QED
    BY <1>1, <2>1 DEF Quiet, Same, LogInv, BuiltWritten
<1>2. ASSUME NEW p \in Procs, NEW text \in Texts, Anchors(p, text) PROVE FALSE
  BY <1>2, WriterAlone DEF Anchors
<1>3. ASSUME NEW p \in Procs, NEW text \in Texts, Writes(p, text)
      PROVE  /\ file' # <<>>
             /\ file'[Len(file')].json => file'[Len(file')].body = built'[q]
  <2>1. q = p /\ text = "line" /\ built' = built
    BY <1>3, WriterAlone, PersistOthers DEF Writes
  <2>2. Spoiled(file, file') \/ Grown(file, file', built[p], text)
    BY <1>3, <2>1, LogAppend DEF Writes
  <2>3. Len(file) \in Nat
    BY LinesTyped
  <2> QED
    BY <2>1, <2>2, <2>3 DEF Spoiled, Grown
<1> QED
  BY <1>1, <1>2, <1>3, SinkWrites

-----------------------------------------------------------------------------
\* The anchors

\* The record being anchored is the last of a log that is not damaged.
LEMMA AnchoringLast ==
    ASSUME Shapes, LogInv, NEW p \in Procs, step[p] = "anchor"
    PROVE  /\ built[p] \in Record
           /\ IntegrityOf(built[p]).sequence = built[p].sequence
           /\ TailReadable => /\ built[p].sequence = Len(file) /\ Len(file) \in 1 .. Len(file)
                              /\ IntegrityOf(built[p]).eventHash = file[Len(file)].body.eventHash
<1>1. built[p] \in Record
  BY DEF Shapes, Placed
<1>2. ASSUME TailReadable PROVE file[Len(file)].body = built[p] /\ file[Len(file)].json
  BY <1>2 DEF LogInv, BuiltWritten, TailReadable
<1>3. Len(file) \in 1 .. Len(file) /\ Len(file) \in Nat
  BY LinesTyped DEF LogInv, BuiltWritten
<1>4. ASSUME TailReadable PROVE built[p].sequence = Len(file) - 1 + 1
  BY <1>2, <1>3, <1>4 DEF LogInv, LogSound, Continues
<1> QED
  BY <1>1, <1>2, <1>3, <1>4, AnchorOfRecord

\* A log that can be read after a write could be read before it.
LEMMA WriteKeeps ==
    ASSUME Shapes, NEW p \in Procs, NEW text \in Texts, Writes(p, text), TailReadable'
    PROVE  /\ Len(file) <= Len(file')
           /\ \A i \in 1 .. Len(file) : file'[i] = file[i]
<1>1. Len(file) \in Nat
  BY LinesTyped
<1>2. ~Spoiled(file, file')
  <2> SUFFICES ASSUME Spoiled(file, file') PROVE FALSE
    OBVIOUS
  <2>1. Len(file') > 0 /\ ~file'[Len(file')].json
    BY <1>1 DEF Spoiled
  <2> QED
    BY <2>1 DEF TailReadable
<1> QED
  BY <1>1, <1>2, LogAppend DEF Writes, Grown

LEMMA AnchorsOrderedStep ==
    ASSUME LockInv, Shapes, Intact, LogInv, [Next]_vars
    PROVE  AnchorsOrdered'
<1>t. /\ Len(file) \in Nat /\ Len(anchorFile) \in Nat
      /\ \A j \in 1 .. Len(anchorFile) : anchorFile[j].body.sequence \in Nat
  BY LinesTyped
<1>i. AnchorsOrdered
  BY DEF LogInv
<1>1. CASE Quiet
  <2>1. file' = file /\ anchorFile' = anchorFile /\ TailReadable' = TailReadable
    BY <1>1 DEF Quiet, TailReadable
  <2>2. \A q \in Procs : step'[q] = "anchor" => Same(q)
    BY <1>1 DEF Quiet, Resting, Read, Shapes, TypeOK
  <2> QED
    BY <1>i, <2>1, <2>2 DEF AnchorsOrdered, Same
<1>2. ASSUME NEW p \in Procs, NEW text \in Texts, Writes(p, text) PROVE AnchorsOrdered'
  <2>1. /\ anchorFile' = anchorFile
        /\ \A j \in 1 .. Len(anchorFile) : anchorFile[j].body.sequence <= Len(file)
        /\ built[p].sequence = Len(file) + 1
    BY <1>2, <1>i DEF Writes, LogInv, BuiltFresh, AnchorsOrdered, Continues
  <2>2. TailReadable' => Len(file) <= Len(file')
    BY <1>2, WriteKeeps
  <2>3. Len(file') \in Nat
    BY <1>t, <1>2, LogAppend DEF Writes, Spoiled, Grown
  <2>4. TailReadable' => \A j \in 1 .. Len(anchorFile') : anchorFile'[j].body.sequence <= Len(file')
    BY <1>t, <2>1, <2>2, <2>3
  <2>5. ASSUME NEW q \in Procs, step'[q] = "anchor" PROVE built'[q].sequence = Len(file) + 1
    BY <1>2, <2>1, <2>5, WriterAlone, PersistOthers DEF Writes
  <2>6. \A q \in Procs : step'[q] = "anchor" =>
            \A j \in 1 .. Len(anchorFile') : anchorFile'[j].body.sequence < built'[q].sequence
    BY <1>t, <2>1, <2>5
  <2> QED
    BY <1>i, <2>1, <2>4, <2>6 DEF AnchorsOrdered
<1>3. ASSUME NEW p \in Procs, NEW text \in Texts, Anchors(p, text) PROVE AnchorsOrdered'
  <2>1. \A q \in Procs : step'[q] # "anchor"
    BY <1>3, WriterAlone DEF Anchors
  <2>2. file' = file /\ TailReadable' = TailReadable
    BY <1>3 DEF Anchors, TailReadable
  <2>3. /\ IntegrityOf(built[p]).sequence = built[p].sequence
        /\ TailReadable => built[p].sequence = Len(file)
        /\ built[p].sequence \in Nat
    BY <1>3, AnchoringLast DEF Anchors, Record
  <2>4. /\ \A j \in 1 .. Len(anchorFile) : anchorFile[j].body.sequence < built[p].sequence
        /\ TailReadable => \A j \in 1 .. Len(anchorFile) : anchorFile[j].body.sequence <= Len(file)
    BY <1>3, <1>i DEF Anchors, AnchorsOrdered
  <2>5. CASE anchorFile' = anchorFile
    BY <1>i, <2>1, <2>2, <2>5 DEF AnchorsOrdered
  <2>6. CASE Spoiled(anchorFile, anchorFile')
    <3>1. /\ Len(anchorFile') = Len(anchorFile)
          /\ \A j \in 1 .. Len(anchorFile) : anchorFile'[j].body = anchorFile[j].body
      BY <1>t, <2>6 DEF Spoiled
    <3> QED
      BY <1>i, <2>1, <2>2, <3>1 DEF AnchorsOrdered
  <2>7. CASE Grown(anchorFile, anchorFile', IntegrityOf(built[p]), text)
    <3>1. /\ Len(anchorFile') = Len(anchorFile) + 1
          /\ \A j \in 1 .. Len(anchorFile) : anchorFile'[j].body.sequence = anchorFile[j].body.sequence
          /\ anchorFile'[Len(anchorFile) + 1].body.sequence = built[p].sequence
      BY <2>3, <2>7 DEF Grown
    <3>2. \A j, k \in 1 .. Len(anchorFile') :
              j < k => anchorFile'[j].body.sequence < anchorFile'[k].body.sequence
      <4> SUFFICES ASSUME NEW j \in 1 .. Len(anchorFile'), NEW k \in 1 .. Len(anchorFile'), j < k
                   PROVE  anchorFile'[j].body.sequence < anchorFile'[k].body.sequence
        OBVIOUS
      <4>1. j \in 1 .. Len(anchorFile)
        BY <1>t, <3>1
      <4>2. CASE k = Len(anchorFile) + 1
        BY <2>4, <3>1, <4>1, <4>2
      <4>3. CASE k \in 1 .. Len(anchorFile)
        BY <1>i, <3>1, <4>1, <4>3 DEF AnchorsOrdered
      <4>4. k = Len(anchorFile) + 1 \/ k \in 1 .. Len(anchorFile)
        BY <1>t, <3>1
      <4> QED
        BY <4>2, <4>3, <4>4
    <3>3. TailReadable => \A j \in 1 .. Len(anchorFile') : anchorFile'[j].body.sequence <= Len(file)
      BY <1>t, <2>3, <2>4, <3>1
    <3> QED
      BY <2>1, <2>2, <3>2, <3>3 DEF AnchorsOrdered
  <2> QED
    BY <1>3, <2>5, <2>6, <2>7, AnchorAppend DEF Anchors
<1> QED
  BY <1>1, <1>2, <1>3, SinkWrites

LEMMA AnchorsTrueStep ==
    ASSUME LockInv, Shapes, Intact, LogInv, [Next]_vars
    PROVE  AnchorsTrue'
<1>t. /\ Len(file) \in Nat /\ Len(anchorFile) \in Nat
      /\ \A j \in 1 .. Len(anchorFile) : anchorFile[j].body.sequence \in Nat
  BY LinesTyped
<1>i. AnchorsTrue
  BY DEF LogInv
<1>1. CASE Quiet
  BY <1>1, <1>i DEF Quiet, TailReadable, AnchorsTrue
<1>2. ASSUME NEW p \in Procs, NEW text \in Texts, Writes(p, text), TailReadable' PROVE AnchorsTrue'
  <2>1. anchorFile' = anchorFile /\ TailReadable
    BY <1>2 DEF Writes, LogInv, BuiltFresh
  <2>2. Len(file) <= Len(file') /\ \A i \in 1 .. Len(file) : file'[i] = file[i]
    BY <1>2, WriteKeeps
  <2>3. Len(file') \in Nat
    BY <1>2, LogAppend, <1>t DEF Writes, Spoiled, Grown
  <2>4. ASSUME NEW j \in 1 .. Len(anchorFile), anchorFile[j].json
        PROVE  /\ anchorFile[j].body.sequence \in 1 .. Len(file')
               /\ anchorFile[j].body.eventHash = file'[anchorFile[j].body.sequence].body.eventHash
    <3>1. /\ anchorFile[j].body.sequence \in 1 .. Len(file)
          /\ anchorFile[j].body.eventHash = file[anchorFile[j].body.sequence].body.eventHash
      BY <1>i, <2>1, <2>4 DEF AnchorsTrue
    <3> QED
      BY <1>t, <2>2, <2>3, <3>1
  <2> QED
    BY <2>1, <2>4 DEF AnchorsTrue
<1>3. ASSUME NEW p \in Procs, NEW text \in Texts, Anchors(p, text), TailReadable' PROVE AnchorsTrue'
  <2>1. file' = file /\ TailReadable
    BY <1>3 DEF Anchors, TailReadable
  <2>2. /\ IntegrityOf(built[p]).sequence \in 1 .. Len(file)
        /\ IntegrityOf(built[p]).eventHash = file[IntegrityOf(built[p]).sequence].body.eventHash
    BY <1>3, <2>1, AnchoringLast DEF Anchors
  <2>3. \A j \in 1 .. Len(anchorFile) : anchorFile[j].json =>
            /\ anchorFile[j].body.sequence \in 1 .. Len(file)
            /\ anchorFile[j].body.eventHash = file[anchorFile[j].body.sequence].body.eventHash
    BY <1>i, <2>1 DEF AnchorsTrue
  <2>4. CASE anchorFile' = anchorFile
    BY <1>i, <2>1, <2>4 DEF AnchorsTrue
  <2>5. CASE Spoiled(anchorFile, anchorFile')
    BY <1>t, <2>1, <2>3, <2>5 DEF Spoiled, AnchorsTrue
  <2>6. CASE Grown(anchorFile, anchorFile', IntegrityOf(built[p]), text)
    BY <1>t, <2>1, <2>2, <2>3, <2>6 DEF Grown, AnchorsTrue
  <2> QED
    BY <1>3, <2>4, <2>5, <2>6, AnchorAppend DEF Anchors
<1>4. CASE ~TailReadable'
  BY <1>4 DEF AnchorsTrue
<1> QED
  BY <1>1, <1>2, <1>3, <1>4, SinkWrites

-----------------------------------------------------------------------------
\* What acknowledged callers can rely on

\* A line that parses and has its newline is never touched again.
LEMMA ReadableStays ==
    ASSUME Shapes, NEW p \in Procs, NEW text \in Texts, Writes(p, text),
           \A i \in 1 .. Len(file) : file[i].json => file[i].nl, NEW e, Readable(e)
    PROVE  \E i \in 1 .. Len(file') : file'[i].json /\ file'[i].body.event = e
<1>1. PICK i \in 1 .. Len(file) : file[i].json /\ file[i].body.event = e
  BY DEF Readable
<1>2. Len(file) \in Nat
  BY LinesTyped
<1>3. i \in 1 .. Len(file') /\ file'[i] = file[i]
  BY <1>1, <1>2, LogAppend DEF Writes, Spoiled, Grown
<1> QED
  BY <1>1, <1>3

LEMMA WrittenStep ==
    ASSUME LockInv, Shapes, HeldOnce, Intact, LogInv, [Next]_vars
    PROVE  Written'
<1> SUFFICES ASSUME <<"log", "whole">> \notin torn'
             PROVE  /\ \A i \in 1 .. Len(file') : file'[i].json => file'[i].nl
                    /\ \A e \in Events : outcome'[e] = "acked" => Readable(e)'
                    /\ \A q \in Procs : step'[q] = "anchor" \/ (step'[q] = "release" /\ result'[q] = "ok") =>
                           \E i \in 1 .. Len(file') : file'[i].json /\ file'[i].body.event = current'[q]
  BY DEF Written, Readable
<1> DEFINE ReadableAfter(e) == \E i \in 1 .. Len(file') : file'[i].json /\ file'[i].body.event = e
           Done(q) == step'[q] = "anchor" \/ (step'[q] = "release" /\ result'[q] = "ok")
<1>k. /\ Quiet => torn' = torn
      /\ \A p \in Procs, text \in Texts : Writes(p, text) \/ Anchors(p, text) => torn \subseteq torn'
  BY PersistOthers DEF Quiet, Writes, Anchors, LogTorn, AnchorTorn
<1>w. <<"log", "whole">> \notin torn
  BY <1>k, SinkWrites
<1>i. /\ \A i \in 1 .. Len(file) : file[i].json => file[i].nl
      /\ \A e \in Events : outcome[e] = "acked" => Readable(e)
      /\ \A q \in Procs : step[q] = "anchor" \/ (step[q] = "release" /\ result[q] = "ok") => Readable(current[q])
  BY <1>w DEF LogInv, Written
<1>1. \A e : Readable(e) => ReadableAfter(e)
  <2> SUFFICES ASSUME NEW e, Readable(e) PROVE ReadableAfter(e)
    OBVIOUS
  <2>1. CASE file' = file
    BY <2>1 DEF Readable
  <2>2. ASSUME NEW p \in Procs, NEW text \in Texts, Writes(p, text) PROVE ReadableAfter(e)
    BY <1>i, <2>2, ReadableStays
  <2> QED
    BY <2>1, <2>2, SinkWrites DEF Quiet, Anchors
<1>2. \A e \in Events : outcome'[e] = "acked" => Readable(e)
  BY <1>i, Verdicts
<1>3. \A i \in 1 .. Len(file') : file'[i].json => file'[i].nl
  <2>1. CASE file' = file
    BY <1>i, <2>1
  <2>2. ASSUME NEW p \in Procs, NEW text \in Texts, Writes(p, text)
        PROVE  \A i \in 1 .. Len(file') : file'[i].json => file'[i].nl
    <3>1. text # "whole"
      BY <2>2 DEF Writes, LogTorn
    <3>2. text # "none" => text = "line" \/ text = "partial"
      BY <3>1 DEF Texts, Tears
    <3>3. Len(file) \in Nat
      BY LinesTyped
    <3> QED
      BY <1>i, <2>2, <3>2, <3>3, LogAppend DEF Writes, Spoiled, Grown
  <2> QED
    BY <2>1, <2>2, SinkWrites DEF Quiet, Anchors
<1>4. \A q \in Procs : Done(q) => ReadableAfter(current'[q])
  <2> SUFFICES ASSUME NEW q \in Procs, Done(q) PROVE ReadableAfter(current'[q])
    OBVIOUS
  <2>1. CASE Same(q)
    BY <1>1, <1>i, <2>1 DEF Same
  <2>2. CASE Quiet
    BY <2>1, <2>2 DEF Quiet, Resting, Read, Shapes, TypeOK
  <2>3. ASSUME NEW p \in Procs, NEW text \in Texts, Anchors(p, text) PROVE ReadableAfter(current'[q])
    <3>1. CASE q # p
      BY <2>1, <2>3, <3>1 DEF Anchors, Others
    <3>2. CASE q = p
      <4>1. WriteAnchor(p)
        BY <2>3, <3>2 DEF Anchors, AnchorTorn, Fails
      <4>2. current' = current /\ step[p] = "anchor"
        BY <2>3, <4>1, PersistOthers DEF Anchors
      <4> QED
        BY <1>1, <1>i, <3>2, <4>2
    <3> QED
      BY <3>1, <3>2
  <2>4. ASSUME NEW p \in Procs, NEW text \in Texts, Writes(p, text) PROVE ReadableAfter(current'[q])
    <3>1. CASE q # p
      BY <2>1, <2>4, <3>1 DEF Writes, Others
    <3>2. CASE q = p
      <4>1. Persist(p) /\ text = "line"
        BY <2>4, <3>2 DEF Writes, LogTorn, Fails
      <4>2. current' = current /\ built[p].event = current[p] /\ TailReadable /\ Len(file) \in Nat
        BY <2>4, <4>1, PersistOthers, LinesTyped DEF Writes, LogInv, BuiltFresh
      <4>3. ~Spoiled(file, file')
        BY <1>i, <4>2 DEF Spoiled, TailReadable
      <4>4. Grown(file, file', built[p], text)
        BY <2>4, <4>1, <4>3, LogAppend DEF Writes
      <4>5. Len(file) + 1 \in 1 .. Len(file') /\ file'[Len(file) + 1].json
            /\ file'[Len(file) + 1].body.event = current'[q]
        BY <3>2, <4>1, <4>2, <4>4 DEF Grown
      <4> QED
        BY <4>5
    <3> QED
      BY <3>1, <3>2
  <2> QED
    BY <2>2, <2>3, <2>4, SinkWrites
<1> QED
  BY <1>1, <1>2, <1>3, <1>4 DEF Readable

\* A record that was due an anchor stays anchored, or its caller gets an error.
LEMMA OwedKept ==
    ASSUME LockInv, Shapes, HeldOnce, Quiet, [Next]_vars, NEW p \in Procs, NEW i \in 1 .. Len(file),
           Unanchored(p, i)
    PROVE  Unanchored(p, i)' \/ outcome'[file[i].body.event] = "rejected"
<1>1. CASE Same(p)
  BY <1>1 DEF Quiet, Same, Unanchored
<1>2. CASE ~Same(p)
  <2>0. current[p] \in Events /\ file[i].body.event = current[p] /\ file' = file
    BY LinesTyped DEF Unanchored, Quiet
  <2>t. DOMAIN step = Procs /\ DOMAIN built = Procs /\ DOMAIN current = Procs /\ DOMAIN result = Procs
        /\ DOMAIN outcome = Events
    BY DEF Shapes, TypeOK
  <2>1. LeaveTransaction(p) \/ LeaveFails(p) \/ Crash(p) \/ WriteAnchor(p) \/ AnchorFails(p)
    <3>1. lpc[p] = "in" /\ step[p] \in {"anchor", "release"}
      BY DEF Unanchored, Shapes, Placed
    <3>2. ~UNCHANGED <<step, built, current, result>>
      BY <1>2 DEF Same
    <3>3. ASSUME NEW q \in Procs,
                 \/ Begin(q) \/ EnterTransaction(q) \/ LockRefused(q) \/ Read(q) \/ ReadThrows(q)
                 \/ Persist(q) \/ PersistFails(q)
          PROVE  FALSE
      <4>1. q = p
        BY <1>2, <2>t, <3>3 DEF Same, Begin, EnterTransaction, LockRefused, Settle, Read, ReadThrows, Finish,
                                Persist, PersistFails
      <4> QED
        BY <3>1, <3>3, <4>1 DEF Begin, Request, EnterTransaction, Enter, LockRefused, GiveUp, OpenFails,
                                Read, ReadThrows, Persist, PersistFails
    <3>4. ASSUME NEW q \in Procs, LeaveTransaction(q) \/ LeaveFails(q) \/ WriteAnchor(q) \/ AnchorFails(q)
          PROVE  q = p
      BY <1>2, <2>t, <3>4 DEF Same, LeaveTransaction, LeaveFails, Settle, WriteAnchor, AnchorFails, Finish
    <3>5. ASSUME NEW q \in Procs, Crash(q) PROVE q = p
      <4>1. /\ step' = [step EXCEPT ![q] = "idle"] /\ current' = [current EXCEPT ![q] = NoEvent]
            /\ built' = [built EXCEPT ![q] = EmptyRecord] /\ result' = [result EXCEPT ![q] = "none"]
        BY <3>5 DEF Crash
      <4> QED
        BY <1>2, <2>t, <4>1 DEF Same
    <3> QED
      BY <3>2, <3>3, <3>4, <3>5 DEF Next, Step, Failure, vars, sinkVars, Submit, WaitForLock, TimePasses,
                                    Restart, LockAges
  <2>2. CASE LeaveTransaction(p) \/ LeaveFails(p)
    BY <2>t, <2>0, <2>2 DEF LeaveTransaction, LeaveFails, Settle, Unanchored
  <2>3. CASE Crash(p)
    <3>1. current[p] \in PendingOf(p)
      BY <2>0, HeldBy
    <3> QED
      BY <2>0, <2>3, <3>1 DEF Crash
  <2>4. CASE WriteAnchor(p)
    <3>1. step'[p] = "release" /\ result'[p] = "ok" /\ step[p] = "anchor"
      BY <2>t, <2>4 DEF WriteAnchor, Finish
    <3> QED
      BY <1>2, <3>1 DEF Quiet, Resting, Read
  <2>5. CASE AnchorFails(p)
    <3>1. /\ step'[p] = "release" /\ result'[p] = "error"
          /\ current' = current /\ built' = built
      BY <2>t, <2>5 DEF AnchorFails, Finish
    <3> QED
      BY <2>0, <3>1 DEF Unanchored
  <2> QED
    BY <2>1, <2>2, <2>3, <2>4, <2>5
<1> QED
  BY <1>1, <1>2

LEMMA AnchorsOwedStep ==
    ASSUME LockInv, Shapes, HeldOnce, Intact, LogInv, [Next]_vars
    PROVE  AnchorsOwed'
<1> SUFFICES ASSUME AnchorsWhole'
             PROVE  /\ \A j \in 1 .. Len(anchorFile') : anchorFile'[j].json /\ anchorFile'[j].nl
                    /\ \A i \in 1 .. Len(file') :
                           file'[i].json /\ i % EveryRecords = 0 /\ ~Anchored(i)' =>
                               \/ outcome'[file'[i].body.event] = "rejected"
                               \/ \E q \in Procs : Unanchored(q, i)'
  BY DEF AnchorsOwed
<1> DEFINE Owed(i) == \/ outcome'[file'[i].body.event] = "rejected"
                      \/ \E q \in Procs : Unanchored(q, i)'
<1>k. /\ Quiet => torn' = torn
      /\ \A p \in Procs, text \in Texts : Writes(p, text) \/ Anchors(p, text) => torn \subseteq torn'
  BY PersistOthers DEF Quiet, Writes, Anchors, LogTorn, AnchorTorn
<1>w. AnchorsWhole
  BY <1>k, SinkWrites DEF AnchorsWhole
<1>i. /\ \A j \in 1 .. Len(anchorFile) : anchorFile[j].json /\ anchorFile[j].nl
      /\ \A i \in 1 .. Len(file) : file[i].json /\ i % EveryRecords = 0 /\ ~Anchored(i) =>
             \/ outcome[file[i].body.event] = "rejected"
             \/ \E p \in Procs : Unanchored(p, i)
  BY <1>w DEF LogInv, AnchorsOwed
<1>t. Len(file) \in Nat /\ Len(anchorFile) \in Nat
  BY LinesTyped
<1>r. \A i \in 1 .. Len(file) : outcome[file[i].body.event] = "rejected" =>
          outcome'[file[i].body.event] = "rejected"
  BY Verdicts, LinesTyped
<1>1. CASE Quiet
  <2>1. UNCHANGED <<file, anchorFile>>
    BY <1>1 DEF Quiet
  <2>2. \A i : Anchored(i)' <=> Anchored(i)
    BY <2>1 DEF Anchored
  <2>3. ASSUME NEW i \in 1 .. Len(file), file[i].json, i % EveryRecords = 0, ~Anchored(i)' PROVE Owed(i)
    BY <1>1, <1>i, <1>r, <2>1, <2>2, <2>3, OwedKept
  <2> QED
    BY <1>i, <2>1, <2>3
<1>2. ASSUME NEW p \in Procs, NEW text \in Texts, Writes(p, text)
      PROVE  /\ anchorFile' = anchorFile
             /\ \A i \in 1 .. Len(file') :
                    file'[i].json /\ i % EveryRecords = 0 /\ ~Anchored(i)' => Owed(i)
  <2>1. anchorFile' = anchorFile /\ \A i : Anchored(i)' <=> Anchored(i)
    BY <1>2 DEF Writes, Anchored
  <2>2. ASSUME NEW i \in 1 .. Len(file'), file'[i].json, i % EveryRecords = 0, ~Anchored(i)' PROVE Owed(i)
    <3>1. CASE i \in 1 .. Len(file) /\ file'[i] = file[i]
      <4>1. CASE outcome[file[i].body.event] = "rejected"
        BY <1>r, <3>1, <4>1
      <4>2. ASSUME NEW q \in Procs, Unanchored(q, i) PROVE Unanchored(q, i)'
        <5>1. q # p
          BY <1>2, <4>2 DEF Writes, Unanchored
        <5> QED
          BY <1>2, <3>1, <4>2, <5>1 DEF Writes, Others, Same, Unanchored
      <4> QED
        BY <1>i, <2>1, <2>2, <3>1, <4>1, <4>2
    <3>2. CASE Grown(file, file', built[p], text) /\ i = Len(file) + 1
      <4>1. /\ file'[i].body = built[p] /\ built[p].event = current[p] /\ built[p].sequence = i
        BY <1>2, <3>2 DEF Grown, Writes, LogInv, BuiltFresh, Continues
      <4>2. CASE text = "line" /\ Persist(p) /\ step'[p] = "anchor"
        BY <4>1, <4>2, PersistOthers DEF Unanchored
      <4>3. CASE LogTorn(p, text)
        BY <4>1, <4>3 DEF LogTorn, Fails, Unanchored
      <4> QED
        BY <1>2, <4>2, <4>3 DEF Writes
    <3>3. \/ i \in 1 .. Len(file) /\ file'[i] = file[i]
          \/ Grown(file, file', built[p], text) /\ i = Len(file) + 1
      <4>1. CASE file' = file
        BY <4>1
      <4>2. CASE Spoiled(file, file')
        BY <1>t, <2>2, <4>2 DEF Spoiled
      <4>3. CASE Grown(file, file', built[p], text)
        BY <1>t, <4>3 DEF Grown
      <4> QED
        BY <1>2, <4>1, <4>2, <4>3, LogAppend DEF Writes
    <3> QED
      BY <3>1, <3>2, <3>3
  <2> QED
    BY <2>1, <2>2
<1>3. ASSUME NEW p \in Procs, NEW text \in Texts, Anchors(p, text)
      PROVE  /\ \A j \in 1 .. Len(anchorFile') : anchorFile'[j].json /\ anchorFile'[j].nl
             /\ \A i \in 1 .. Len(file') :
                    file'[i].json /\ i % EveryRecords = 0 /\ ~Anchored(i)' => Owed(i)
  <2>1. text = "none" \/ text = "line"
    BY <1>3 DEF Anchors, AnchorTorn, AnchorsWhole, Tears
  <2>2. \/ text = "none" /\ anchorFile' = anchorFile
        \/ text = "line" /\ Grown(anchorFile, anchorFile', IntegrityOf(built[p]), text)
    <3>1. ~Spoiled(anchorFile, anchorFile')
      BY <1>i, <1>t DEF Spoiled
    <3> QED
      BY <1>3, <2>1, <3>1, AnchorAppend DEF Anchors
  <2>3. \A j \in 1 .. Len(anchorFile') : anchorFile'[j].json /\ anchorFile'[j].nl
    BY <1>i, <1>t, <2>2 DEF Grown
  <2>4. \A i : Anchored(i) => Anchored(i)'
    BY <1>t, <2>2 DEF Anchored, Grown
  <2>5. ASSUME NEW i \in 1 .. Len(file), file[i].json, i % EveryRecords = 0, ~Anchored(i)' PROVE Owed(i)
    <3>0. file' = file
      BY <1>3 DEF Anchors
    <3>1. CASE outcome[file[i].body.event] = "rejected"
      BY <1>r, <3>0, <3>1
    <3>2. ASSUME NEW q \in Procs, Unanchored(q, i), q # p PROVE Owed(i)
      BY <1>3, <3>0, <3>2 DEF Anchors, Others, Same, Unanchored
    <3>3. ASSUME Unanchored(p, i) PROVE Owed(i)
      <4>1. built[p].sequence = i /\ current[p] = file[i].body.event /\ AnchorDue(p)
        BY <2>5, <3>3 DEF Unanchored, AnchorDue
      <4>2. text # "line"
        <5> SUFFICES ASSUME text = "line" PROVE FALSE
          OBVIOUS
        <5>1. /\ Len(anchorFile) + 1 \in 1 .. Len(anchorFile')
              /\ anchorFile'[Len(anchorFile) + 1].body = IntegrityOf(built[p])
          BY <1>t, <2>2 DEF Grown
        <5>2. IntegrityOf(built[p]).sequence = i
          BY <1>3, <4>1, AnchoringLast DEF Anchors
        <5> QED
          BY <2>5, <5>1, <5>2 DEF Anchored
      <4>3. AnchorTorn(p, text)
        BY <1>3, <4>1, <4>2 DEF Anchors
      <4> QED
        BY <3>0, <4>1, <4>3 DEF AnchorTorn, Fails, Unanchored
    <3> QED
      BY <1>i, <2>4, <2>5, <3>1, <3>2, <3>3
  <2> QED
    BY <1>3, <2>3, <2>5 DEF Anchors
<1> QED
  BY <1>i, <1>1, <1>2, <1>3, SinkWrites

-----------------------------------------------------------------------------
\* The theorems

LEMMA SinkInitInv == Init => SinkInv
<1> SUFFICES ASSUME Init PROVE SinkInv
  OBVIOUS
<1>1. LockInv /\ Shapes /\ HeldOnce
  BY SinkInitShapes
<1>2. file = <<>> /\ anchorFile = <<>> /\ \A p \in Procs : step[p] = "idle"
  BY DEF Init
<1>3. \A e \in Events : outcome[e] = "new"
  BY DEF Init
<1>4. LogInv
  BY <1>2, <1>3 DEF LogInv, LogSound, BuiltFresh, BuiltWritten, AnchorsOrdered, AnchorsTrue, AnchorsOwed,
                    Written
<1> QED
  BY <1>1, <1>4 DEF SinkInv

LEMMA SinkInvStep == SinkInv /\ [Next]_vars => SinkInv'
<1> SUFFICES ASSUME SinkInv, [Next]_vars PROVE SinkInv'
  OBVIOUS
<1>1. LockInv /\ Shapes /\ HeldOnce
  BY DEF SinkInv
<1>2. LockInv' /\ Shapes' /\ HeldOnce' /\ (Intact' => Intact)
  BY <1>1, SinkLockStep, LockNextInv, IntactBefore, SinkShapes, SinkHeldOnce
<1>3. ASSUME Intact' PROVE LogInv'
  <2>1. Intact /\ LogInv
    BY <1>2, <1>3 DEF SinkInv
  <2>2. LogSound' /\ BuiltFresh' /\ BuiltWritten'
    BY <1>1, <2>1, LogSoundStep, BuiltFreshStep, BuiltWrittenStep
  <2>3. AnchorsOrdered' /\ AnchorsTrue' /\ AnchorsOwed'
    BY <1>1, <2>1, AnchorsOrderedStep, AnchorsTrueStep, AnchorsOwedStep
  <2>4. Written'
    BY <1>1, <2>1, WrittenStep
  <2> QED
    BY <2>2, <2>3, <2>4 DEF LogInv
<1> QED
  BY <1>2, <1>3 DEF SinkInv

LEMMA SinkInvariant == Spec => []SinkInv
BY SinkInitInv, SinkInvStep, PTL DEF Spec

\* Every variable of the audit sink keeps its type.
THEOREM SinkTyped == Spec => []TypeOK
<1>1. SinkInv => TypeOK
  BY DEF SinkInv, Shapes
<1> QED
  BY <1>1, SinkInvariant, PTL

\* The sound part of the log is a chain, record by record.
LEMMA SoundPrefix ==
    ASSUME Shapes, LogSound, NEW n \in Nat, n <= Len(file), \A i \in 1 .. n : file[i].json
    PROVE  LinearChain(SubSeq(Records, 1, n))
<1> DEFINE prefix == SubSeq(Records, 1, n)
<1>1. Len(file) \in Nat
  BY LinesTyped
<1>2. Records \in Seq(Record) /\ Len(Records) = Len(file)
  BY <1>1, LinesTyped DEF Records
<1>3. Len(prefix) = n /\ \A i \in 1 .. n : prefix[i] = file[i].body
  BY <1>1, <1>2 DEF Records
<1> HIDE DEF prefix
<1>4. ASSUME NEW i \in 1 .. n PROVE RecordAccepted(prefix, {}, i)
  <2>1. Continues(file, i - 1, file[i].body) /\ prefix[i] = file[i].body
    BY <1>1, <1>3 DEF LogSound
  <2>2. LastHash(file, i - 1) = ExpectedPreviousHash(prefix, i)
    BY <1>1, <1>3 DEF LastHash, ExpectedPreviousHash
  <2>3. i - 1 + 1 = i
    OBVIOUS
  <2> QED
    BY <2>1, <2>2, <2>3 DEF Continues, RecordAccepted
<1> QED
  BY <1>3, <1>4 DEF LinearChain, prefix

\* While the lock is intact, at most the very last line of the log is damaged
\* and all before it is one chain: whatever crashes and torn writes happened,
\* nothing was ever chained past the damage.
THEOREM DamageStaysAtTail == Spec => []DamageOnlyAtTail
<1>1. SinkInv => DamageOnlyAtTail
  <2> SUFFICES ASSUME SinkInv, Intact PROVE DamageOnlyAtTail
    BY DEF DamageOnlyAtTail
  <2> DEFINE n == Len(file)
             sound == IF n > 0 /\ ~file[n].json THEN n - 1 ELSE n
  <2>1. Shapes /\ LogSound /\ n \in Nat
    BY LinesTyped DEF SinkInv, LogInv
  <2>2. sound \in Nat /\ sound <= n /\ \A i \in 1 .. sound : i < n \/ (i = n /\ file[n].json)
    BY <2>1
  <2>3. \A i \in 1 .. sound : file[i].json
    BY <2>1, <2>2 DEF LogSound
  <2>4. LinearChain(SubSeq(Records, 1, sound))
    BY <2>1, <2>2, <2>3, SoundPrefix
  <2> QED
    BY <2>3, <2>4 DEF DamageOnlyAtTail
<1> QED
  BY <1>1, SinkInvariant, PTL

\* While the lock is intact and no write has lost only its newline, an event
\* whose record() resolved is in the log, on a line that parses.
THEOREM AckedStaysReadable == Spec => []AckedReadable
<1>1. SinkInv => AckedReadable
  BY DEF SinkInv, LogInv, Written, Readable, AckedReadable
<1> QED
  BY <1>1, SinkInvariant, PTL

\* While the lock is intact, verifyAuditChain accepts every log that parses,
\* whatever was lost between a record and its anchor.
THEOREM NoFalseAlarms == Spec => []NoFalseAlarm
<1>1. SinkInv => NoFalseAlarm
  <2> SUFFICES ASSUME SinkInv, Intact, AllParse
               PROVE  VerifyAuditChain(Records, ReadAnchors(anchorFile))
    BY DEF NoFalseAlarm
  <2>1. Shapes /\ LogSound /\ AnchorsTrue /\ Len(file) \in Nat
    BY LinesTyped DEF SinkInv, LogInv
  <2>2. TailReadable
    BY <2>1, LinesTyped DEF AllParse, TailReadable
  <2>3. Records \in Seq(Record) /\ Len(Records) = Len(file)
    BY <2>1, LinesTyped DEF Records
  <2>4. SubSeq(Records, 1, Len(file)) = Records
    BY <2>1, <2>3
  <2>5. LinearChain(Records)
    <3>1. Len(file) <= Len(file) /\ \A i \in 1 .. Len(file) : file[i].json
      BY <2>1 DEF AllParse
    <3>2. LinearChain(SubSeq(Records, 1, Len(file)))
      BY <2>1, <3>1, SoundPrefix
    <3> QED
      BY <2>4, <3>2
  <2>6. ASSUME NEW a \in ReadAnchors(anchorFile)
        PROVE  a.sequence \in 1 .. Len(file) /\ a.eventHash = file[a.sequence].body.eventHash
    <3>1. PICK j \in 1 .. Len(anchorFile) : anchorFile[j].json /\ a = anchorFile[j].body
      BY DEF ReadAnchors
    <3> QED
      BY <2>1, <2>2, <3>1 DEF AnchorsTrue
  <2>7. \A i \in 1 .. Len(Records) : RecordAccepted(Records, ReadAnchors(anchorFile), i)
    <3> SUFFICES ASSUME NEW i \in 1 .. Len(Records)
                 PROVE  RecordAccepted(Records, ReadAnchors(anchorFile), i)
      OBVIOUS
    <3>1. RecordAccepted(Records, {}, i)
      BY <2>5 DEF LinearChain
    <3>2. Records[i] = file[i].body
      BY <2>3 DEF Records
    <3>3. \A a \in ReadAnchors(anchorFile) : a.sequence = i => a.eventHash = Records[i].eventHash
      BY <2>6, <3>2
    <3> QED
      BY <3>1, <3>3 DEF RecordAccepted
  <2>8. \A a \in ReadAnchors(anchorFile) : a.sequence <= Len(Records)
    BY <2>1, <2>3, <2>6
  <2> QED
    BY <2>7, <2>8 DEF VerifyAuditChain
<1> QED
  BY <1>1, SinkInvariant, PTL

\* While the lock is intact and no anchor line was cut short, verifyAuditChain
\* rejects the log cut anywhere before an acknowledged record that was due an
\* anchor.
THEOREM TruncationIsCaught == Spec => []TruncationCaught
<1>1. SinkInv => TruncationCaught
  <2> SUFFICES ASSUME SinkInv, Intact, AnchorsWhole, NEW i \in 1 .. Len(file), file[i].json,
                      outcome[file[i].body.event] = "acked", i % EveryRecords = 0,
                      NEW k \in 0 .. i - 1
               PROVE  ~VerifyAuditChain(SubSeq(Records, 1, k), ReadAnchors(anchorFile))
    BY DEF TruncationCaught, AnchorsWhole
  <2>1. /\ Shapes /\ AnchorsOrdered /\ AnchorsOwed /\ HeldOnce
        /\ Len(file) \in Nat /\ Len(anchorFile) \in Nat
    BY LinesTyped DEF SinkInv, LogInv
  <2>2. Anchored(i)
    <3> SUFFICES ASSUME ~Anchored(i) PROVE FALSE
      OBVIOUS
    <3>1. PICK p \in Procs : Unanchored(p, i)
      BY <2>1 DEF AnchorsOwed
    <3>2. file[i].body.event \in Events /\ current[p] = file[i].body.event
      BY <2>1, <3>1, LinesTyped DEF Unanchored
    <3>3. current[p] \in PendingOf(p)
      BY <3>2, HeldBy
    <3> QED
      BY <2>1, <3>2, <3>3 DEF HeldOnce
  <2>3. PICK j \in 1 .. Len(anchorFile) : anchorFile[j].body.sequence = i
    BY <2>2 DEF Anchored
  <2>4. /\ anchorFile[j].json
        /\ \A m \in j + 1 .. Len(anchorFile) :
               anchorFile[m].json => anchorFile[m].body.sequence # anchorFile[j].body.sequence
    <3>1. anchorFile[j].json
      BY <2>1 DEF AnchorsOwed
    <3>2. ASSUME NEW m \in j + 1 .. Len(anchorFile)
          PROVE  anchorFile[m].body.sequence # anchorFile[j].body.sequence
      <4>1. m \in 1 .. Len(anchorFile) /\ j < m
        BY <2>1
      <4>2. anchorFile[j].body.sequence < anchorFile[m].body.sequence
        BY <2>1, <4>1 DEF AnchorsOrdered
      <4>3. anchorFile[j].body.sequence \in Nat /\ anchorFile[m].body.sequence \in Nat
        BY <2>1, <4>1, LinesTyped
      <4> QED
        BY <4>2, <4>3
    <3> QED
      BY <3>1, <3>2
  <2>5. anchorFile[j].body \in ReadAnchors(anchorFile)
    BY <2>4 DEF ReadAnchors
  <2>6. Len(SubSeq(Records, 1, k)) = k
    <3>1. Records \in Seq(Record) /\ Len(Records) = Len(file)
      BY <2>1, LinesTyped DEF Records
    <3> QED
      BY <2>1, <3>1
  <2>7. ~(anchorFile[j].body.sequence <= Len(SubSeq(Records, 1, k)))
    BY <2>3, <2>6
  <2> QED
    BY <2>5, <2>7 DEF VerifyAuditChain
<1> QED
  BY <1>1, SinkInvariant, PTL
=============================================================================
