---------------------------- MODULE GatewayProofs ---------------------------
(***************************************************************************)
(* For any number of requests and any configurations: the gateway's type   *)
(* invariant, its in-flight count, and what is recorded before a request   *)
(* is forwarded and before a client is answered.                           *)
(***************************************************************************)
EXTENDS Gateway, FiniteSetTheorems, TLAPS

\* What a handler must have recorded to write `answer', whose request went
\* upstream as `up'.
MayAnswer(answer, records, up, c) ==
    /\ answer = "denied" =>
           records \cap (Denials \cup {"request", "response", "response_blocked"}) # {}
    /\ answer \in {"raw", "partRaw"} =>
           \/ records \cap {"pass_through", "response_allowed"} # {}
           \/ c.responses = "off" /\ answer = "raw" /\ up = "protected"
    /\ answer = "partProtected" => "request" \in records
    /\ answer = "protected" =>
           "request" \in records /\ records \cap {"response", "stream_inspected", "stream_blocked"} # {}

\* What is known of the handler `q' of one request under configuration `c':
\* the two recording promises, and the facts about earlier awaits they need.
Recorded(q, c) ==
    /\ q.pc = "idle" => ~q.counted
    /\ q.pc = "protect" => q.todo # "pass_through"
    /\ q.pc = "fetch" /\ q.todo = "pass_through" => "pass_through" \in q.audit
    /\ q.pc = "fetch" /\ q.todo # "pass_through" => q.up = "protected"
    /\ q.pc \in {"respond", "protectResponse", "stream"} => q.up = "protected"
    /\ q.pc = "record" /\ q.todo \in {"stream_inspected", "stream_blocked"} => q.up = "protected"
    /\ q.pc \in Piping => "pass_through" \in q.audit
    /\ q.up = "protected" => "request" \in q.audit
    /\ q.up = "raw" => "pass_through" \in q.audit
    /\ MayAnswer(q.out, q.audit, q.up, c)

Typed ==
    /\ config \in Configs
    /\ socket \in [Requests -> {"none", "open", "left", "cut"}]
    /\ req \in [Requests -> Request]
    /\ server \in {"listening", "closing", "closed", "crashed"}
    /\ grace \in {"off", "armed", "elapsed"}

\* The inductive invariant.
Inv ==
    /\ Typed
    /\ InFlightExact
    /\ \A r \in Requests : Recorded(req[r], config)

\* The count of the counted requests that are at work is a natural number.
LEMMA CountIsNat == Cardinality(InHandler) \in Nat /\ IsFiniteSet(InHandler)
  <1>1. InHandler \subseteq Requests
    BY DEF InHandler
  <1>2. IsFiniteSet(InHandler)
    BY <1>1, GatewayAssumption, FS_Subset
  <1> QED
    BY <1>2, FS_CardinalityType

\* A handler that goes on to another await, keeping its place in the count,
\* preserves the invariant.
LEMMA MoveKeepsInv ==
  ASSUME NEW r \in Requests, NEW q \in Request, Inv,
         req[r].pc # "done", q.pc # "done", q.counted = req[r].counted, Recorded(q, config),
         req' = [req EXCEPT ![r] = q], UNCHANGED <<config, socket, inFlight, server, grace>>
  PROVE  Inv'
  <1>1. Typed'
    BY DEF Inv, Typed
  <1>2. InHandler' = InHandler
    BY DEF Inv, Typed, InHandler
  <1>3. InFlightExact'
    BY <1>2 DEF Inv, InFlightExact
  <1>4. \A s \in Requests : Recorded(req'[s], config')
    <2> TAKE s \in Requests
    <2>1. CASE s = r
      BY <2>1 DEF Inv, Typed
    <2>2. CASE s # r
      BY <2>2 DEF Inv, Typed
    <2> QED BY <2>1, <2>2
  <1> QED
    BY <1>1, <1>3, <1>4 DEF Inv

\* A handler that ends, in the finally block or by a crash, gives up its
\* place in the count and preserves the invariant.
LEMMA EndKeepsInv ==
  ASSUME NEW r \in Requests, NEW q \in Request, Inv,
         req[r].pc # "done", q.pc = "done", q.counted = req[r].counted, Recorded(q, config),
         req' = [req EXCEPT ![r] = q], inFlight' = Remaining(r), config' = config, Typed'
  PROVE  Inv'
  <1>1. InHandler' = InHandler \ {r}
    BY DEF Inv, Typed, InHandler
  <1>2. InFlightExact'
    <2>1. CASE req[r].counted
      <3>1. r \in InHandler
        BY <2>1 DEF InHandler
      <3>2. Cardinality(InHandler') = Cardinality(InHandler) - 1
        BY <1>1, <3>1, CountIsNat, FS_RemoveElement
      <3>3. config.maxInFlight \in Nat
        BY GatewayAssumption DEF Inv, Typed, ConfigType
      <3> QED
        BY <2>1, <3>2, <3>3, CountIsNat DEF Inv, InFlightExact, Remaining
    <2>2. CASE ~req[r].counted
      <3>1. InHandler' = InHandler
        BY <1>1, <2>2 DEF InHandler
      <3> QED
        BY <2>2, <3>1 DEF Inv, InFlightExact, Remaining
    <2> QED BY <2>1, <2>2
  <1>3. \A s \in Requests : Recorded(req'[s], config')
    <2> TAKE s \in Requests
    <2>1. CASE s = r
      BY <2>1 DEF Inv, Typed
    <2>2. CASE s # r
      BY <2>2 DEF Inv, Typed
    <2> QED BY <2>1, <2>2
  <1> QED
    BY <1>2, <1>3 DEF Inv

\* A step that leaves every handler and the count alone preserves it too.
LEMMA OutsideKeepsInv ==
  ASSUME Inv, UNCHANGED <<config, req, inFlight>>, Typed'
  PROVE  Inv'
  BY DEF Inv, InFlightExact, InHandler

----------------------------------------------------------------------------
(* The ways a handler goes on or ends.                                      *)

Answers == {"none", "busy", "refused", "unrecorded", "denied", "observed", "started",
            "partRaw", "partProtected", "raw", "protected", "cut"}
Records == Decisions \cup {"request", "response"}

\* Going on to an await that depends on no record.
LEMMA AwaitKeepsInv ==
  ASSUME NEW r \in Requests, Inv, req[r].pc # "done",
         NEW step \in {"ready", "auth", "rate", "respond", "protectResponse"},
         step \in {"respond", "protectResponse"} => req[r].up = "protected", Await(r, step)
  PROVE  Inv'
  <1> DEFINE q == [req[r] EXCEPT !.pc = step]
  <1>1. req[r] \in Request /\ Recorded(req[r], config)
    BY DEF Inv, Typed
  <1>2. q \in Request
    BY <1>1 DEF Request, Steps
  <1>3. q.pc # "done" /\ q.counted = req[r].counted
    BY <1>1 DEF Request, Steps, Piping
  <1>4. Recorded(q, config)
    BY <1>1 DEF Request, Recorded, Piping, MayAnswer
  <1>5. req' = [req EXCEPT ![r] = q]
    BY DEF Await, Inv, Typed
  <1> QED
    BY <1>2, <1>3, <1>4, <1>5, MoveKeepsInv DEF Await

\* The pipe goes from one of its waits to another.
LEMMA PipeKeepsInv ==
  ASSUME NEW r \in Requests, Inv, req[r].pc \in Piping, NEW step \in Piping, Await(r, step)
  PROVE  Inv'
  <1> DEFINE q == [req[r] EXCEPT !.pc = step]
  <1>1. req[r] \in Request /\ Recorded(req[r], config)
    BY DEF Inv, Typed
  <1>2. q \in Request
    BY <1>1 DEF Request, Steps, Piping
  <1>3. q.pc # "done" /\ q.counted = req[r].counted /\ req[r].pc # "done"
    BY <1>1 DEF Request, Steps, Piping
  <1>4. Recorded(q, config)
    BY <1>1 DEF Request, Recorded, Piping, MayAnswer
  <1>5. req' = [req EXCEPT ![r] = q]
    BY DEF Await, Inv, Typed
  <1> QED
    BY <1>2, <1>3, <1>4, <1>5, MoveKeepsInv DEF Await

\* Registering readBody's listeners preserves the invariant.
LEMMA AwaitBodyKeepsInv ==
  ASSUME NEW r \in Requests, Inv, req[r].pc # "done", AwaitBody(r)
  PROVE  Inv'
  <1> DEFINE q == [req[r] EXCEPT !.pc = "body", !.watched = socket[r] = "open"]
  <1>1. req[r] \in Request /\ Recorded(req[r], config)
    BY DEF Inv, Typed
  <1>2. q \in Request
    BY <1>1 DEF Request, Steps
  <1>3. q.pc # "done" /\ q.counted = req[r].counted
    BY <1>1 DEF Request, Steps, Piping
  <1>4. Recorded(q, config)
    BY <1>1 DEF Request, Recorded, Piping, MayAnswer
  <1>5. req' = [req EXCEPT ![r] = q]
    BY DEF AwaitBody, Inv, Typed
  <1> QED
    BY <1>2, <1>3, <1>4, <1>5, MoveKeepsInv DEF AwaitBody

\* Going on to record a decision with recordProxyDecision preserves it.
LEMMA AwaitRecordKeepsInv ==
  ASSUME NEW r \in Requests, Inv, req[r].pc # "done", NEW decision \in Decisions,
         decision \in {"stream_inspected", "stream_blocked"} => req[r].up = "protected",
         AwaitRecord(r, decision)
  PROVE  Inv'
  <1> DEFINE q == [req[r] EXCEPT !.pc = "record", !.todo = decision]
  <1>1. req[r] \in Request /\ Recorded(req[r], config)
    BY DEF Inv, Typed
  <1>2. q \in Request
    BY <1>1 DEF Request, Steps
  <1>3. q.pc # "done" /\ q.counted = req[r].counted
    BY <1>1 DEF Request, Steps, Piping
  <1>4. Recorded(q, config)
    BY <1>1 DEF Request, Recorded, Piping, MayAnswer
  <1>5. req' = [req EXCEPT ![r] = q]
    BY DEF AwaitRecord, Inv, Typed
  <1> QED
    BY <1>2, <1>3, <1>4, <1>5, MoveKeepsInv DEF AwaitRecord

\* Going on to protectJson preserves it.
LEMMA AwaitProtectKeepsInv ==
  ASSUME NEW r \in Requests, Inv, req[r].pc # "done", NEW kind \in {"json", "stream"},
         AwaitProtect(r, kind)
  PROVE  Inv'
  <1> DEFINE q == [req[r] EXCEPT !.pc = "protect", !.todo = kind]
  <1>1. req[r] \in Request /\ Recorded(req[r], config)
    BY DEF Inv, Typed
  <1>2. q \in Request
    BY <1>1 DEF Request, Steps
  <1>3. q.pc # "done" /\ q.counted = req[r].counted
    BY <1>1 DEF Request, Steps, Piping
  <1>4. Recorded(q, config)
    BY <1>1 DEF Request, Recorded, Piping, MayAnswer
  <1>5. req' = [req EXCEPT ![r] = q]
    BY DEF AwaitProtect, Inv, Typed
  <1> QED
    BY <1>2, <1>3, <1>4, <1>5, MoveKeepsInv DEF AwaitProtect

\* A body is sent upstream together with the record that justifies it.
LEMMA AwaitFetchKeepsInv ==
  ASSUME NEW r \in Requests, Inv, req[r].pc # "done",
         NEW body \in {"raw", "protected"}, NEW record \in SUBSET Records,
         body = "raw" => "pass_through" \in record /\ req[r].todo = "pass_through",
         body = "protected" => "request" \in record /\ req[r].todo # "pass_through",
         AwaitFetch(r, body, record)
  PROVE  Inv'
  <1> DEFINE q == [req[r] EXCEPT !.pc = "fetch", !.up = body, !.audit = @ \cup record]
  <1>1. req[r] \in Request /\ Recorded(req[r], config)
    BY DEF Inv, Typed
  <1>2. q \in Request
    BY <1>1 DEF Request, Steps, Records
  <1>3. q.pc # "done" /\ q.counted = req[r].counted
    BY <1>1 DEF Request, Steps, Piping
  <1>4. Recorded(q, config)
    <2>1. /\ q.pc = "fetch" /\ q.up = body /\ q.out = req[r].out /\ q.todo = req[r].todo
          /\ q.audit = req[r].audit \cup record
      BY <1>1 DEF Request
    <2>2. MayAnswer(q.out, q.audit, q.up, config)
      BY <1>1, <2>1 DEF Recorded, MayAnswer
    <2> QED
      BY <1>1, <2>1, <2>2 DEF Recorded, Piping
  <1>5. req' = [req EXCEPT ![r] = q]
    BY DEF AwaitFetch, Inv, Typed
  <1> QED
    BY <1>2, <1>3, <1>4, <1>5, MoveKeepsInv DEF AwaitFetch

\* Writing the head of a streamed or piped answer preserves it.
LEMMA StartAnswerKeepsInv ==
  ASSUME NEW r \in Requests, Inv, req[r].pc = "fetch", NEW step \in {"stream", "read"},
         IF step = "read" THEN req[r].todo = "pass_through" ELSE req[r].todo = "stream",
         StartAnswer(r, step)
  PROVE  Inv'
  <1> DEFINE q == [req[r] EXCEPT !.pc = step, !.out = "started",
                                 !.watched = step = "read" /\ socket[r] = "open"]
  <1>1. req[r] \in Request /\ Recorded(req[r], config)
    BY DEF Inv, Typed
  <1>2. q \in Request
    BY <1>1 DEF Request, Steps, Piping
  <1>3. q.pc # "done" /\ q.counted = req[r].counted /\ req[r].pc # "done"
    BY <1>1 DEF Request, Steps, Piping
  <1>4. Recorded(q, config)
    BY <1>1 DEF Request, Recorded, Piping, MayAnswer
  <1>5. req' = [req EXCEPT ![r] = q]
    BY DEF StartAnswer, Inv, Typed
  <1> QED
    BY <1>2, <1>3, <1>4, <1>5, MoveKeepsInv DEF StartAnswer

\* A piece of the body is written, in the clear by a pipe or protected by an
\* inspected stream.
LEMMA WritePartKeepsInv ==
  ASSUME NEW r \in Requests, Inv, NEW step, NEW part, WritePart(r, step, part),
         \/ req[r].pc \in Piping /\ step \in Piping /\ part = "partRaw"
         \/ req[r].pc = "stream" /\ step = "stream" /\ part = "partProtected"
  PROVE  Inv'
  <1> DEFINE q == [req[r] EXCEPT !.pc = step, !.out = part]
  <1>1. req[r] \in Request /\ Recorded(req[r], config)
    BY DEF Inv, Typed
  <1>2. q \in Request
    BY <1>1 DEF Request, Steps, Piping
  <1>3. q.pc # "done" /\ q.counted = req[r].counted /\ req[r].pc # "done"
    BY <1>1 DEF Request, Steps, Piping
  <1>4. Recorded(q, config)
    BY <1>1 DEF Request, Recorded, Piping, MayAnswer
  <1>5. req' = [req EXCEPT ![r] = q]
    BY DEF WritePart, Inv, Typed
  <1> QED
    BY <1>2, <1>3, <1>4, <1>5, MoveKeepsInv DEF WritePart

\* closeAllConnections() leaves every connection in one of its states.
LEMMA CutAllTyped ==
  ASSUME NEW sockets \in [Requests -> {"none", "open", "left", "cut"}]
  PROVE  CutAll(sockets) \in [Requests -> {"none", "open", "left", "cut"}]
  BY DEF CutAll

\* A handler that writes an answer its records allow.
LEMMA FinishKeepsInv ==
  ASSUME NEW r \in Requests, Inv, req[r].pc # "done",
         NEW answer \in Answers, NEW records \in SUBSET Records,
         NEW sockets \in [Requests -> {"none", "open", "left", "cut"}],
         MayAnswer(answer, req[r].audit \cup records, req[r].up, config),
         FinishWith(r, answer, records, sockets)
  PROVE  Inv'
  <1> DEFINE q == [req[r] EXCEPT !.pc = "done", !.out = answer, !.audit = @ \cup records]
  <1>1. req[r] \in Request
    BY DEF Inv, Typed
  <1>2. req[r].audit \cup records \in SUBSET Records
    BY <1>1 DEF Request, Records
  <1>3. q \in Request
    BY <1>1, <1>2 DEF Request, Steps, Records, Answers
  <1>4. q \in Request /\ q.pc = "done" /\ q.counted = req[r].counted
    BY <1>1, <1>3 DEF Request
  <1>5. Recorded(q, config)
    BY <1>1 DEF Inv, Request, Recorded, Piping, MayAnswer
  <1>6. req' = [req EXCEPT ![r] = q]
    BY DEF FinishWith, Inv, Typed
  <1>7. socket' \in [Requests -> {"none", "open", "left", "cut"}]
    BY CutAllTyped DEF FinishWith, Leave
  <1> HIDE DEF q
  <1>8. req' \in [Requests -> Request]
    BY <1>4, <1>6 DEF Inv, Typed
  <1>9. Typed'
    BY <1>7, <1>8 DEF FinishWith, Inv, Typed
  <1> QED
    BY <1>4, <1>5, <1>6, <1>9, EndKeepsInv DEF FinishWith, Leave

\* The answers that no record is needed for.
LEMMA PlainFinishKeepsInv ==
  ASSUME NEW r \in Requests, Inv, req[r].pc # "done",
         NEW answer \in {"busy", "refused", "unrecorded", "observed", "cut"}, Finish(r, answer, {})
  PROVE  Inv'
  <1>1. MayAnswer(answer, req[r].audit \cup {}, req[r].up, config)
    BY DEF MayAnswer
  <1>2. answer \in Answers /\ {} \in SUBSET Records
    BY DEF Answers
  <1>3. socket \in [Requests -> {"none", "open", "left", "cut"}]
    BY DEF Inv, Typed
  <1> QED
    BY <1>1, <1>2, <1>3, FinishKeepsInv DEF Finish

\* The same for a connection that is left as it is.
LEMMA RecordedFinishKeepsInv ==
  ASSUME NEW r \in Requests, Inv, req[r].pc # "done",
         NEW answer \in Answers, NEW records \in SUBSET Records,
         MayAnswer(answer, req[r].audit \cup records, req[r].up, config), Finish(r, answer, records)
  PROVE  Inv'
  <1>1. socket \in [Requests -> {"none", "open", "left", "cut"}]
    BY DEF Inv, Typed
  <1> QED
    BY <1>1, FinishKeepsInv DEF Finish

\* The end of the process in the catch block preserves it.
LEMMA CrashKeepsInv ==
  ASSUME NEW r \in Requests, Inv, req[r].pc # "done", Crash(r)
  PROVE  Inv'
  <1> DEFINE q == [req[r] EXCEPT !.pc = "done"]
  <1>1. req[r] \in Request /\ Recorded(req[r], config)
    BY DEF Inv, Typed
  <1>2. q \in Request
    BY <1>1 DEF Request, Steps
  <1>3. q.pc = "done" /\ q.counted = req[r].counted
    BY <1>1 DEF Request, Steps, Piping
  <1>4. Recorded(q, config)
    BY <1>1 DEF Request, Recorded, Piping, MayAnswer
  <1>5. req' = [req EXCEPT ![r] = q]
    BY DEF Crash, Inv, Typed
  <1> HIDE DEF q
  <1>6. Typed'
    BY <1>2, <1>5, CutAllTyped DEF Crash, Inv, Typed
  <1> QED
    BY <1>2, <1>3, <1>4, <1>5, <1>6, EndKeepsInv DEF Crash

\* The catch block preserves it, whichever way it ends.
LEMMA FailKeepsInv ==
  ASSUME NEW r \in Requests, Inv, req[r].pc # "done", Fail(r)
  PROVE  Inv'
  BY CrashKeepsInv, PlainFinishKeepsInv DEF Fail

----------------------------------------------------------------------------
(* The steps of the gateway.                                                *)

\* Every step of a request's handler preserves the invariant.
LEMMA HandlerKeepsInv ==
  ASSUME NEW r \in Requests, Inv, Handler(r)
  PROVE  Inv'
  <1> USE DEF At
  <1>1. CASE Overloaded(r)
    BY <1>1, PlainFinishKeepsInv DEF Overloaded, Arriving
  <1>2. CASE Admit(r)
    <2> DEFINE q == [req[r] EXCEPT !.counted = TRUE, !.pc = "auth"]
    <2>1. req[r] \in Request /\ req[r].pc = "idle" /\ ~req[r].counted
      BY <1>2 DEF Admit, Arriving, Inv, Typed, Recorded
    <2>2. q \in Request
      BY <2>1 DEF Request, Steps
    <2>3. req' = [req EXCEPT ![r] = q]
      BY <1>2 DEF Admit, Inv, Typed
    <2>4. Recorded(q, config)
      BY <2>1 DEF Inv, Request, Recorded, Piping, MayAnswer
    <2>5. q.counted /\ q.pc = "auth"
      BY <2>1 DEF Request
    <2> HIDE DEF q
    <2>6. Typed'
      BY <1>2, <2>2, <2>3 DEF Admit, Inv, Typed
    <2>7. InHandler' = InHandler \cup {r} /\ r \notin InHandler
      BY <2>1, <2>3, <2>5 DEF Inv, Typed, InHandler
    <2>8. Cardinality(InHandler') = Cardinality(InHandler) + 1
      BY <2>7, CountIsNat, FS_AddElement
    <2>9. config.maxInFlight \in Nat
      BY GatewayAssumption DEF Inv, Typed, ConfigType
    <2>10. InFlightExact'
      BY <1>2, <2>8, <2>9, CountIsNat DEF Admit, AtCeiling, Inv, InFlightExact
    <2>11. \A s \in Requests : Recorded(req'[s], config')
      <3> TAKE s \in Requests
      <3>1. CASE s = r
        BY <1>2, <2>3, <2>4, <3>1 DEF Admit, Inv, Typed
      <3>2. CASE s # r
        BY <1>2, <2>3, <3>2 DEF Admit, Inv, Typed
      <3> QED BY <3>1, <3>2
    <2> QED
      BY <2>6, <2>10, <2>11 DEF Inv
  <1>3. CASE RefuseAtDoor(r)
    BY <1>3, PlainFinishKeepsInv DEF RefuseAtDoor, Arriving
  <1>4. CASE Observe(r)
    BY <1>4, PlainFinishKeepsInv DEF Observe, Arriving
  <1>5. CASE AskReady(r)
    BY <1>5, AwaitKeepsInv DEF AskReady, Arriving
  <1>6. CASE Ready(r)
    BY <1>6, PlainFinishKeepsInv DEF Ready
  <1>7. CASE ReservedPath(r)
    BY <1>7, AwaitKeepsInv DEF ReservedPath, Arriving
  <1>8. CASE Authenticate(r)
    BY <1>8, AwaitKeepsInv, AwaitRecordKeepsInv DEF Authenticate, Decisions, Denials
  <1>9. CASE RateLimit(r)
    BY <1>9, AwaitBodyKeepsInv, AwaitRecordKeepsInv, FailKeepsInv
       DEF RateLimit, Decisions, Denials
  <1>10. CASE ReadBody(r)
    BY <1>10, FailKeepsInv, AwaitRecordKeepsInv, AwaitProtectKeepsInv, PlainFinishKeepsInv
       DEF ReadBody, Streaming, Decisions, Denials
  <1>11. CASE BodyAborted(r)
    BY <1>11, FailKeepsInv DEF BodyAborted
  <1>12. CASE Protect(r)
    <2>1. req[r].pc = "protect" /\ req[r].todo # "pass_through"
      BY <1>12 DEF Protect, Inv, Recorded
    <2>2. {"request"} \in SUBSET Records /\ "denied" \in Answers
      BY DEF Records, Answers
    <2>3. MayAnswer("denied", req[r].audit \cup {"request"}, req[r].up, config)
      BY DEF MayAnswer
    <2>4. CASE Fail(r)
      BY <2>1, <2>4, FailKeepsInv
    <2>5. CASE Finish(r, "denied", {"request"})
      BY <2>1, <2>2, <2>3, <2>5, RecordedFinishKeepsInv
    <2>6. CASE AwaitFetch(r, "protected", {"request"})
      BY <2>1, <2>2, <2>6, AwaitFetchKeepsInv
    <2> QED
      BY <1>12, <2>4, <2>5, <2>6 DEF Protect
  <1>13. CASE Record(r)
    <2> DEFINE d == req[r].todo
    <2>1. req[r].pc # "done"
      BY <1>13 DEF Record
    <2>2. CASE Fail(r)
      BY <2>1, <2>2, FailKeepsInv
    <2>3. CASE d \in Denials \cup {"response_blocked"} /\ Finish(r, "denied", {d})
      <3>1. {d} \in SUBSET Records /\ "denied" \in Answers
        BY <2>3 DEF Records, Answers, Decisions
      <3>2. MayAnswer("denied", req[r].audit \cup {d}, req[r].up, config)
        BY <2>3 DEF MayAnswer
      <3> QED
        BY <2>1, <2>3, <3>1, <3>2, RecordedFinishKeepsInv
    <2>4. CASE d = "response_allowed" /\ Finish(r, "raw", {d})
      <3>1. {d} \in SUBSET Records /\ "raw" \in Answers
        BY <2>4 DEF Records, Answers, Decisions
      <3>2. MayAnswer("raw", req[r].audit \cup {d}, req[r].up, config)
        BY <2>4 DEF MayAnswer
      <3> QED
        BY <2>1, <2>4, <3>1, <3>2, RecordedFinishKeepsInv
    <2>5. CASE d \in {"stream_inspected", "stream_blocked"} /\ Finish(r, "protected", {d})
      <3>1. {d} \in SUBSET Records /\ "protected" \in Answers
        BY <2>5 DEF Records, Answers, Decisions
      <3>2. "request" \in req[r].audit
        BY <1>13, <2>5 DEF Record, Inv, Recorded
      <3>3. MayAnswer("protected", req[r].audit \cup {d}, req[r].up, config)
        BY <2>5, <3>2 DEF MayAnswer
      <3> QED
        BY <2>1, <2>5, <3>1, <3>3, RecordedFinishKeepsInv
    <2>6. CASE d = "pass_through" /\ AwaitFetch(r, "raw", {d})
      <3>1. {d} \in SUBSET Records /\ "pass_through" \in {d}
        BY <2>6 DEF Records, Decisions
      <3> QED
        BY <2>1, <2>6, <3>1, AwaitFetchKeepsInv
    <2> QED
      BY <1>13, <2>2, <2>3, <2>4, <2>5, <2>6 DEF Record, Decided
  <1>14. CASE Fetch(r)
    <2>1. req[r].pc = "fetch" /\ (req[r].todo # "pass_through" => req[r].up = "protected")
      BY <1>14 DEF Fetch, Inv, Recorded
    <2>2. CASE Fail(r)
      BY <2>1, <2>2, FailKeepsInv
    <2>3. CASE req[r].todo = "json" /\ Await(r, "respond")
      BY <2>1, <2>3, AwaitKeepsInv
    <2>4. CASE req[r].todo = "stream" /\ StartAnswer(r, "stream")
      BY <2>1, <2>4, StartAnswerKeepsInv
    <2>5. CASE req[r].todo = "pass_through" /\ StartAnswer(r, "read")
      BY <2>1, <2>5, StartAnswerKeepsInv
    <2> QED
      BY <1>14, <2>2, <2>3, <2>4, <2>5 DEF Fetch
  <1>15. CASE Respond(r)
    <2>1. req[r].pc # "done" /\ req[r].up = "protected"
      BY <1>15 DEF Respond, Inv, Recorded
    <2>2. CASE config.responses = "off" /\ Finish(r, "raw", {})
      <3>1. MayAnswer("raw", req[r].audit \cup {}, req[r].up, config) /\ "raw" \in Answers /\ {} \in SUBSET Records
        BY <2>1, <2>2 DEF MayAnswer, Answers
      <3> QED
        BY <2>1, <2>2, <3>1, RecordedFinishKeepsInv
    <2>3. CASE Fail(r) \/ Finish(r, "unrecorded", {}) \/ Await(r, "protectResponse")
      BY <2>1, <2>3, FailKeepsInv, PlainFinishKeepsInv, AwaitKeepsInv
    <2>4. CASE UnprotectedDecision(r)
      BY <2>1, <2>4, AwaitRecordKeepsInv DEF UnprotectedDecision, Decisions
    <2> QED
      BY <1>15, <2>2, <2>3, <2>4 DEF Respond
  <1>16. CASE ProtectResponse(r)
    <2>1. req[r].pc # "done" /\ "request" \in req[r].audit
      BY <1>16 DEF ProtectResponse, Inv, Recorded
    <2>2. {"response"} \in SUBSET Records /\ {"denied", "protected"} \subseteq Answers
      BY DEF Records, Answers
    <2>3. /\ MayAnswer("denied", req[r].audit \cup {"response"}, req[r].up, config)
          /\ MayAnswer("protected", req[r].audit \cup {"response"}, req[r].up, config)
      BY <2>1 DEF MayAnswer
    <2> QED
      BY <1>16, <2>1, <2>2, <2>3, FailKeepsInv, RecordedFinishKeepsInv DEF ProtectResponse
  <1>17. CASE StreamEnds(r)
    <2>1. req[r].pc # "done" /\ req[r].up = "protected"
      BY <1>17 DEF StreamEnds, Inv, Recorded
    <2> QED
      BY <1>17, <2>1, AwaitRecordKeepsInv DEF StreamEnds, Decisions
  <1>18. CASE StreamBreaks(r)
    BY <1>18, FailKeepsInv DEF StreamBreaks
  <1>19. CASE TearDown(r)
    BY <1>19, PlainFinishKeepsInv DEF TearDown, Piping
  <1>20. CASE PipeRead(r)
    <2> DEFINE cut == [socket EXCEPT ![r] = IF @ = "open" THEN "cut" ELSE @]
    <2>1. req[r].pc \in Piping /\ req[r].pc # "done"
      BY <1>20 DEF PipeRead, Piping
    <2>2. CASE WritePart(r, "drain", "partRaw") \/ WritePart(r, "read", "partRaw")
      BY <2>1, <2>2, WritePartKeepsInv DEF Piping
    <2>3. CASE Finish(r, "raw", {})
      <3>1. "pass_through" \in req[r].audit
        BY <2>1 DEF Inv, Recorded
      <3>2. MayAnswer("raw", req[r].audit \cup {}, req[r].up, config) /\ "raw" \in Answers
        BY <3>1 DEF MayAnswer, Answers
      <3>3. socket \in [Requests -> {"none", "open", "left", "cut"}]
        BY DEF Inv, Typed
      <3> QED
        BY <2>1, <2>3, <3>2, <3>3, FinishKeepsInv DEF Finish
    <2>4. CASE FinishWith(r, "cut", {}, cut)
      <3>1. MayAnswer("cut", req[r].audit \cup {}, req[r].up, config) /\ "cut" \in Answers
        BY DEF MayAnswer, Answers
      <3>2. cut \in [Requests -> {"none", "open", "left", "cut"}]
        BY DEF Inv, Typed
      <3> QED
        BY <2>1, <2>4, <3>1, <3>2, FinishKeepsInv
    <2> QED
      BY <1>20, <2>2, <2>3, <2>4 DEF PipeRead
  <1>21. CASE Drained(r)
    BY <1>21, PipeKeepsInv DEF Drained, Piping
  <1>22. CASE StreamFrame(r)
    BY <1>22, WritePartKeepsInv DEF StreamFrame
  <1> QED
    BY <1>1, <1>2, <1>3, <1>4, <1>5, <1>6, <1>7, <1>8, <1>9, <1>10, <1>11, <1>12, <1>13,
       <1>14, <1>15, <1>16, <1>17, <1>18, <1>19, <1>20, <1>21, <1>22 DEF Handler

\* So does every other step: connections, close() and its timer.
LEMMA NextKeepsInv ==
  ASSUME Inv, [Next]_vars
  PROVE  Inv'
  <1>1. ASSUME NEW r \in Requests, Handler(r)
        PROVE  Inv'
    BY <1>1, HandlerKeepsInv
  <1>2. ASSUME NEW r \in Requests, Connect(r) \/ ClientLeaves(r) \/ KeepAliveEnds(r)
        PROVE  Inv'
    <2>1. Typed'
      BY <1>2 DEF Connect, ClientLeaves, KeepAliveEnds, Inv, Typed
    <2> QED
      BY <1>2, <2>1, OutsideKeepsInv DEF Connect, ClientLeaves, KeepAliveEnds
  <1>3. CASE Close
    <2>1. Typed'
      BY <1>3 DEF Close, Inv, Typed
    <2> QED
      BY <1>3, <2>1, OutsideKeepsInv DEF Close
  <1>4. CASE GraceElapses
    <2>1. Typed'
      BY <1>4, CutAllTyped DEF GraceElapses, Inv, Typed
    <2> QED
      BY <1>4, <2>1, OutsideKeepsInv DEF GraceElapses
  <1>5. CASE Closed
    <2>1. Typed'
      BY <1>5 DEF Closed, Inv, Typed
    <2> QED
      BY <1>5, <2>1, OutsideKeepsInv DEF Closed
  <1>6. CASE UNCHANGED vars
    <2>1. Typed'
      BY <1>6 DEF vars, Inv, Typed
    <2> QED
      BY <1>6, <2>1, OutsideKeepsInv DEF vars
  <1> QED
    BY <1>1, <1>2, <1>3, <1>4, <1>5, <1>6 DEF Next

----------------------------------------------------------------------------
(* The theorems.                                                            *)

\* The state createHaechiProxy starts in has the invariant.
LEMMA InitHasInv == Init => Inv
  <1> SUFFICES ASSUME Init PROVE Inv
    OBVIOUS
  <1>1. Typed
    BY DEF Init, Typed, Request, Steps
  <1>2. InHandler = {}
    BY DEF Init, InHandler
  <1>3. config.maxInFlight \in Nat
    BY <1>1, GatewayAssumption DEF Typed, ConfigType
  <1>4. InFlightExact
    BY <1>2, <1>3, FS_EmptySet DEF Init, InFlightExact
  <1>5. \A r \in Requests : Recorded(req[r], config)
    BY DEF Init, Recorded, Piping, MayAnswer
  <1> QED
    BY <1>1, <1>4, <1>5 DEF Inv

\* The inductive invariant holds of every behaviour of the gateway.
LEMMA InvHolds == Spec => []Inv
  BY InitHasInv, NextKeepsInv, PTL DEF Spec

\* Through any number of requests, the state of requestHandler and close()
\* has its type, and the in-flight count is never negative.
THEOREM GatewayTypeCorrect == Spec => []TypeOK
  <1>1. Inv => TypeOK
    BY CountIsNat DEF Inv, Typed, InFlightExact, TypeOK
  <1> QED
    BY <1>1, InvHolds, PTL

\* The count of requestHandler is exact and keeps to limits.maxInFlight.
THEOREM CountIsExact == Spec => []InFlightExact
  <1>1. Inv => InFlightExact
    BY DEF Inv
  <1> QED
    BY <1>1, InvHolds, PTL

\* Nothing is sent upstream by forward() before its record is written.
THEOREM ForwardingIsRecorded == Spec => []RecordedBeforeForwarded
  <1>1. Inv => RecordedBeforeForwarded
    BY DEF Inv, Recorded, RecordedBeforeForwarded
  <1> QED
    BY <1>1, InvHolds, PTL

\* A recorded denial, a byte of the upstream's answer in the clear and the end
\* of a protected answer reach the client after the record they need, whatever
\* fails; the frames of an inspected stream after the request's record.
THEOREM AnswersAreRecorded == Spec => []RecordedBeforeAnswered
  <1>1. Inv => RecordedBeforeAnswered
    BY DEF Inv, Recorded, MayAnswer, RecordedBeforeAnswered
  <1> QED
    BY <1>1, InvHolds, PTL

\* When the count is zero no counted handler is at work.
LEMMA ZeroMeansIdle ==
  ASSUME Inv', inFlight' <= 0, NEW s \in Requests, req'[s].counted
  PROVE  req'[s].pc = "done"
  <1>1. InHandler' \subseteq Requests
    BY DEF InHandler
  <1>2. IsFiniteSet(InHandler')
    BY <1>1, GatewayAssumption, FS_Subset
  <1>3. Cardinality(InHandler') \in Nat /\ Cardinality(InHandler') = inFlight'
    BY <1>2, FS_CardinalityType DEF Inv, InFlightExact
  <1>4. InHandler' = {}
    BY <1>2, <1>3, FS_EmptySet
  <1> QED
    BY <1>4 DEF InHandler

\* A handler that ends cuts its own connection at most, or all of them when
\* it was the last one counted.
LEMMA FinishCutsDone ==
  ASSUME NEW r \in Requests, Inv, Inv', NEW answer, NEW records, NEW sockets,
         \A s \in Requests \ {r} : sockets[s] = socket[s],
         FinishWith(r, answer, records, sockets)
  PROVE  CutsDone
  <1> SUFFICES ASSUME NEW s \in Requests, socket[s] = "open", socket'[s] = "cut", req[s].counted
               PROVE  req'[s].pc = "done"
    BY DEF CutsDone
  <1>1. CASE s = r
    BY <1>1 DEF FinishWith, Inv, Typed, Request
  <1>2. CASE s # r
    <2>1. sockets[s] = "open"
      BY <1>2
    <2>2. inFlight' <= 0
      BY <2>1 DEF FinishWith, Leave
    <2>3. req'[s].counted
      BY <1>2 DEF FinishWith, Inv, Typed
    <2> QED
      BY <2>2, <2>3, ZeroMeansIdle
  <1> QED BY <1>1, <1>2

\* close() never cuts the connection of a counted request that is at work
\* before the grace period is over.
THEOREM CloseWaitsForGrace == Spec => OnlyGraceCuts
  <1>1. ASSUME Inv, Inv', [Next]_vars
        PROVE  CutsDone
    <2>1. ASSUME NEW r \in Requests, Handler(r)
          PROVE  CutsDone
      <3>1. ASSUME NEW answer, NEW records, Finish(r, answer, records)
            PROVE  CutsDone
        BY <1>1, <3>1, FinishCutsDone DEF Finish
      <3>2. CASE UNCHANGED socket
        BY <3>2 DEF CutsDone
      <3>3. CASE Fail(r)
        BY <3>1, <3>3 DEF Fail, Crash, CutsDone
      <3>4. CASE PipeRead(r)
        <4> DEFINE cut == [socket EXCEPT ![r] = IF @ = "open" THEN "cut" ELSE @]
        <4>1. \A s \in Requests \ {r} : cut[s] = socket[s]
          BY <1>1 DEF Inv, Typed
        <4>2. CASE FinishWith(r, "cut", {}, cut)
          BY <1>1, <4>1, <4>2, FinishCutsDone
        <4> QED
          BY <3>1, <3>2, <3>4, <4>2 DEF PipeRead, WritePart
      <3>5. CASE Record(r)
        BY <3>1, <3>2, <3>3, <3>5 DEF Record, Decided, AwaitFetch
      <3> QED
        BY <2>1, <3>1, <3>2, <3>3, <3>4, <3>5
           DEF Handler, Overloaded, Admit, RefuseAtDoor, Observe, AskReady, Ready, ReservedPath,
               Authenticate, RateLimit, ReadBody, Streaming, BodyAborted, Protect, Fetch, Respond,
               UnprotectedDecision, ProtectResponse, StreamFrame, StreamEnds, StreamBreaks, TearDown, Drained,
               Await, AwaitBody, AwaitRecord, AwaitProtect, AwaitFetch, StartAnswer, WritePart
    <2>2. ASSUME NEW r \in Requests, Connect(r) \/ ClientLeaves(r)
          PROVE  CutsDone
      BY <1>1, <2>2 DEF Connect, ClientLeaves, CutsDone, Inv, Typed
    <2>3. ASSUME NEW r \in Requests, KeepAliveEnds(r)
          PROVE  CutsDone
      BY <1>1, <2>3 DEF KeepAliveEnds, At, CutsDone, Inv, Typed
    <2>4. CASE Close
      BY <1>1, <2>4 DEF Close, CutsDone, Inv, Typed
    <2>5. CASE GraceElapses
      BY <2>5 DEF GraceElapses, CutsDone
    <2>6. CASE Closed \/ UNCHANGED vars
      BY <2>6 DEF Closed, vars, CutsDone
    <2> QED
      BY <1>1, <2>1, <2>2, <2>3, <2>4, <2>5, <2>6 DEF Next
  <1>2. Inv /\ Inv' /\ [Next]_vars => [CutsDone]_vars
    BY <1>1
  <1> QED
    BY <1>2, InvHolds, PTL DEF Spec, OnlyGraceCuts
=============================================================================
