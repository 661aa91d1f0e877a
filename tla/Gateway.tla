------------------------------ MODULE Gateway ------------------------------
(***************************************************************************)
(* The HTTP gateway of packages/proxy: the life of a request in            *)
(* requestHandler, the in-flight ceiling, and close().  Every await of the *)
(* handler is a step, so that requests, clients that leave and a shutdown  *)
(* interleave as they do on the event loop.  A request is known by what is *)
(* decided about it; its connection carries no other request.              *)
(***************************************************************************)
EXTENDS Integers, FiniteSets

CONSTANTS
    Requests,   \* the requests, one connection each
    Configs     \* the configurations the gateway may be started with

\* maxInFlight 0 means no ceiling.  `responses' is responseProtection:
\* disabled, or enabled with failureMode "block" or "allow".
ConfigType ==
    [maxInFlight : Nat, requestMode : {"block", "pass-through", "inspect"},
     responses : {"off", "block", "allow"}]

ASSUME GatewayAssumption == IsFiniteSet(Requests) /\ Configs \subseteq ConfigType

VARIABLES
    config,     \* the configuration, fixed at start
    socket,     \* each connection: "none", "open", "left" by the client, "cut" by the gateway
    req,        \* what the handler of each request keeps, see Request
    inFlight,   \* the in-flight count
    server,     \* "listening", "closing", "closed", "crashed"
    grace       \* close()'s drain resolver and timer: "off", "armed", "elapsed"

vars == <<config, socket, req, inFlight, server, grace>>

Denials == {"auth_denied", "rate_limited", "model_not_allowed"}
Decisions == Denials \cup {"pass_through", "response_allowed", "response_blocked",
                           "stream_inspected", "stream_blocked"}

Piping == {"read", "drain"}
Steps == {"idle", "ready", "auth", "rate", "body", "record", "protect", "fetch", "respond",
          "protectResponse", "stream", "done"} \cup Piping

\* pc      the await the handler is at
\* todo    the decision being recorded, or how the answer will be handled
\* counted whether the request is in the in-flight count
\* watched whether the listeners of readBody, or of the pipe, were registered
\*         on a live connection; on a dead one they never hear anything
\* up      what the upstream was sent
\* out     what was written to the client: "refused" is an error answer of the
\*         catch block, "unrecorded" a refusal the code writes no record of,
\*         "denied" one it does; "started" is a head with no body yet,
\*         "partRaw" and "partProtected" a head and a part of the body
\* audit   the audit records written for the request
Request ==
    [pc : Steps, todo : Decisions \cup {"none", "json", "stream"}, counted : BOOLEAN,
     watched : BOOLEAN, up : {"none", "raw", "protected"},
     out : {"none", "busy", "refused", "unrecorded", "denied", "observed", "started",
            "partRaw", "partProtected", "raw", "protected", "cut"},
     audit : SUBSET (Decisions \cup {"request", "response"})]

Init ==
    /\ config \in Configs
    /\ socket = [r \in Requests |-> "none"]
    /\ req = [r \in Requests |->
                [pc |-> "idle", todo |-> "none", counted |-> FALSE, watched |-> FALSE,
                 up |-> "none", out |-> "none", audit |-> {}]]
    /\ inFlight = 0
    /\ server = "listening"
    /\ grace = "off"

Running == server # "crashed"
At(r, step) == Running /\ req[r].pc = step

----------------------------------------------------------------------------
(* How a handler ends.                                                      *)

\* server.closeAllConnections()
CutAll(sockets) == [r \in Requests |-> IF sockets[r] = "open" THEN "cut" ELSE sockets[r]]

Remaining(r) == IF req[r].counted THEN inFlight - 1 ELSE inFlight

\* Mutant: the first request to end resolves the drain.
LeaveFirst(r, sockets) ==
    /\ inFlight' = Remaining(r)
    /\ socket' = IF req[r].counted /\ grace # "off" THEN CutAll(sockets) ELSE sockets

\* The finally block.  resolveDrained() runs closeAllConnections() before
\* anything else can arrive.
Leave(r, sockets) ==
    /\ inFlight' = Remaining(r)
    /\ socket' = IF req[r].counted /\ grace # "off" /\ Remaining(r) <= 0
                   THEN CutAll(sockets) ELSE sockets

\* The handler writes its answer, having recorded `records', and returns.
FinishWith(r, answer, records, sockets) ==
    /\ req' = [req EXCEPT ![r].pc = "done", ![r].out = answer, ![r].audit = @ \cup records]
    /\ Leave(r, sockets)
    /\ UNCHANGED <<config, server, grace>>

Finish(r, answer, records) == FinishWith(r, answer, records, socket)

\* The catch block, for a request whose head has been written: writeHead()
\* throws, the handler's promise rejects, nothing handles that, and the
\* process ends.
Crash(r) ==
    /\ req' = [req EXCEPT ![r].pc = "done"]
    /\ inFlight' = Remaining(r)
    /\ socket' = CutAll(socket)
    /\ server' = "crashed"
    /\ grace' = "off"
    /\ UNCHANGED config

HeadWritten(r) == req[r].out \in {"started", "partRaw", "partProtected"}

\* The catch block: an error answer.
Fail(r) == IF HeadWritten(r) THEN Crash(r) ELSE Finish(r, "refused", {})

\* The listeners in place have heard the connection close.
Disconnected(r) == req[r].watched /\ socket[r] # "open"

\* The handler goes on to the await `step'.
Await(r, step) ==
    /\ req' = [req EXCEPT ![r].pc = step]
    /\ UNCHANGED <<config, socket, inFlight, server, grace>>

AwaitRecord(r, decision) ==
    /\ req' = [req EXCEPT ![r].pc = "record", ![r].todo = decision]
    /\ UNCHANGED <<config, socket, inFlight, server, grace>>

AwaitProtect(r, kind) ==
    /\ req' = [req EXCEPT ![r].pc = "protect", ![r].todo = kind]
    /\ UNCHANGED <<config, socket, inFlight, server, grace>>

\* The upstream is sent `body' once `record' has been written.
AwaitFetch(r, body, record) ==
    /\ req' = [req EXCEPT ![r].pc = "fetch", ![r].up = body, ![r].audit = @ \cup record]
    /\ UNCHANGED <<config, socket, inFlight, server, grace>>

----------------------------------------------------------------------------
(* Connections and arrivals.                                                *)

Connect(r) ==
    /\ server = "listening" /\ socket[r] = "none"
    /\ socket' = [socket EXCEPT ![r] = "open"]
    /\ UNCHANGED <<config, req, inFlight, server, grace>>

ClientLeaves(r) ==
    /\ Running /\ socket[r] = "open"
    /\ socket' = [socket EXCEPT ![r] = "left"]
    /\ UNCHANGED <<config, req, inFlight, server, grace>>

\* The keep-alive timeout of a connection whose request has been answered; a
\* connection that was sent a 413 is destroyed.
KeepAliveEnds(r) ==
    /\ At(r, "done") /\ socket[r] = "open"
    /\ socket' = [socket EXCEPT ![r] = "cut"]
    /\ UNCHANGED <<config, req, inFlight, server, grace>>

Arriving(r) == At(r, "idle") /\ socket[r] = "open"

\* Mutant: the ceiling is checked off by one.
AtCeilingLate == config.maxInFlight > 0 /\ inFlight > config.maxInFlight

AtCeiling == config.maxInFlight > 0 /\ inFlight >= config.maxInFlight

\* 503 at the ceiling, before any work and without being counted.
Overloaded(r) ==
    /\ Arriving(r) /\ AtCeiling
    /\ Finish(r, "busy", {})

Admit(r) ==
    /\ Arriving(r) /\ ~AtCeiling
    /\ inFlight' = inFlight + 1
    /\ req' = [req EXCEPT ![r].counted = TRUE, ![r].pc = "auth"]
    /\ UNCHANGED <<config, socket, server, grace>>

\* Refused on arrival: not from the trusted TLS hop, or an absolute target.
\* It is counted and leaves again within the same step.
RefuseAtDoor(r) ==
    /\ Arriving(r) /\ ~AtCeiling
    /\ Finish(r, "unrecorded", {})

\* live, health and metrics answer at once, at the ceiling too.
Observe(r) ==
    /\ Arriving(r)
    /\ Finish(r, "observed", {})

AskReady(r) == Arriving(r) /\ Await(r, "ready")

\* handleReady: the probe's outcome is the answer.
Ready(r) == At(r, "ready") /\ Finish(r, "observed", {})

\* Any other GET below /__haechi/ is exempt from the ceiling and the count,
\* and is then handled like an ordinary request.
ReservedPath(r) == Arriving(r) /\ Await(r, "auth")

----------------------------------------------------------------------------
(* From the gate to the upstream.                                           *)

\* authorizeRequest: no identity, or a provider that throws, is recorded as
\* denied; the provider is absent with auth.provider "none".
Authenticate(r) ==
    /\ At(r, "auth")
    /\ Await(r, "rate") \/ AwaitRecord(r, "auth_denied")

\* readBody registers its listeners.
AwaitBody(r) ==
    /\ req' = [req EXCEPT ![r].pc = "body", ![r].watched = socket[r] = "open"]
    /\ UNCHANGED <<config, socket, inFlight, server, grace>>

RateLimit(r) ==
    /\ At(r, "rate")
    /\ AwaitBody(r) \/ AwaitRecord(r, "rate_limited") \/ Fail(r)

\* isStreamingRequest, by streaming.requestMode: inspected unless the route
\* has no streaming format, passed through once recorded, or refused.
Streaming(r) ==
    \/ config.requestMode = "inspect" /\ AwaitProtect(r, "stream")
    \/ config.requestMode = "pass-through" /\ AwaitRecord(r, "pass_through")
    \/ config.requestMode # "pass-through" /\ Finish(r, "unrecorded", {})

\* readBody and what follows it: too large, not UTF-8 or not JSON; a model that
\* is not allowed; a stream; or ordinary JSON.
ReadBody(r) ==
    /\ At(r, "body") /\ socket[r] = "open"
    /\ \/ Fail(r)
       \/ AwaitRecord(r, "model_not_allowed")
       \/ Streaming(r)
       \/ AwaitProtect(r, "json")

\* The request's "error" event when the connection closes under readBody.
BodyAborted(r) == At(r, "body") /\ Disconnected(r) /\ Fail(r)

\* Mutant: auditSink.record() is not awaited.
ProtectUnrecorded(r) ==
    /\ At(r, "protect")
    /\ \/ Fail(r)
       \/ Finish(r, "denied", {"request"})
       \/ \E written \in SUBSET {"request"} : AwaitFetch(r, "protected", written)

\* protectJson records its event before it returns; it throws when the
\* payload is too deep, or the filter, the vault or the audit sink fails.
Protect(r) ==
    /\ At(r, "protect")
    /\ \/ Fail(r)
       \/ Finish(r, "denied", {"request"})
       \/ AwaitFetch(r, "protected", {"request"})

\* A decision has been recorded, and takes effect.
Decided(r, decision) ==
    \/ decision \in Denials \cup {"response_blocked"} /\ Finish(r, "denied", {decision})
    \/ decision = "response_allowed" /\ Finish(r, "raw", {decision})
    \/ decision \in {"stream_inspected", "stream_blocked"} /\ Finish(r, "protected", {decision})
    \/ decision = "pass_through" /\ AwaitFetch(r, "raw", {decision})

\* Mutant: a denial is answered though its record failed.
RecordLoosely(r) ==
    /\ At(r, "record")
    /\ \/ req[r].todo \in Denials /\ Finish(r, "denied", {})
       \/ Fail(r) \/ Decided(r, req[r].todo)

\* recordProxyDecision and recordStreamDecision; the sink may fail.
Record(r) ==
    /\ At(r, "record")
    /\ Fail(r) \/ Decided(r, req[r].todo)

\* The response's head is written and its body will be written as it comes.
\* The disconnect listeners of a pipe hear a close that comes after this.
StartAnswer(r, step) ==
    /\ req' = [req EXCEPT ![r].pc = step, ![r].out = "started",
                          ![r].watched = step = "read" /\ socket[r] = "open"]
    /\ UNCHANGED <<config, socket, inFlight, server, grace>>

\* A part of the body is written.
WritePart(r, step, part) ==
    /\ req' = [req EXCEPT ![r].pc = step, ![r].out = part]
    /\ UNCHANGED <<config, socket, inFlight, server, grace>>

\* forward: the upstream cannot be reached, is late, or answers.
Fetch(r) ==
    /\ At(r, "fetch")
    /\ \/ Fail(r)
       \/ req[r].todo = "json" /\ Await(r, "respond")
       \/ req[r].todo = "stream" /\ StartAnswer(r, "stream")
       \/ req[r].todo = "pass_through" /\ StartAnswer(r, "read")

----------------------------------------------------------------------------
(* The answer.                                                              *)

\* unprotectedResponseDecision: a body over the cap is a hard denial;
\* compressed, non-JSON and malformed ones follow failureMode.
UnprotectedDecision(r) ==
    \/ AwaitRecord(r, "response_blocked")
    \/ config.responses = "allow" /\ AwaitRecord(r, "response_allowed")

\* maybeProtectResponse up to protectJson.
Respond(r) ==
    /\ At(r, "respond")
    /\ \/ Fail(r)
       \/ config.responses = "off" /\ (Finish(r, "raw", {}) \/ Finish(r, "unrecorded", {}))
       \/ config.responses # "off" /\ UnprotectedDecision(r)
       \/ config.responses # "off" /\ Await(r, "protectResponse")

\* protectJson on the response, then the token round-trip, which may fail.
ProtectResponse(r) ==
    /\ At(r, "protectResponse")
    /\ \/ Fail(r)
       \/ Finish(r, "denied", {"response"})
       \/ Finish(r, "protected", {"response"})

\* inspectResponseStream writes a frame's protected content as it comes, before
\* the stream's decision is recorded ...
StreamFrame(r) == At(r, "stream") /\ WritePart(r, "stream", "partProtected")

\* ... handleInspectedStream once inspectResponseStream has returned ...
StreamEnds(r) ==
    /\ At(r, "stream")
    /\ AwaitRecord(r, "stream_inspected") \/ AwaitRecord(r, "stream_blocked")

\* ... or has rejected: the upstream broke off or ran into its timeout.
StreamBreaks(r) == At(r, "stream") /\ Fail(r)

\* Mutant: waiting for "drain" is not raced against the disconnect.
TearDownReads(r) ==
    /\ At(r, "read") /\ Disconnected(r)
    /\ Finish(r, "cut", {})

\* tearDown has fired: a parked read or drain is released and the pipe returns.
TearDown(r) ==
    /\ Running /\ req[r].pc \in Piping /\ Disconnected(r)
    /\ Finish(r, "cut", {})

\* One read of pipeUpstreamBodyBounded: a chunk, which a client that is behind
\* or gone does not take; the end; an error; or a chunk over the cap.
PipeRead(r) ==
    /\ At(r, "read") /\ ~Disconnected(r)
    /\ \/ WritePart(r, "drain", "partRaw")
       \/ socket[r] = "open" /\ WritePart(r, "read", "partRaw")
       \/ Finish(r, "raw", {})
       \/ FinishWith(r, "cut", {}, [socket EXCEPT ![r] = IF @ = "open" THEN "cut" ELSE @])

\* The "drain" event, which only a live connection emits.
Drained(r) ==
    /\ At(r, "drain") /\ socket[r] = "open"
    /\ Await(r, "read")

----------------------------------------------------------------------------
(* close().                                                                 *)

\* Idle keep-alive connections are closed; one that has not sent a request
\* yet is not idle to Node.  With nothing in flight no timer is armed.
Close ==
    /\ server = "listening"
    /\ server' = "closing"
    /\ socket' = [r \in Requests |->
                    IF socket[r] = "open" /\ req[r].pc = "done" THEN "cut" ELSE socket[r]]
    /\ grace' = IF inFlight <= 0 THEN "off" ELSE "armed"
    /\ UNCHANGED <<config, req, inFlight>>

\* Mutant: the timer closes idle connections only.
GraceElapsesGently ==
    /\ server = "closing" /\ grace = "armed"
    /\ grace' = "elapsed"
    /\ socket' = [r \in Requests |->
                    IF socket[r] = "open" /\ req[r].pc = "done" THEN "cut" ELSE socket[r]]
    /\ UNCHANGED <<config, req, inFlight, server>>

GraceElapses ==
    /\ server = "closing" /\ grace = "armed"
    /\ grace' = "elapsed"
    /\ socket' = CutAll(socket)
    /\ UNCHANGED <<config, req, inFlight, server>>

\* server.close()'s callback: finish() clears the timer and resolves.
Closed ==
    /\ server = "closing"
    /\ \A r \in Requests : socket[r] # "open"
    /\ server' = "closed"
    /\ grace' = "off"
    /\ UNCHANGED <<config, socket, req, inFlight>>

----------------------------------------------------------------------------

Handler(r) ==
    \/ Overloaded(r) \/ Admit(r) \/ RefuseAtDoor(r) \/ Observe(r) \/ AskReady(r) \/ Ready(r)
    \/ ReservedPath(r) \/ Authenticate(r) \/ RateLimit(r) \/ ReadBody(r) \/ BodyAborted(r)
    \/ Protect(r) \/ Record(r) \/ Fetch(r) \/ Respond(r) \/ ProtectResponse(r) \/ StreamFrame(r)
    \/ StreamEnds(r) \/ StreamBreaks(r) \/ TearDown(r) \/ PipeRead(r) \/ Drained(r)

Next ==
    \/ \E r \in Requests :
           Connect(r) \/ ClientLeaves(r) \/ KeepAliveEnds(r) \/ Handler(r)
    \/ Close \/ GraceElapses \/ Closed

\* Timers fire and callbacks run, and an upstream read ends: limits
\* .upstreamTimeoutMs aborts it.  Clients, providers and sinks owe nothing.
Fairness ==
    /\ WF_vars(GraceElapses)
    /\ WF_vars(Closed)
    /\ \A r \in Requests : WF_vars(TearDown(r)) /\ WF_vars(PipeRead(r))

Spec == Init /\ [][Next]_vars /\ Fairness

----------------------------------------------------------------------------
(* What the gateway promises.                                               *)

\* The state of requestHandler and close() has its type; in particular the
\* count never becomes negative.
TypeOK ==
    /\ config \in Configs
    /\ socket \in [Requests -> {"none", "open", "left", "cut"}]
    /\ req \in [Requests -> Request]
    /\ inFlight \in Nat
    /\ server \in {"listening", "closing", "closed", "crashed"}
    /\ grace \in {"off", "armed", "elapsed"}

InHandler == {r \in Requests : req[r].counted /\ req[r].pc # "done"}

\* "A throw/early-return can never leak the count": inFlight is the number of
\* counted requests whose handler has not returned, on every path through the
\* handler, and it never passes limits.maxInFlight.
InFlightExact ==
    /\ inFlight = Cardinality(InHandler)
    /\ config.maxInFlight > 0 => inFlight <= config.maxInFlight

\* Nothing reaches the upstream before the audit log says how it got there:
\* the protected payload after protectJson's event, the raw one after the
\* pass-through decision.  A failing sink stops the request.
RecordedBeforeForwarded ==
    \A r \in Requests :
        /\ req[r].up = "protected" => "request" \in req[r].audit
        /\ req[r].up = "raw" => "pass_through" \in req[r].audit

\* A client is told of a recorded kind of denial, gets any byte of an answer
\* in the clear, and gets the end of a protected answer, only after the record
\* of that decision was written, though the sink may fail at any of them.  With
\* responseProtection off a plain JSON answer has no decision to record; and
\* the frames of an inspected stream come before their decision, after the
\* request's record only (the end of the stream waits for it).
RecordedBeforeAnswered ==
    \A r \in Requests :
        /\ req[r].out = "denied" =>
               req[r].audit \cap (Denials \cup {"request", "response", "response_blocked"}) # {}
        /\ req[r].out \in {"raw", "partRaw"} =>
               \/ req[r].audit \cap {"pass_through", "response_allowed"} # {}
               \/ config.responses = "off" /\ req[r].out = "raw" /\ req[r].up = "protected"
        /\ req[r].out = "partProtected" => "request" \in req[r].audit
        /\ req[r].out = "protected" =>
               /\ "request" \in req[r].audit
               /\ req[r].audit \cap {"response", "stream_inspected", "stream_blocked"} # {}

\* A connection a step cuts is not that of a counted request at work, unless
\* the grace period is over.
CutsDone ==
    \A r \in Requests :
        socket[r] = "open" /\ socket'[r] = "cut" /\ req[r].counted =>
            req'[r].pc = "done" \/ grace' = "elapsed" \/ server' = "crashed"

\* A graceful close() "waits for in-flight requests to finish": it cuts the
\* connection of a counted request whose handler is still at work only when
\* the grace period is over.
OnlyGraceCuts == [][CutsDone]_vars

\* A close() that armed its timer ends, whatever clients, upstreams, sinks
\* and probes do (packages/proxy close(): "so a stuck keep-alive cannot hold
\* shutdown open forever").
CloseEnds == (server = "closing" /\ grace # "off") ~> (server \in {"closed", "crashed"})

\* A client that leaves while a response is piped to it ends the pipe, and
\* with it the handler's place in the count (tearDown in
\* pipeUpstreamBodyBounded).
LeavingEndsPipe ==
    \A r \in Requests :
        (req[r].pc \in Piping /\ Disconnected(r)) ~> (req[r].pc = "done" \/ ~Running)

\* The same for a client that is gone, whenever it left: "race the drain wait
\* against close so backpressure waits unpark on disconnect".
GoneEndsPipe ==
    \A r \in Requests :
        (req[r].pc \in Piping /\ socket[r] # "open") ~> (req[r].pc = "done" \/ ~Running)
=============================================================================
