------------------------------ MODULE McpStdio ------------------------------
(***************************************************************************)
(* MCP over stdio (packages/mcp-stdio and the mcp-stdio and mcp-wrap       *)
(* commands): a filter of one stream of JSON-RPC lines, or a wrapper       *)
(* around a server child with one pump per direction and, for the child's  *)
(* stderr, a queue of lines.  Each pump protects its lines one at a time.  *)
(* Closing a readline interface ends the reading of its pipe; lines it has *)
(* read already are still handed to the pump.                              *)
(***************************************************************************)
EXTENDS Naturals, Sequences

CONSTANTS
    McpLines,        \* lines a peer may write
    AllowedMethods,  \* mcp.allowedMethods
    MaxLines         \* bound: lines written

\* A line: whether it is blank, bad (not a JSON object) or a message, its
\* version, method ("none" for a response), whether it has an id, and whether
\* its params or result are blocked by the policy.
McpLine(l) ==
    /\ l.form \in {"blank", "bad", "message"}
    /\ {l.jsonrpc2, l.hasId, l.flagged} \subseteq BOOLEAN
    /\ l.method \in AllowedMethods \cup {"none", "other"}

ASSUME McpAssumption == (\A l \in McpLines : McpLine(l)) /\ MaxLines \in Nat

Sides == {"client", "server", "stderr"}

VARIABLES
    mcpMode,      \* "filter" or "wrap"
    spoken,       \* lines written so far
    pipe,         \* side -> lines written but not read
    writerEnded,  \* sides whose writer closed its end
    queued,       \* side -> lines read but not taken by the pump
    readerClosed, \* sides whose readline interface is closed
    pump,         \* side -> where the pump is
    child,        \* "running", "exited" or "failed"
    stdinWritable,
    toChild,      \* the kinds of the lines written to the child
    toClient,     \* the kinds of the lines written to the client
    wrapped       \* the promise: "pending", "resolved", "rejected"; "crashed"

mcpVars == <<mcpMode, spoken, pipe, writerEnded, queued, readerClosed, pump, child,
             stdinWritable, toChild, toClient, wrapped>>

PumpIdle == [at |-> "idle"]
PumpReturned == [at |-> "returned"]

\* The filter has the client's side alone.
Active == IF mcpMode = "filter" THEN {"client"} ELSE Sides

McpInit(mode) ==
    /\ mcpMode = mode
    /\ spoken = 0
    /\ pipe = [d \in Sides |-> <<>>]
    /\ writerEnded = {}
    /\ queued = [d \in Sides |-> <<>>]
    /\ readerClosed = {}
    /\ pump = [d \in Sides |-> PumpIdle]
    /\ child = "running"
    /\ stdinWritable = (mode = "wrap")
    /\ toChild = <<>>
    /\ toClient = <<>>
    /\ wrapped = "pending"

outVars == <<child, stdinWritable, toChild, toClient, wrapped>>
Works == wrapped # "crashed"

-----------------------------------------------------------------------------
\* The peers

Speak(d, l) ==
    /\ d \in Active \ writerEnded
    /\ d # "client" => child = "running"
    /\ spoken < MaxLines
    /\ spoken' = spoken + 1
    /\ pipe' = [pipe EXCEPT ![d] = Append(@, l)]
    /\ UNCHANGED <<mcpMode, writerEnded, queued, readerClosed, pump, outVars>>

\* The client, or the child, closes its end (that of stderr changes nothing).
EndStream(d) ==
    /\ d \in Active \ (writerEnded \cup {"stderr"})
    /\ d # "client" => child = "running"
    /\ writerEnded' = writerEnded \cup {d}
    /\ UNCHANGED <<mcpMode, spoken, pipe, queued, readerClosed, pump, outVars>>

\* Mutant: the wrapper goes on reading a client that stays.
ChildExitsUnheard ==
    /\ mcpMode = "wrap" /\ child = "running" /\ Works
    /\ child' = "exited"
    /\ stdinWritable' = FALSE
    /\ readerClosed' = readerClosed \cup {"server"}
    /\ UNCHANGED <<mcpMode, spoken, pipe, writerEnded, queued, pump, toChild, toClient, wrapped>>

\* child "exit": stop reading both sides.
ChildExits ==
    /\ mcpMode = "wrap" /\ child = "running" /\ Works
    /\ child' = "exited"
    /\ stdinWritable' = FALSE
    /\ readerClosed' = readerClosed \cup {"client", "server"}
    /\ UNCHANGED <<mcpMode, spoken, pipe, writerEnded, queued, pump, toChild, toClient, wrapped>>

\* child "error": it never started, and the command ends with the error.
SpawnFails ==
    /\ mcpMode = "wrap" /\ child = "running" /\ toChild = <<>> /\ Works
    /\ \A d \in Sides \ {"client"} :
           d \notin writerEnded /\ pipe[d] = <<>> /\ queued[d] = <<>> /\ pump[d] = PumpIdle
    /\ child' = "failed"
    /\ stdinWritable' = FALSE
    /\ wrapped' = "rejected"
    /\ UNCHANGED <<mcpMode, spoken, pipe, writerEnded, queued, readerClosed, pump, toChild, toClient>>

-----------------------------------------------------------------------------
\* The pumps

ReadLine(d) ==
    /\ d \in Active \ readerClosed
    /\ pipe[d] # <<>>
    /\ queued' = [queued EXCEPT ![d] = Append(@, Head(pipe[d]))]
    /\ pipe' = [pipe EXCEPT ![d] = Tail(@)]
    /\ UNCHANGED <<mcpMode, spoken, writerEnded, readerClosed, pump, outVars>>

\* End of the stream.
ReaderEnds(d) ==
    /\ d \in (Active \cap writerEnded) \ readerClosed
    /\ pipe[d] = <<>>
    /\ readerClosed' = readerClosed \cup {d}
    /\ UNCHANGED <<mcpMode, spoken, pipe, writerEnded, queued, pump, outVars>>

\* A line is taken, and protectTagged (protectStderrLine) begins; blank lines
\* are skipped.
TakeLine(d) ==
    /\ pump[d] = PumpIdle
    /\ queued[d] # <<>>
    /\ queued' = [queued EXCEPT ![d] = Tail(@)]
    /\ pump' = IF Head(queued[d]).form = "blank" THEN pump
               ELSE [pump EXCEPT ![d] = [at |-> "protect", line |-> Head(queued[d])]]
    /\ UNCHANGED <<mcpMode, spoken, pipe, writerEnded, readerClosed, outVars>>

\* protectTagged.  A rejected notification has nobody to answer to, except
\* that a blocked result is always rejected (a result has no method).
Tagged(l, d) ==
    IF l.form = "bad" THEN "error"
    ELSE IF \/ ~l.jsonrpc2
            \/ d = "client" /\ l.method \notin AllowedMethods \cup {"none"}
            \/ l.flagged
         THEN IF l.method # "none" /\ ~l.hasId THEN "drop" ELSE "reject"
    ELSE "forward"

\* What the pump writes: an error, from JSON.parse or the pipeline, and a
\* rejection go to the client in both directions; the child gets what may
\* pass, if it can still be written to.
Emit(d, kind) ==
    /\ toChild' = IF kind = "forward" /\ d = "client" /\ stdinWritable
                  THEN Append(toChild, kind) ELSE toChild
    /\ toClient' = IF kind \in {"error", "reject"} \/ (kind = "forward" /\ (d = "server" \/ mcpMode = "filter"))
                   THEN Append(toClient, kind) ELSE toClient

EmitLine(d) ==
    /\ d # "stderr" /\ Works
    /\ pump[d].at = "protect"
    /\ \E kind \in {Tagged(pump[d].line, d), "error"} : Emit(d, kind)
    /\ pump' = [pump EXCEPT ![d] = PumpIdle]
    /\ UNCHANGED <<mcpMode, spoken, pipe, writerEnded, queued, readerClosed, child, stdinWritable, wrapped>>

\* A stderr line is written out, dropped when blocked; when protecting it
\* fails, nothing handles the rejection of the queue and the process ends.
EmitStderr ==
    /\ Works
    /\ pump["stderr"].at = "protect"
    /\ pump' = [pump EXCEPT !["stderr"] = PumpIdle]
    /\ \/ UNCHANGED wrapped
       \/ wrapped' = "crashed"
    /\ UNCHANGED <<mcpMode, spoken, pipe, writerEnded, queued, readerClosed, child, stdinWritable, toChild, toClient>>

\* EPIPE: the child has closed its input, or died, with something written to
\* it.  Nobody listens for the "error" of child.stdin, and the process ends.
InputBreaks ==
    /\ toChild # <<>> /\ wrapped = "pending"
    /\ wrapped' = "crashed"
    /\ UNCHANGED <<mcpMode, spoken, pipe, writerEnded, queued, readerClosed, pump, child, stdinWritable, toChild, toClient>>

\* The for-await loop ends; the client's pump ends the child's input.
PumpReturns(d) ==
    /\ d # "stderr"
    /\ pump[d] = PumpIdle
    /\ queued[d] = <<>> /\ d \in readerClosed
    /\ pump' = [pump EXCEPT ![d] = PumpReturned]
    /\ stdinWritable' = (stdinWritable /\ d # "client")
    /\ wrapped' = IF mcpMode = "filter" THEN "resolved" ELSE wrapped
    /\ UNCHANGED <<mcpMode, spoken, pipe, writerEnded, queued, readerClosed, child, toChild, toClient>>

\* Promise.allSettled after the exit.
Resolve ==
    /\ child = "exited" /\ wrapped = "pending"
    /\ \A d \in {"client", "server"} : pump[d] = PumpReturned
    /\ wrapped' = "resolved"
    /\ UNCHANGED <<mcpMode, spoken, pipe, writerEnded, queued, readerClosed, pump, child, stdinWritable, toChild, toClient>>

-----------------------------------------------------------------------------
PumpStep(d) == Works /\ (ReadLine(d) \/ ReaderEnds(d) \/ TakeLine(d) \/ EmitLine(d) \/ PumpReturns(d))

McpNext ==
    \/ \E d \in Sides, l \in McpLines : Speak(d, l)
    \/ \E d \in Sides : EndStream(d) \/ PumpStep(d)
    \/ EmitStderr \/ InputBreaks \/ ChildExits \/ SpawnFails \/ Resolve

\* Node goes on reading pipes, and protecting a line ends or fails.
McpFairness == (\A d \in Sides : WF_mcpVars(PumpStep(d))) /\ WF_mcpVars(EmitStderr) /\ WF_mcpVars(Resolve)

McpSpec == (\E mode \in {"filter", "wrap"} : McpInit(mode)) /\ [][McpNext]_mcpVars /\ McpFairness

-----------------------------------------------------------------------------
\* Properties

\* The wrapper ends once the child has exited, even when the client keeps its
\* end open, and the filter once its input ends; both only after every line
\* they had read has been dealt with ("so the pumps can settle even when the
\* caller's input stream stays open", mcp-stdio/index.mjs:140-141).
WrapEnds ==
    (child = "exited" \/ (mcpMode = "filter" /\ "client" \in writerEnded))
        ~> \/ wrapped = "crashed"
           \/ /\ wrapped = "resolved"
              /\ \A d \in {"client", "server"} : queued[d] = <<>> /\ pump[d].at # "protect"
=============================================================================
