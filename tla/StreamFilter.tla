---------------------------- MODULE StreamFilter ----------------------------
(***************************************************************************)
(* Inspecting one SSE/NDJSON response stream: inspectResponseStream        *)
(* (packages/stream-filter) over createStreamProtector (packages/core).    *)
(* The delta text is a run of positions 0 .. TextLength-1; all that is     *)
(* known of it is where the rules of the filter match.  A rule matches     *)
(* from `start' as soon as the text up to `least' is there, and greedily   *)
(* goes on to `end' as more arrives.  What it finds depends on the text    *)
(* around it: a lookbehind needs the text from `needs' on, and a boundary  *)
(* or a validator may let it match only at the very edge of the text it is *)
(* given.                                                                  *)
(***************************************************************************)
EXTENDS Naturals, FiniteSets, FiniteSetsExt

CONSTANTS
    TextLength,     \* bound: characters of the delta channel
    MaxMatchBytes,  \* streaming.maxMatchBytes
    MaxDelta,       \* bound: characters in one frame
    MaxOthers,      \* bound: frames other than plain delta frames
    Rules,          \* the rules, numbered in the order they are run
    Texts           \* the delta texts: the matches of each, and its folds

Positions == 0 .. TextLength

\* One place where a rule of DEFAULT_RULES may match.  "edge" on the left: it
\* matches only where the text it is given begins at `start' (inside a word,
\* \b and (?<!...) hold only there); on the right: only while that text goes no
\* further than `end' (\b, (?!...), a validator that rejects the longer run, a
\* marker of Haechi's own that is complete only then).
Matches ==
    [rule : Rules, type : Rules, action : {"allow", "redact", "block"},
     needs : Positions, start : Positions, least : Positions, end : Positions,
     left : {"free", "edge"}, right : {"free", "edge"}]

ASSUME StreamBounds ==
    /\ TextLength \in Nat /\ MaxMatchBytes \in Nat \ {0}
    /\ MaxDelta \in Nat /\ MaxOthers \in Nat /\ Rules \subseteq Nat

\* "maxMatchBytes bounds the guarantee": what makes a rule match fits it.
\* Every rule matches at one place (a rule that matches at more of them is
\* counted as so many rules), so that a match is known by its rule.
ASSUME TextsAssumption ==
    \A t \in Texts :
        /\ t.hits \subseteq Matches /\ t.folds \subseteq Positions
        /\ \A h \in t.hits :
               /\ h.needs <= h.start /\ h.start < h.least /\ h.least <= h.end
               /\ h.least - h.start <= MaxMatchBytes
               /\ \A g \in t.hits : g.rule = h.rule => g = h

VARIABLES
    hits,       \* the matches of the text
    folds,      \* where NFKC changes its length: what follows is displaced
    enforced,   \* responseMode "enforce", not "report-only"
    received,   \* delta characters received
    base,       \* where `pending' begins: what is before it has been emitted
    shown,      \* how each character was emitted
    tally,      \* how often each rule's match was counted
    frame,      \* the frame being handled
    framePc,    \* where handleFrame is
    status,     \* the stream: "open", "done", "blocked", "failed"
    cuts,       \* history: where the tail was flushed
    heads,      \* history: where push cut the head of pending off
    others

text == <<hits, folds, enforced>>
streamVars == <<text, received, base, shown, tally, frame, framePc, status, cuts, heads, others>>

NoFrame == [kind |-> "none"]

\* createStreamProtector, for the delta text t, in mode e.
StreamStart(t, e) ==
    /\ hits = t.hits /\ folds = t.folds
    /\ enforced = e
    /\ received = 0 /\ base = 0 /\ others = 0
    /\ cuts = {0} /\ heads = {}
    /\ shown = [i \in 0 .. TextLength - 1 |-> "held"]
    /\ tally = [r \in Rules |-> 0]
    /\ frame = NoFrame
    /\ framePc = "next"
    /\ status = "open"

StreamInit == \E t \in Texts, e \in BOOLEAN : StreamStart(t, e)

-----------------------------------------------------------------------------
\* filterEngine.detect

\* Whether the rule of h matches there in the text from a up to b.
FoundIn(h, a, b) ==
    /\ IF h.left = "edge" THEN a = h.start ELSE a <= h.needs
    /\ h.least <= b
    /\ h.right = "edge" => b <= h.end

\* What matchAll finds in the text from a up to b.
Found(a, b) ==
    {[h EXCEPT !.end = IF @ <= b THEN @ ELSE b] : h \in {g \in hits : FoundIn(g, a, b)}}

\* The order removeOverlaps sorts in: by start, the longest first, then as run.
Before(g, h) ==
    \/ g.start < h.start
    \/ g.start = h.start /\ g.end > h.end
    \/ g.start = h.start /\ g.end = h.end /\ g.rule < h.rule

\* removeOverlaps: a detection is dropped iff one accepted before it reaches
\* into it.
RemoveOverlaps(found) ==
    CHOOSE accepted \in SUBSET found :
        \A h \in found :
            h \in accepted <=> \A g \in accepted : Before(g, h) => g.end <= h.start

\* wholeLeafDetections: one detection for each type, of all the text.
WholeLeaf(found, a, b) ==
    {[h EXCEPT !.start = a, !.end = b] :
        h \in {g \in found : \A f \in found : f.type = g.type => g.rule <= f.rule}}

\* scanEntry: where NFKC displaces the text, offsets into it mean nothing.
Detect(a, b) ==
    IF \E f \in folds : a <= f /\ f < b
    THEN WholeLeaf(Found(a, b), a, b)
    ELSE RemoveOverlaps(Found(a, b))

Covers(h, i) == h.start <= i /\ i < h.end

\* transformString, in an enforcing mode.
Transformed(detections, i) ==
    IF enforced /\ \E h \in detections : h.action = "redact" /\ Covers(h, i)
    THEN "replaced" ELSE "raw"

\* Mutant: blocked only if every decision is to block.
BlocksIfAll(detections) ==
    enforced /\ detections # {} /\ \A h \in detections : h.action = "block"

Blocks(detections) == enforced /\ \E h \in detections : h.action = "block"

-----------------------------------------------------------------------------
\* createStreamProtector

\* transformSegment on the first characters of pending, up to `to'.
TransformSegment(to) ==
    LET detections == Detect(base, to)
    IN  /\ tally' = [r \in Rules |-> tally[r] + Cardinality({h \in detections : h.rule = r})]
        /\ base' = to
        /\ IF Blocks(detections)
           THEN status' = "blocked" /\ shown' = shown
           ELSE /\ status' = status
                /\ shown' = [i \in DOMAIN shown |->
                       IF base <= i /\ i < to THEN Transformed(detections, i) ELSE shown[i]]

\* Mutant: straddling detections are not held back.
CommitPointFixed(b) == Max({base, IF b < MaxMatchBytes THEN 0 ELSE b - MaxMatchBytes})

\* push: up to where pending may be committed once the text up to b is there.
CommitPoint(b) ==
    LET window == Max({base, IF b < MaxMatchBytes THEN 0 ELSE b - MaxMatchBytes})
    IN  Min({window} \cup {h.start : h \in {g \in Detect(base, b) : g.end > window}})

\* Mutant: what is detected in pending is counted with every push.
PushRecounting(n) ==
    /\ received' = received + n
    /\ LET commit == CommitPoint(received + n)
       IN  IF commit <= base
           THEN /\ tally' = [r \in Rules |->
                       tally[r] + Cardinality({h \in Detect(base, received + n) : h.rule = r})]
                /\ UNCHANGED <<base, shown, status, heads>>
           ELSE TransformSegment(commit) /\ heads' = heads \cup {commit}

Push(n) ==
    /\ received' = received + n
    /\ LET commit == CommitPoint(received + n)
       IN  IF commit <= base
           THEN UNCHANGED <<base, shown, tally, status, heads>>
           ELSE TransformSegment(commit) /\ heads' = heads \cup {commit}

\* flush: drain the held tail.
Flush ==
    /\ IF base = received
       THEN UNCHANGED <<base, shown, tally, status>>
       ELSE TransformSegment(received)
    /\ cuts' = cuts \cup {received}

-----------------------------------------------------------------------------
\* inspectResponseStream

Verdicts == {"clean", "block"}

\* delta = 0 also stands for a frame without delta text: both push nothing.
Frames ==
    [kind : {"control"}]
    \cup [kind : {"text"}, verdict : Verdicts]
    \cup [kind : {"json"}, terminates : BOOLEAN, extras : Verdicts, delta : 0 .. MaxDelta]

Plain(f) == f.kind = "json" /\ f.delta > 0 /\ ~f.terminates /\ f.extras = "clean"

\* The next frame of the source.
Read(f) ==
    /\ status = "open" /\ framePc = "next"
    /\ f.kind = "json" => received + f.delta <= TextLength
    /\ IF Plain(f) THEN UNCHANGED others ELSE others < MaxOthers /\ others' = others + 1
    /\ frame' = f
    /\ framePc' = IF f.kind = "json" THEN (IF f.terminates THEN "flush" ELSE "extras") ELSE f.kind
    /\ UNCHANGED <<text, received, base, shown, tally, status, cuts, heads>>

\* The frame is written, or dropped because the stream is blocked.
NextFrame == frame' = NoFrame /\ framePc' = "next"

\* [DONE], a comment, a keepalive: written as it came.
PassControl ==
    /\ framePc = "control"
    /\ NextFrame
    /\ UNCHANGED <<text, received, base, shown, tally, status, cuts, heads, others>>

\* A frame that is not JSON, or a bare primitive: protectText.
ProtectText ==
    /\ framePc = "text"
    /\ status' = IF enforced /\ frame.verdict = "block" THEN "blocked" ELSE status
    /\ NextFrame
    /\ UNCHANGED <<text, received, base, shown, tally, cuts, heads, others>>

\* Mutant: the tail waits for the end of the stream.
FlushHeldTailLate ==
    /\ framePc = "flush"
    /\ framePc' = "extras"
    /\ UNCHANGED <<text, received, base, shown, tally, frame, status, cuts, heads, others>>

\* A frame of a type in flushOnType: flushHeldTail before it.
FlushHeldTail ==
    /\ framePc = "flush"
    /\ Flush
    /\ IF status' = "blocked" THEN NextFrame ELSE framePc' = "extras" /\ UNCHANGED frame
    /\ UNCHANGED <<text, received, heads, others>>

ProtectFrameExtras ==
    /\ framePc = "extras"
    /\ IF enforced /\ frame.extras = "block"
       THEN status' = "blocked" /\ NextFrame
       ELSE status' = status /\ framePc' = "push" /\ UNCHANGED frame
    /\ UNCHANGED <<text, received, base, shown, tally, cuts, heads, others>>

PushDelta ==
    /\ framePc = "push"
    /\ Push(frame.delta)
    /\ NextFrame
    /\ UNCHANGED <<text, cuts, others>>

\* The source is exhausted: the last flush.
EndOfStream ==
    /\ status = "open" /\ framePc = "next"
    /\ framePc' = "end"
    /\ Flush
    /\ UNCHANGED <<text, received, frame, heads, others>>

FinishStream ==
    /\ status = "open" /\ framePc = "end"
    /\ status' = "done"
    /\ UNCHANGED <<text, received, base, shown, tally, frame, framePc, cuts, heads, others>>

\* The source, a transformation or the vault behind it throws.
Throws ==
    /\ status = "open"
    /\ status' = "failed"
    /\ NextFrame
    /\ UNCHANGED <<text, received, base, shown, tally, cuts, heads, others>>

-----------------------------------------------------------------------------
StreamNext ==
    \/ \E f \in Frames : Read(f)
    \/ PassControl \/ ProtectText
    \/ FlushHeldTail \/ ProtectFrameExtras \/ PushDelta
    \/ EndOfStream \/ FinishStream \/ Throws

StreamSpec == StreamInit /\ [][StreamNext]_streamVars

-----------------------------------------------------------------------------
\* Properties

\* Every variable has the shape the code gives it.
StreamTypeOK ==
    /\ hits \subseteq Matches /\ folds \subseteq Positions /\ enforced \in BOOLEAN
    /\ received \in 0 .. TextLength /\ base \in 0 .. received
    /\ shown \in [0 .. TextLength - 1 -> {"held", "raw", "replaced"}]
    /\ tally \in [Rules -> Nat]
    /\ frame \in Frames \cup {NoFrame}
    /\ framePc \in {"next", "control", "text", "flush", "extras", "push", "end"}
    /\ status \in {"open", "done", "blocked", "failed"}
    /\ cuts \subseteq 0 .. received /\ heads \subseteq 0 .. received
    /\ others \in 0 .. MaxOthers

\* What is detected at position i when the text between two flushes, as far as
\* it has been received, is protected in one piece.
OneShot(i) ==
    Detect(Max({c \in cuts : c <= i}), Min({c \in cuts : c > i} \cup {received}))

\* A head that ends at c takes from a match the text it is found by, or gives it
\* an edge it does not have in the text; where NFKC displaces the text any cut
\* may do so.
Severs(c) ==
    \/ folds # {}
    \/ \E h \in hits :
           \/ h.left = "free" /\ h.needs < c /\ c <= h.start
           \/ h.left = "edge" /\ h.start = c
           \/ h.right = "edge" /\ h.least <= c /\ c <= h.end

\* No head was cut off in the context of a match.
Unsevered == \A c \in heads : ~Severs(c)

\* However the text is cut into frames, what reaches the client is what
\* protecting it in one piece gives, as long as push cut no head off in the
\* context of a match (its lookbehind, or a boundary that only the cut makes):
\* a match split across frames is caught whole however far it grows, and
\* neither the cut nor what push saw of it before makes or loses one.
SameAsOneShot ==
    Unsevered =>
        \A i \in DOMAIN shown :
            shown[i] # "held" => shown[i] = Transformed(OneShot(i), i)

\* In an enforcing mode no character of a match whose action is block reaches
\* the client: the stream stops "before the offending value is emitted"
\* (docs/current/release-0.5-implementation-scope.md:39), with the same
\* exception.
BlockedNeverShown ==
    Unsevered =>
        \A i \in DOMAIN shown : shown[i] # "held" /\ enforced =>
            \A h \in OneShot(i) : Covers(h, i) => h.action # "block"

\* Text received before a terminating frame or before the end of the stream
\* has all been written by then, each character by one write: "the residual
\* lands in-order BEFORE the terminator" (stream-filter/index.mjs:20-22).
TailBeforeTerminator ==
    /\ frame \in [kind : {"json"}, terminates : {TRUE}, extras : Verdicts, delta : 0 .. MaxDelta]
       /\ framePc \in {"extras", "push"} => base = received
    /\ status = "done" => \A i \in 0 .. received - 1 : shown[i] # "held"

\* Each detection of the emitted text is counted once in the summary that is
\* audited, though push has seen it again with every frame it was held for,
\* with the same exception.
EachCountedOnce ==
    Unsevered =>
        \A h \in hits :
            tally[h.rule] = IF h.start < base /\ \E d \in OneShot(h.start) : d.rule = h.rule
                            THEN 1 ELSE 0

\* What core/index.mjs:96-99 says of the buffer, whatever the rules are: "a
\* detection split across chunk boundaries is caught before the leading part is
\* emitted", up to maxMatchBytes.  The code does not keep it for a rule with a
\* lookbehind: the head may end inside the text that the lookbehind needs.
SplitIsCaught ==
    \A i \in DOMAIN shown : shown[i] = "raw" /\ enforced =>
        \A h \in OneShot(i) : Covers(h, i) => h.action = "allow"
=============================================================================
