--------------------------- MODULE DashboardReads ---------------------------
(***************************************************************************)
(* The dashboard (satellites/dashboard) reading the audit file of a        *)
(* gateway that goes on appending to it: /api/events shows the tail        *)
(* window page by page, /api/chain walks the file behind a cache that is   *)
(* keyed by the file's size and shares one walk among its callers.         *)
(*                                                                         *)
(* A record is its sequence number and its length in units; its last unit  *)
(* holds the newline, so a record of several units can be seen half        *)
(* written.  The file only grows: what readTailEvents reads is what it     *)
(* held at the stat, and one step.  The mtime changes with the size.       *)
(***************************************************************************)
EXTENDS Naturals, Sequences, FiniteSets

CONSTANTS
    DashConfigs,   \* [window, limit, chainMax]
    Pagers,        \* clients that page through the events
    ChainCallers,  \* requests for the chain's status
    Lengths,       \* lengths of records, in units
    MaxRecords     \* bound: records appended

\* MIN_WINDOW is 4096 bytes, the limit at least 1.
DashConfig(c) == {c.window, c.limit, c.chainMax} \subseteq Nat \ {0}

ASSUME DashAssumption ==
    /\ \A c \in DashConfigs : DashConfig(c)
    /\ Lengths \subseteq Nat \ {0} /\ MaxRecords \in Nat

VARIABLES
    dash,       \* the configuration
    log,        \* the lengths of the complete records; the i-th has sequence i
    partial,    \* units of the record being appended that are in the file
    pager,      \* client -> what it has been shown
    chainCache, \* cacheKey and cachedResult
    walk,       \* inFlight
    caller      \* request for the chain -> where it is

dashVars == <<dash, log, partial, pager, chainCache, walk, caller>>

NoPage == [refused |-> FALSE, cursor |-> 0, first |-> 0, seen |-> {}, exceeded |-> FALSE, over |-> FALSE]
NoCache == [key |-> 0, status |-> 0, records |-> 0]
NoWalk == [at |-> "none"]
NoCaller == [at |-> "idle"]

DashInit(c) ==
    /\ dash = c
    /\ log = <<>>
    /\ partial = 0
    /\ pager = [u \in Pagers |-> NoPage]
    /\ chainCache = NoCache
    /\ walk = NoWalk
    /\ caller = [r \in ChainCallers |-> NoCaller]

\* Where record i begins.
Offset[i \in Nat] == IF i <= 1 THEN 0 ELSE Offset[i - 1] + log[i - 1]
LogSize == Offset[Len(log) + 1] + partial

-----------------------------------------------------------------------------
\* The gateway's sink (external here: module FileAuditSink)

\* The write of a record reaches the file in one piece, or first in part.
AppendRecord(n) ==
    /\ partial < n
    /\ Len(log) < MaxRecords
    /\ log' = Append(log, n)
    /\ partial' = 0
    /\ UNCHANGED <<dash, pager, chainCache, walk, caller>>

AppendPart ==
    /\ partial = 0
    /\ \E n \in Lengths : n > 1
    /\ Len(log) < MaxRecords
    /\ partial' = 1
    /\ UNCHANGED <<dash, log, pager, chainCache, walk, caller>>

-----------------------------------------------------------------------------
\* handleRequest: an /api request that fails the Host check, the method
\* allowlist, the rate limit (module RateLimiters) or the session guard
\* (module OidcSessions), in this order, never reaches its route.
Refuse(u) ==
    /\ ~pager[u].refused
    /\ pager' = [pager EXCEPT ![u].refused = TRUE]
    /\ UNCHANGED <<dash, log, partial, chainCache, walk, caller>>

-----------------------------------------------------------------------------
\* /api/events

WindowStart == IF LogSize > dash.window THEN LogSize - dash.window ELSE 0
CoveredFromStart == WindowStart = 0

\* readTailEvents: the whole records of the window; the line the window
\* starts in is dropped even if the window starts where it does, and an
\* incomplete last line does not parse.
TailEvents == {i \in 1..Len(log) : CoveredFromStart \/ Offset[i] > WindowStart}

\* Mutant: a cursor at the oldest event of the window is still inside it.
PredatesWindowLate(cursor) == ~CoveredFromStart /\ \A i \in TailEvents : cursor < i

\* cursor <= minSeqInWindow, which is Infinity for an empty window.
PredatesWindow(cursor) == ~CoveredFromStart /\ \A i \in TailEvents : cursor <= i

\* The newest events of the set, at most limit of them.
FirstPage(events) == {i \in events : Cardinality({j \in events : j > i}) < dash.limit}
Oldest(page) == CHOOSE i \in page : \A j \in page : i <= j
Newest(page) == CHOOSE i \in page : \A j \in page : j <= i

\* handleEvents without a cursor.
FirstEvents(u) ==
    /\ pager[u].cursor = 0
    /\ LET page == FirstPage(TailEvents) IN
       /\ page # {}
       /\ pager' = [pager EXCEPT ![u] = [refused |-> FALSE, cursor |-> Oldest(page), first |-> Newest(page),
                                         seen |-> page, exceeded |-> FALSE, over |-> FALSE]]
    /\ UNCHANGED <<dash, log, partial, chainCache, walk, caller>>

\* handleEvents with the nextCursor of the previous page; the client stops
\* when there is none.
OlderEvents(u) ==
    /\ pager[u].cursor # 0 /\ ~pager[u].over
    /\ LET page == FirstPage({i \in TailEvents : i < pager[u].cursor}) IN
       pager' = [pager EXCEPT ![u] =
           [refused |-> FALSE, first |-> @.first, seen |-> @.seen \cup page,
            cursor |-> IF page = {} THEN @.cursor ELSE Oldest(page),
            exceeded |-> PredatesWindow(@.cursor), over |-> page = {}]]
    /\ UNCHANGED <<dash, log, partial, chainCache, walk, caller>>

-----------------------------------------------------------------------------
\* /api/chain

\* compute(): what a walk of the file as it is now reports.
Computed ==
    IF LogSize > dash.chainMax THEN [status |-> 413, records |-> 0]
    ELSE [status |-> 200, records |-> Len(log)]

Answered(r, result, floor) ==
    [r EXCEPT !.at = "answered", !.status = result.status, !.records = result.records, !.floor = floor]

\* get() up to its first await that is not the stat: a hit, a walk to join, or
\* a walk to begin.  floor is what the answer must at least report.
ChainGet(r) ==
    /\ caller[r].at \in {"idle", "answered"}
    /\ LET began == [at |-> "waits", status |-> 0, records |-> 0, floor |-> Len(log), hit |-> FALSE] IN
       IF chainCache.key = LogSize /\ chainCache.status # 0
       THEN /\ caller' = [caller EXCEPT ![r] = Answered([began EXCEPT !.hit = TRUE], chainCache, Len(log))]
            /\ UNCHANGED walk
       ELSE /\ caller' = [caller EXCEPT ![r] = began]
            /\ walk' = IF walk # NoWalk THEN walk
                       ELSE [at |-> "walks", key |-> LogSize, floor |-> Len(log)]
    /\ UNCHANGED <<dash, log, partial, pager, chainCache>>

\* compute() stats again and reads the file.
WalkReads ==
    /\ walk.at = "walks"
    /\ walk' = [at |-> "read", key |-> walk.key, floor |-> walk.floor, result |-> Computed]
    /\ UNCHANGED <<dash, log, partial, pager, chainCache, caller>>

\* Mutant: the key is taken when the walk ends.
KeyAtEnd(w) == LogSize

\* The key of the stat before the walk.
CacheKey(w) == w.key

Settled(result) == [r \in ChainCallers |->
    IF caller[r].at = "waits" THEN Answered(caller[r], result, walk.floor) ELSE caller[r]]

WalkEnds ==
    /\ walk.at = "read"
    /\ chainCache' = [key |-> CacheKey(walk), status |-> walk.result.status, records |-> walk.result.records]
    /\ caller' = Settled(walk.result)
    /\ walk' = NoWalk
    /\ UNCHANGED <<dash, log, partial, pager>>

\* The walk throws: everyone who waits gets a 500, the cache stays.
WalkFails ==
    /\ walk # NoWalk
    /\ caller' = Settled([status |-> 500, records |-> 0])
    /\ walk' = NoWalk
    /\ UNCHANGED <<dash, log, partial, pager, chainCache>>

LogGrows == AppendPart \/ \E n \in Lengths : AppendRecord(n)
EventsRoute == \E u \in Pagers : Refuse(u) \/ FirstEvents(u) \/ OlderEvents(u)
ChainRoute == (\E r \in ChainCallers : ChainGet(r)) \/ WalkReads \/ WalkEnds \/ WalkFails

DashNext == LogGrows \/ EventsRoute \/ ChainRoute

DashSpec == (\E c \in DashConfigs : DashInit(c)) /\ [][DashNext]_dashVars

-----------------------------------------------------------------------------
\* Properties

\* Paging back through a log that grows and a window that moves skips and
\* repeats nothing, and a client that reaches the last page has seen the first
\* record or is told that the window was exceeded (dashboard/index.mjs:954-964).
PagedWithoutGap ==
    \A u \in Pagers : pager[u].cursor # 0 =>
        /\ pager[u].seen = pager[u].cursor..pager[u].first
        /\ pager[u].over => pager[u].cursor = 1 \/ pager[u].exceeded

\* The chain's status is never older than the walk that a request began or
\* joined, and a cached one is exactly that of the file as it is
\* (dashboard/index.mjs:575-602).
ChainAnswerCurrent ==
    \A r \in ChainCallers : caller[r].at = "answered" /\ caller[r].status = 200 =>
        /\ caller[r].records >= caller[r].floor
        /\ caller[r].hit => caller[r].records = caller[r].floor
=============================================================================
