--------------------------- MODULE DepthProvider ---------------------------
(***************************************************************************)
(* The external depth provider during one indexing process: a bounded      *)
(* cache and a circuit breaker around sessions with another program, which *)
(* is asked about one entrypoint symbol after the other and may answer,    *)
(* answer with malformed edges, fail or hang.  A service's flow is its     *)
(* resolved static edges followed by what the provider adds.               *)
(*                                                                         *)
(* The process asks about services one at a time.  The commands ask once   *)
(* per root; a root is asked about again by a process that keeps its       *)
(* provider, as the tests do.  Time is a counter that passes between the   *)
(* steps of a session.                                                     *)
(***************************************************************************)
EXTENDS FlowResolution

CONSTANTS
    Roots,          \* the roots of services
    AnalysesOf,     \* AnalysesOf[r]: what the scan of r may have found
    Answers,        \* [symbol, items]: a sequence of items it may answer with
    MaxEdges,       \* edge budget of one service
    CacheEntries,   \* services whose answer is kept
    Threshold,      \* failures that open the circuit
    Cooldown,       \* time the circuit stays open
    Timeout,        \* time a session may take
    MaxRequests,    \* bound of the model: services asked about
    MaxTime         \* bound of the model: time that passes

(* resolve_depth_provider refuses anything else.  MaxTime and MaxRequests   *)
(* only bound what is explored.                                            *)
ASSUME LimitsAssumption ==
    /\ {MaxEdges, CacheEntries, Threshold, Cooldown, Timeout} \subseteq Nat \ {0}
    /\ {MaxRequests, MaxTime} \subseteq Nat

AllAnalyses == UNION {AnalysesOf[r] : r \in Roots}

ASSUME AnalysesAssumption ==
    /\ \A a \in AllAnalyses : IsAnalysis(a)
    /\ \A a \in Answers : IsSequenceOf(a.items, LAMBDA item : TRUE)

VARIABLES
    mode,       \* "augment" or "require", as the command was started
    analysis,   \* analysis[r]: what the scan of r has found
    now,        \* the monotonic clock
    cache,      \* sequence of [key, edges], oldest first
    failures,   \* failed sessions since a success, or since the circuit closed
    openedAt,   \* when the circuit opened, or NotOpen
    session,    \* the session in progress, or NoSession
    flows,      \* sequence of [root, edges] the process has stored
    status,     \* "indexing", or "failed" when require mode has given up
    history     \* sequence of [what, root, at, heard]: how each request ended

vars == <<mode, analysis, now, cache, failures, openedAt, session, flows, status, history>>

NotOpen == [closed |-> TRUE]
NoSession == [idle |-> TRUE]

Init ==
    /\ mode \in {"augment", "require"}
    /\ analysis \in {f \in [Roots -> AllAnalyses] :
                        \A r \in Roots : f[r] \in AnalysesOf[r]}
    /\ now = 0
    /\ cache = <<>>
    /\ failures = 0
    /\ openedAt = NotOpen
    /\ session = NoSession
    /\ flows = <<>>
    /\ status = "indexing"
    /\ history = <<>>

(* The elements at some places, in their order.                            *)
Among(q, places) ==
    [k \in 1..Cardinality(places) |->
        q[CHOOSE i \in places : Cardinality({j \in places : j <= i}) = k]]

(* Every symbol once, in the order of the entrypoints.                     *)
Symbols(r) ==
    LET entries == analysis[r].entrypoints
    IN  Among(entries, {i \in DOMAIN entries : \A j \in 1..(i - 1) : entries[j] # entries[i]})

Key(r) == <<r, Symbols(r)>>

CacheKeys == {cache[i].key : i \in DOMAIN cache}

Cached(key) == cache[CHOOSE i \in DOMAIN cache : cache[i].key = key].edges

(* The edges of one answer: items without a target or of an unknown kind   *)
(* are dropped, and the rest is cut at the budget that is left.  What an   *)
(* item does not say is taken from a default.                              *)
KnownKinds == {"invokes", "injects", "validates", "reads", "writes", "publishes", "consumes"}

GetOr(item, name, default) == IF name \in DOMAIN item THEN item[name] ELSE default

IsEdge(item) == "to" \in DOMAIN item /\ GetOr(item, "kind", "invokes") \in KnownKinds

ValidEdges(payload, symbol) ==
    LET valid == Among(payload, {i \in DOMAIN payload : IsEdge(payload[i])})
    IN  [i \in DOMAIN valid |->
            [source |-> GetOr(valid[i], "from", symbol), target |-> valid[i].to,
             kind |-> GetOr(valid[i], "kind", "invokes"),
             confidence |-> GetOr(valid[i], "confidence", "medium"), origin |-> "codegraph"]]

Least(m, n) == IF m < n THEN m ELSE n

ParseEdges(payload, symbol, budget) ==
    LET edges == ValidEdges(payload, symbol)
    IN  SubSeq(edges, 1, Least(Len(edges), budget))

-----------------------------------------------------------------------------
(* A request begins with the circuit: after the cooldown it is closed      *)
(* again and the failures before it are forgotten.                         *)
CircuitHolds == openedAt # NotOpen /\ now - openedAt.at < Cooldown

ReadCircuit ==
    /\ openedAt' = IF CircuitHolds THEN openedAt ELSE NotOpen
    /\ failures' = IF openedAt = NotOpen \/ CircuitHolds THEN failures ELSE 0

May(r) ==
    /\ status = "indexing"
    /\ session = NoSession
    /\ Len(history) < MaxRequests
    /\ r \in Roots

Ends(what, r, heard) ==
    history' = Append(history, [what |-> what, root |-> r, at |-> now, heard |-> heard])

Store(r, edges) ==
    flows' = Append(flows, [root |-> r, edges |-> ResolvedEdges(analysis[r]) \o edges])

SkipRequest(r) ==
    /\ May(r)
    /\ CircuitHolds
    /\ Store(r, <<>>)
    /\ Ends("skipped", r, <<>>)
    /\ UNCHANGED <<mode, analysis, now, cache, failures, openedAt, session, status>>

HitCache(r) ==
    /\ May(r)
    /\ ~CircuitHolds
    /\ Key(r) \in CacheKeys
    /\ ReadCircuit
    /\ Store(r, Cached(Key(r)))
    /\ Ends("hit", r, <<>>)
    /\ UNCHANGED <<mode, analysis, now, cache, session, status>>

StartSession(r) ==
    /\ May(r)
    /\ ~CircuitHolds
    /\ Key(r) \notin CacheKeys
    /\ ReadCircuit
    /\ session' = [root |-> r, since |-> now, edges |-> <<>>, heard |-> <<>>]
    /\ UNCHANGED <<mode, analysis, now, cache, flows, status, history>>

-----------------------------------------------------------------------------
(* The session asks about the next symbol while its budget lasts.          *)
NextSymbol == Symbols(session.root)[Len(session.heard) + 1]

(* In a plausible variant every answer may fill the budget again.          *)
WholeBudget == MaxEdges

Budget == MaxEdges - Len(session.edges)

Asks ==
    /\ session # NoSession
    /\ Len(session.heard) < Len(Symbols(session.root))
    /\ Len(session.edges) < MaxEdges

Answer(payload) ==
    /\ Asks
    /\ session' = [session EXCEPT
                     !.edges = @ \o ParseEdges(payload, NextSymbol, Budget),
                     !.heard = Append(@, payload)]
    /\ UNCHANGED <<mode, analysis, now, cache, failures, openedAt, flows, status, history>>

(* An answer that is kept makes room for itself by dropping the oldest.    *)
Kept(entry) ==
    Append(IF Len(cache) >= CacheEntries THEN Tail(cache) ELSE cache, entry)

CompleteSession ==
    /\ session # NoSession
    /\ ~Asks
    /\ failures' = 0
    /\ cache' = Kept([key |-> Key(session.root), edges |-> session.edges])
    /\ Store(session.root, session.edges)
    /\ Ends("answered", session.root, session.heard)
    /\ session' = NoSession
    /\ UNCHANGED <<mode, analysis, now, openedAt, status>>

(* In a plausible variant one failure more is tolerated.                   *)
OpenCircuitLate(count) ==
    openedAt' = IF count > Threshold THEN [at |-> now] ELSE openedAt

OpenCircuit(count) ==
    openedAt' = IF count >= Threshold THEN [at |-> now] ELSE openedAt

(* In a plausible variant what was heard before the failure is stored.     *)
DegradeToHeard ==
    IF mode = "require"
    THEN status' = "failed" /\ UNCHANGED flows
    ELSE Store(session.root, session.edges) /\ UNCHANGED status

Degrade ==
    IF mode = "require"
    THEN status' = "failed" /\ UNCHANGED flows
    ELSE Store(session.root, <<>>) /\ UNCHANGED status

(* An exception anywhere in the session, the timeout included, discards    *)
(* what was heard.  In require mode it ends the command.                   *)
FailSession ==
    /\ session # NoSession
    /\ failures' = failures + 1
    /\ OpenCircuit(failures + 1)
    /\ Degrade
    /\ Ends("failed", session.root, session.heard)
    /\ session' = NoSession
    /\ UNCHANGED <<mode, analysis, now, cache>>

(* Time passes, but no session outlives its timeout.                       *)
Tick ==
    /\ status = "indexing"
    /\ now < MaxTime
    /\ session # NoSession => now - session.since < Timeout
    /\ now' = now + 1
    /\ UNCHANGED <<mode, analysis, cache, failures, openedAt, session, flows, status, history>>

Next ==
    \/ \E r \in Roots : SkipRequest(r) \/ HitCache(r) \/ StartSession(r)
    \/ Asks /\ \E a \in Answers : a.symbol = NextSymbol /\ Answer(a.items)
    \/ CompleteSession
    \/ FailSession
    \/ Tick

Spec == Init /\ [][Next]_vars

-----------------------------------------------------------------------------
TypeOK ==
    /\ mode \in {"augment", "require"}
    /\ analysis \in [Roots -> AllAnalyses]
    /\ now \in 0..MaxTime
    /\ Len(cache) <= CacheEntries
    /\ failures \in 0..Threshold
    /\ openedAt = NotOpen \/ openedAt.at \in 0..now
    /\ status \in {"indexing", "failed"}
    /\ Len(history) <= MaxRequests

(* The sessions that ended before place i since the last that succeeded.   *)
FailedInARow(i) ==
    {j \in 1..(i - 1) : /\ history[j].what = "failed"
                        /\ \A k \in j..(i - 1) : history[k].what # "answered"}

(* The circuit breaker, said without its counter: more than Threshold       *)
(* sessions that fail in a row are spread over a cooldown at least, so a    *)
(* dead provider costs no more timeouts than that; and a request is passed  *)
(* over only within a cooldown of a failure that had Threshold of them in a *)
(* row, so a provider that came back is asked again                         *)
(* (depth.py, enrich and _circuit_is_open).                                 *)
CircuitBreaks ==
    \A i \in DOMAIN history :
        /\ history[i].what = "failed" =>
               \A j \in FailedInARow(i) :
                   Cardinality({k \in FailedInARow(i) : k >= j}) = Threshold =>
                       history[i].at - history[j].at >= Cooldown
        /\ history[i].what = "skipped" =>
               /\ Cardinality(FailedInARow(i)) >= Threshold
               /\ \E j \in FailedInARow(i) : history[i].at - history[j].at < Cooldown

(* edges are the valid ones of the answers, for the symbols they were asked *)
(* about, one answer behind the other and cut once at the budget of the     *)
(* service; ends[i] of them are of the first i answers.                     *)
Enriches(edges, symbols, heard) ==
    \E ends \in [0..Len(heard) -> 0..Len(edges)] :
        /\ ends[0] = 0 /\ ends[Len(heard)] = Len(edges)
        /\ \A i \in 1..Len(heard) :
               LET valid == ValidEdges(heard[i], symbols[i])
                   before == ends[i - 1]
               IN  /\ ends[i] = Least(before + Len(valid), MaxEdges)
                   /\ \A k \in (before + 1)..ends[i] : edges[k] = valid[k - before]

(* An enrichment is whole when there is nothing more to ask about, or no   *)
(* budget to.                                                              *)
WholeEnrichment(edges, symbols, heard) ==
    /\ Enriches(edges, symbols, heard)
    /\ Len(heard) = Len(symbols) \/ Len(edges) = MaxEdges

(* The requests that stored a flow.                                        *)
Stored == {i \in DOMAIN history : mode = "augment" \/ history[i].what # "failed"}

Behind(front, edges) == SubSeq(edges, Len(front) + 1, Len(edges))

Answered(i, edges) ==
    /\ history[i].what = "answered"
    /\ WholeEnrichment(edges, Symbols(history[i].root), history[i].heard)

(* What the request at place i adds to the native edges.                   *)
AddedBy(i, edges) ==
    CASE history[i].what = "answered" -> Answered(i, edges)
      [] history[i].what = "hit" ->
            \E j \in 1..(i - 1) : history[j].root = history[i].root /\ Answered(j, edges)
      [] OTHER -> edges = <<>>

(* A stored flow is the native result and, behind it, either a whole       *)
(* bounded answer or nothing: nothing of a session that failed half way is *)
(* kept, answers to several symbols share one budget, and a cached answer  *)
(* is one that this service was given.  In require mode a failed session   *)
(* is the last thing that happens (INTERFACE.md, the depth-provider        *)
(* contract: a provider error leaves the native result intact, and in      *)
(* require mode indexing fails).                                           *)
FlowsEnrichedWholly ==
    /\ DOMAIN flows = Stored
    /\ \A i \in Stored :
           LET native == ResolvedEdges(analysis[history[i].root])
               added == Behind(native, flows[i].edges)
           IN  /\ flows[i].root = history[i].root
               /\ flows[i].edges = native \o added
               /\ AddedBy(i, added)
    /\ mode = "require" =>
           \A i \in DOMAIN history :
               history[i].what = "failed" => i = Len(history) /\ status = "failed"

(* A call with a receiver goes where an import or an injection leads and   *)
(* nowhere else: declaring one more callable that is unrelated to it, of   *)
(* the same method name for one, leads it nowhere new (resolution.py, the  *)
(* comment before the method-name fallback).                               *)
AllSymbols == UNION {ToSet(a.symbols) : a \in AllAnalyses}

IgnoringUnrelated ==
    {a \in AllAnalyses : \A e \in ToSet(a.edges), s \in AllSymbols :
        HasReceiver(e) /\ Unrelated(a, e, s) =>
            ResolveEdge([a EXCEPT !.symbols = Append(@, s)], e) = ResolveEdge(a, e)}

UnrelatedSymbolsIgnored == \A r \in Roots : analysis[r] \in IgnoringUnrelated
=============================================================================
