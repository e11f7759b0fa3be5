---------------------------- MODULE ErrorFindings ----------------------------
(***************************************************************************)
(* The architecture detectors about error contracts, timeouts, retries and *)
(* calls between services.  An error contract says that a symbol raises,   *)
(* maps or handles an error type with a transport code.  The flow of an    *)
(* endpoint is a walk of its edges that stops at a limit.                  *)
(***************************************************************************)
EXTENDS StaticFacts

CONSTANT MaxEdges     \* edges a walk returns at most, 200 in the code

ASSUME MaxEdgesAssumption == MaxEdges \in Nat \ {0}

NoName == "none"      \* a type, method or path that the source does not show

ClientErrorKinds == {"authorization", "conflict", "not_found", "rate_limit", "validation"}
BroadExceptionTypes == {"Exception", "Throwable", "Error", "RuntimeException"}
NonIdempotentMethods == {"POST", "PATCH"}

IsClientCode(code) == code \in 400..499
IsServerCode(code) == code \in 500..599

-----------------------------------------------------------------------------
(* The bounded walk: breadth first, each symbol once, its edges in the       *)
(* order they were stored.                                                   *)

\* Rows are numbered in the order of their lines; which of two edges of one
\* line and target comes first is left open.
EdgesFrom(s, symbol) ==
    LET found == {e \in facts[s].edges : e.from = symbol}
        Before(d, e) == d.line < e.line \/ (d.line = e.line /\ d.to < e.to)
    IN  CHOOSE q \in [1..Cardinality(found) -> found] :
            \A i, j \in DOMAIN q : i < j => q[i] # q[j] /\ ~Before(q[j], q[i])

\* One round of the loop: the first pending symbol, and the edges that leave it.
WalkRound(s, walk) ==
    LET source == Head(walk.pending)
        found == EdgesFrom(s, source)
        room == MaxEdges - Len(walk.edges)
        taken == SubSeq(found, 1, IF Len(found) < room THEN Len(found) ELSE room)
    IN  IF walk.pending = <<>> \/ Len(walk.edges) >= MaxEdges THEN walk
        ELSE IF source \in walk.seen THEN [walk EXCEPT !.pending = Tail(@)]
        ELSE [pending |-> Tail(walk.pending) \o [i \in DOMAIN taken |-> taken[i].to],
              seen |-> walk.seen \cup {source}, edges |-> walk.edges \o taken]

\* All but the first symbol became pending with an edge of the result, so the
\* loop has no more rounds than that.
ListReachableEdges(s, symbol) ==
    LET walk[n \in 0..MaxEdges + 1] ==
            IF n = 0 THEN [pending |-> <<symbol>>, seen |-> {}, edges |-> <<>>]
            ELSE WalkRound(s, walk[n - 1])
    IN  walk[MaxEdges + 1].edges

SourceSymbols(s, symbol) ==
    LET edges == ListReachableEdges(s, symbol)
    IN  {symbol} \cup {edges[i].from : i \in DOMAIN edges}

ReachableSymbols(s, symbol) ==
    LET edges == ListReachableEdges(s, symbol)
    IN  {symbol} \cup {edges[i].from : i \in DOMAIN edges}
                 \cup {edges[i].to : i \in DOMAIN edges}

ErrorsOf(s, symbols) == {c \in facts[s].errors : c.source \in symbols}

-----------------------------------------------------------------------------
(* Findings inside one service.                                              *)

PerService(FindingsIn(_)) == UNION {FindingsIn(s) : s \in Indexed}

Local(kind, s, symbol, type, place, confidence) ==
    [kind |-> kind, services |-> <<ServiceName(s)>>, symbol |-> symbol, type |-> type,
     place |-> place, confidence |-> confidence]

HttpCalls(s) == {c \in facts[s].calls : c.protocol = "http"}

HasPolicy(s, symbol, kind) == PoliciesBySource(s, symbol, {kind}) # {}

HttpMappings(s) == {c \in facts[s].errors : c.role = "maps" /\ c.protocol = "http"}

FindOverbroadExceptionHandlers ==
    PerService(LAMBDA s :
        {Local("possible_overbroad_exception_handler", s, c.source, c.type,
               <<c.protocol, c.code>>, 75) :
            c \in {d \in facts[s].errors : d.role = "maps" /\ d.type \in BroadExceptionTypes}})

FindBroadHandlersThatCanSwallowTimeouts ==
    PerService(LAMBDA s :
        {Local("possible_broad_handler_swallows_timeout", s, hc[1].source, hc[1].type,
               <<hc[2].source>>, 65) :
            hc \in {d \in HttpMappings(s) : d.code = 500 /\ d.type \in BroadExceptionTypes}
                   \X {c \in HttpCalls(s) : HasPolicy(s, c.source, "timeout")}})

FindErrorSemanticsLost ==
    PerService(LAMBDA s :
        {Local("possible_error_semantics_lost", s, rm[2].source, rm[1].type,
               <<"http", rm[2].code>>, 85) :
            rm \in {p \in facts[s].errors \X HttpMappings(s) :
                       /\ p[1].role = "raises" /\ p[1].kind \in ClientErrorKinds
                       /\ p[1].type # NoName /\ p[1].type = p[2].type
                       /\ IsServerCode(p[2].code)}})

\* Client errors on the walk of an endpoint whose type the service maps nowhere.
UnhandledErrors(s, symbol) ==
    {c \in ErrorsOf(s, ReachableSymbols(s, symbol)) :
        /\ c.role = "raises" /\ c.kind \in ClientErrorKinds
        /\ c.type \notin {NoName} \cup {m.type : m \in HttpMappings(s)}}

HttpEntries(s) ==
    {facts[s].entries[i] : i \in {j \in DOMAIN facts[s].entries :
                                     facts[s].entries[j].kind = "http"}}

FindUnhandledEndpointErrors ==
    PerService(LAMBDA s :
        UNION {{Local("possible_unhandled_endpoint_error", s, e.symbol, type,
                      <<e.method, e.name>>, 75) :
                   type \in {c.type : c \in UnhandledErrors(s, e.symbol)}} :
               e \in HttpEntries(s)})

FindInternalErrorExposures ==
    PerService(LAMBDA s :
        {Local("possible_internal_error_exposure", s, c.source, c.type,
               <<c.protocol, c.code>>, 90) :
            c \in {d \in facts[s].errors :
                      /\ d.exposes
                      /\ \/ d.role = "maps" /\ d.protocol = "http"
                         \/ d.role = "raises" /\ d.protocol = "graphql"}})

FindTimeoutsMappedAsInternalServerErrors ==
    PerService(LAMBDA s :
        {Local("possible_timeout_mapped_as_internal_server_error", s, c.source, c.type,
               <<"http", c.code>>, 80) :
            c \in {d \in HttpMappings(s) : d.kind = "timeout" /\ d.code = 500}})

FindRetriesOnNonRetryableErrors ==
    PerService(LAMBDA s :
        {Local("possible_retry_on_non_retryable_error", s, c.source, c.type,
               <<c.protocol, c.code>>, 80) :
            c \in {d \in facts[s].errors :
                      /\ d.role = "raises" /\ d.retry = "not_retryable"
                      /\ d.kind \in ClientErrorKinds
                      /\ HasPolicy(s, d.source, "retry")}})

-----------------------------------------------------------------------------
(* Findings about one call.                                                  *)

CallFinding(kind, s, call, confidence) ==
    [kind |-> kind, services |-> <<ServiceName(s)>>, symbol |-> call.source,
     target |-> call.target, contract |-> <<call.method, call.path>>,
     confidence |-> confidence]

FindStaticHttpCallsWithoutResiliencePolicy ==
    PerService(LAMBDA s :
        {CallFinding("possible_missing_http_resilience_policy", s, c, 50) :
            c \in {d \in HttpCalls(s) : \A p \in facts[s].policies : p.source # d.source}})

FindRetriesOnNonIdempotentHttpCalls ==
    PerService(LAMBDA s :
        {CallFinding("possible_retry_on_non_idempotent_http_call", s, c, 65) :
            c \in {d \in HttpCalls(s) : /\ d.method \in NonIdempotentMethods
                                        /\ HasPolicy(s, d.source, "retry")}})

HandlesTimeout(s, symbol) ==
    \E c \in facts[s].errors : c.source = symbol /\ c.role = "handles" /\ c.kind = "timeout"

FindTimeoutsWithoutLocalFallback ==
    PerService(LAMBDA s :
        {CallFinding("possible_timeout_without_local_fallback", s, c, 55) :
            c \in {d \in HttpCalls(s) : /\ HasPolicy(s, d.source, "timeout")
                                        /\ ~HandlesTimeout(s, d.source)}})

\* An entrypoint that answers a timeout of its own call with success.
FindTimeoutFallbacksMaskingFailures ==
    PerService(LAMBDA s :
        {[kind |-> "possible_timeout_fallback_masks_failure", services |-> <<ServiceName(s)>>,
          symbol |-> fc[1].source, type |-> fc[1].type, code |-> fc[1].code,
          target |-> fc[2].target, confidence |-> 80] :
            fc \in {p \in facts[s].errors \X HttpCalls(s) :
                       /\ p[1].role = "handles" /\ p[1].kind = "timeout"
                       /\ p[1].protocol = "http" /\ p[1].code \in 200..299
                       /\ p[1].source = p[2].source
                       /\ p[1].source \in EntrypointSymbols(s)}})

-----------------------------------------------------------------------------
(* Findings across two services.                                             *)

EntrypointsByPath(t, method, path) ==
    {i \in DOMAIN facts[t].entries :
        facts[t].entries[i].kind = "http" /\ facts[t].entries[i].name = path}

GetEntrypoint(t, method, path) ==
    {i \in DOMAIN facts[t].entries :
        /\ facts[t].entries[i].kind = "http"
        /\ facts[t].entries[i].method = method
        /\ facts[t].entries[i].name = path}

\* The contracts a call may meet: those on the flow of the endpoint it names,
\* or all of the service when that endpoint is not indexed.
DownstreamContractScope(t, method, path) ==
    LET matches == GetEntrypoint(t, method, path)
        first == CHOOSE i \in matches : \A j \in matches : i <= j
    IN  IF method = NoName \/ path = NoName \/ matches = {}
        THEN <<"service_contracts", facts[t].errors>>
        ELSE <<"endpoint_flow",
               ErrorsOf(t, ReachableSymbols(t, facts[t].entries[first].symbol))>>

MappedClientErrorTypes(s) == {c.type : c \in {d \in HttpMappings(s) : IsClientCode(d.code)}}

IsClientErrorContract(c) ==
    /\ c.role \in {"raises", "maps"} /\ c.protocol = "http" /\ c.type # NoName
    /\ IsClientCode(c.code)

Named(name) == {t \in Indexed : NameOf[t] = name}

InCheckoutOf(s, name) == {t \in Named(name) : RepositoryOf[t] = RepositoryOf[s]}

NearTargets(s, name) ==
    {t \in Named(name) : Named(name) = {t} \/ InCheckoutOf(s, name) # {}}

RetryTargets(s, name) ==
    {t \in Named(name) : Named(name) = {t} \/ InCheckoutOf(s, name) = {t}}

Downstream(kind, s, t, call, c, scope, confidence) ==
    [kind |-> kind, services |-> <<ServiceName(s), ServiceName(t)>>, symbol |-> call.source,
     contract |-> <<call.method, call.path>>, type |-> c.type, code |-> c.code,
     scope |-> scope, confidence |-> confidence]

\* One finding for each client error in the scope of a call to a target.
DownstreamFindings(kind, s, calls, TargetsOf(_), Reported(_), onFlow, elsewhere) ==
    UNION {LET scope == DownstreamContractScope(ct[2], ct[1].method, ct[1].path)
           IN  {Downstream(kind, s, ct[2], ct[1], c, scope[1],
                           IF scope[1] = "endpoint_flow" THEN onFlow ELSE elsewhere) :
                   c \in {d \in scope[2] : IsClientErrorContract(d) /\ Reported(d)}} :
           ct \in {p \in calls \X Indexed : p[2] \in TargetsOf(p[1].target)}}

FindRetriesOnDownstreamClientErrors ==
    PerService(LAMBDA s :
        DownstreamFindings("possible_retry_on_downstream_client_error", s,
            {c \in HttpCalls(s) : HasPolicy(s, c.source, "retry")},
            LAMBDA name : RetryTargets(s, name), LAMBDA c : TRUE, 80, 65))

StaticUnmappedDownstreamErrorFindings ==
    PerService(LAMBDA s :
        DownstreamFindings("possible_unmapped_downstream_error", s, HttpCalls(s), Named,
            LAMBDA c : c.type \notin MappedClientErrorTypes(s), 75, 60))

\* Relations stand in for calls to services the source shows no call to.
RelatedUnmappedDownstreamErrorFindings ==
    PerService(LAMBDA s :
        UNION {{Downstream("possible_unmapped_downstream_error", s, r.to,
                           [source |-> 0, method |-> r.method, path |-> r.path],
                           c, NoName, 35) :
                   c \in {d \in facts[r.to].errors :
                             /\ IsClientErrorContract(d)
                             /\ d.type \notin MappedClientErrorTypes(s)}} :
               r \in {q \in facts[s].relations :
                         /\ q.kind = "http"
                         /\ \A c \in HttpCalls(s) : NameOf[q.to] # c.target}})

FindUnmappedDownstreamErrors ==
    StaticUnmappedDownstreamErrorFindings \cup RelatedUnmappedDownstreamErrorFindings

=============================================================================
