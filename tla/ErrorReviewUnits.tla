-------------------------- MODULE ErrorReviewUnits --------------------------
(***************************************************************************)
(* The review units that a change plan derives from the findings about     *)
(* errors, timeouts, retries and calls: one definition per derive function *)
(* of the findings and the services of the plan.  A unit stands for all    *)
(* findings with its key; it keeps the contracts of the first.             *)
(***************************************************************************)
EXTENDS ErrorFindings

\* Findings of one kind whose first service is in the plan.
Selected(findings, kind, services, confidence) ==
    {f \in findings : /\ f.kind = kind
                      /\ f.services[1] \in services
                      /\ f.confidence >= confidence}

Unit(role, service, key, dependencies) ==
    [id |-> <<role, service>> \o key, service |-> service, dependencies |-> dependencies]

Units(role, selected, Key(_), DependenciesOf(_)) ==
    {Unit(role, f.services[1], Key(f), DependenciesOf(f)) : f \in selected}

NoDependency(f) == {}

OnTarget(f) == {<<f.target>>}

OnSecond(f) == {f.services[2]}

CallKey(f) == <<f.symbol, f.target>> \o f.contract

HasContract(f) == f.contract[1] # NoName /\ f.contract[2] # NoName

-----------------------------------------------------------------------------
(* Units about error mappings.  Findings that lack what the unit names, a   *)
(* type, a code or a method, are passed over.                               *)

TypedSelected(findings, kind, services, confidence) ==
    {f \in Selected(findings, kind, services, confidence) : f.type # NoName}

DeriveErrorExposure(findings, services) ==
    Units("error-exposure",
        {f \in Selected(findings, "possible_internal_error_exposure", services, 80) :
            f.place[2] # 0},
        LAMBDA f : <<f.symbol>> \o f.place, NoDependency)

DeriveTimeoutMapping(findings, services) ==
    Units("timeout-error-mapping",
        TypedSelected(findings, "possible_timeout_mapped_as_internal_server_error",
                      services, 80),
        LAMBDA f : <<f.symbol, f.type>>, NoDependency)

DeriveBroadHandler(findings, services) ==
    Units("broad-error-handler",
        TypedSelected(findings, "possible_overbroad_exception_handler", services, 75),
        LAMBDA f : <<f.symbol, f.type>> \o f.place, NoDependency)

OnEndpointFlow(findings, kind, services, confidence) ==
    {f \in Selected(findings, kind, services, confidence) :
        Len(f.services) = 2 /\ f.scope = "endpoint_flow" /\ HasContract(f)}

DeriveUnmappedDownstream(findings, services) ==
    Units("downstream-error-mapping",
        OnEndpointFlow(findings, "possible_unmapped_downstream_error", services, 75),
        LAMBDA f : <<f.symbol, f.services[2], f.type, f.code>>, OnSecond)

DeriveUnhandledEndpoint(findings, services) ==
    Units("error-mapping-gap",
        Selected(findings, "possible_unhandled_endpoint_error", services, 75),
        LAMBDA f : <<f.symbol, f.type>>, NoDependency)

DeriveErrorSemantics(findings, services) ==
    Units("error-mapping",
        Selected(findings, "possible_error_semantics_lost", services, 80),
        LAMBDA f : <<f.type, f.symbol, f.place[2]>>, NoDependency)

DeriveErrorMapping(findings, services) ==
    DeriveErrorExposure(findings, services) \cup DeriveTimeoutMapping(findings, services)
    \cup DeriveBroadHandler(findings, services)
    \cup DeriveUnmappedDownstream(findings, services)
    \cup DeriveUnhandledEndpoint(findings, services)
    \cup DeriveErrorSemantics(findings, services)

DeriveBroadTimeoutHandler(findings, services) ==
    Units("broad-timeout-handler",
        Selected(findings, "possible_broad_handler_swallows_timeout", services, 65),
        LAMBDA f : <<f.symbol, f.place[1]>>, NoDependency)

-----------------------------------------------------------------------------
(* Units about calls, retries and timeouts.                                 *)

DeriveHttpResiliencePolicy(findings, services) ==
    Units("http-resilience-policy",
        {f \in Selected(findings, "possible_missing_http_resilience_policy", services, 50) :
            HasContract(f)}, CallKey, OnTarget)

DeriveRetryHttpIdempotency(findings, services) ==
    Units("retry-http-idempotency",
        {f \in Selected(findings, "possible_retry_on_non_idempotent_http_call", services, 65) :
            HasContract(f)}, CallKey, OnTarget)

DeriveTimeoutLocalFallback(findings, services) ==
    Units("timeout-local-fallback",
        {f \in Selected(findings, "possible_timeout_without_local_fallback", services, 55) :
            HasContract(f)}, CallKey, OnTarget)

DeriveRetryPolicy(findings, services) ==
    Units("retry-policy",
        TypedSelected(findings, "possible_retry_on_non_retryable_error", services, 80),
        LAMBDA f : <<f.symbol, f.type>>, NoDependency)

DeriveRetryDownstreamError(findings, services) ==
    Units("retry-downstream-error",
        OnEndpointFlow(findings, "possible_retry_on_downstream_client_error", services, 80),
        LAMBDA f : <<f.symbol, f.services[2], f.type, f.code>>, OnSecond)

TimeoutFallbackPerFinding(findings, services) ==
    Units("timeout-fallback",
        TypedSelected(findings, "possible_timeout_fallback_masks_failure", services, 80),
        LAMBDA f : <<f.symbol, f.type, f.code>>, OnTarget)

\* The key leaves the target out: of several calls the unit keeps the first's.
DeriveTimeoutFallback(findings, services) ==
    LET selected == TypedSelected(findings, "possible_timeout_fallback_masks_failure",
                                  services, 80)
        Key(f) == <<f.symbol, f.type, f.code>>
        First(f) == CHOOSE g \in selected :
                        g.services = f.services /\ Key(g) = Key(f)
    IN  Units("timeout-fallback", {First(f) : f \in selected}, Key, OnTarget)

CallReviewUnits(findings, services) ==
    DeriveHttpResiliencePolicy(findings, services)
    \cup DeriveRetryHttpIdempotency(findings, services)
    \cup DeriveTimeoutLocalFallback(findings, services)
    \cup DeriveRetryPolicy(findings, services)
    \cup DeriveTimeoutFallback(findings, services)

DownstreamReviewUnits(findings, services) ==
    DeriveUnmappedDownstream(findings, services)
    \cup DeriveRetryDownstreamError(findings, services)

-----------------------------------------------------------------------------
(* Properties.                                                              *)

\* Reference definition: the symbols a walk without a limit reaches are the
\* least set with the first one that no edge leaves.
Flow(s, symbol) ==
    LET edges == facts[s].edges
        nodes == {symbol} \cup UNION {{e.from, e.to} : e \in edges}
        closed == {C \in SUBSET nodes :
                      symbol \in C /\ \A e \in edges : e.from \in C => e.to \in C}
    IN  {n \in nodes : \A C \in closed : n \in C}

WithinLimit(s, symbol) ==
    Cardinality({e \in facts[s].edges : e.from \in Flow(s, symbol)}) <= MaxEdges

\* A client error that the flow of an HTTP endpoint raises is accounted for:
\* it is reported as unhandled exactly when the service maps its type nowhere,
\* and as a lost semantics when a mapping makes it a server error.  Nothing is
\* reported as unhandled that the flow does not raise, even where the walk
\* stops at its limit.
EndpointErrorsAccounted ==
    \A s \in Indexed : \A e \in HttpEntries(s) :
        LET raised == {c \in ErrorsOf(s, Flow(s, e.symbol)) :
                          c.role = "raises" /\ c.kind \in ClientErrorKinds /\ c.type # NoName}
            mapped == {m.type : m \in HttpMappings(s)}
            asServer == {m.type : m \in {n \in HttpMappings(s) : IsServerCode(n.code)}}
            unhandled == {f.type : f \in {g \in FindUnhandledEndpointErrors :
                              g.services[1] = ServiceName(s) /\ g.symbol = e.symbol}}
            lost == {f.type : f \in {g \in FindErrorSemanticsLost :
                              g.services[1] = ServiceName(s)}}
            types == {c.type : c \in raised}
        IN  /\ unhandled \subseteq types \ mapped
            /\ WithinLimit(s, e.symbol) => unhandled = types \ mapped
            /\ types \cap asServer \subseteq lost

\* The retries of a call are held against one service: never against several
\* that bear the called name, and never against another checkout while the
\* checkout of the caller has a service of that name.
RetryBlamesOneCheckout ==
    LET findings == FindRetriesOnDownstreamClientErrors IN
    \A s \in Indexed : \A call \in HttpCalls(s) :
        LET blamed == {t \in Named(call.target) :
                          \E f \in findings : /\ f.services = <<ServiceName(s), ServiceName(t)>>
                                              /\ f.symbol = call.source
                                              /\ f.contract = <<call.method, call.path>>}
        IN  /\ Cardinality(blamed) <= 1
            /\ InCheckoutOf(s, call.target) # {} => blamed \subseteq InCheckoutOf(s, call.target)

\* A plan asks for a change across services only about an error that is on the
\* flow of the very endpoint the caller's source names, whatever else the
\* called service raises and whatever relations are indexed.
DownstreamUnitsRestOnFlow ==
    LET findings == FindRetriesOnDownstreamClientErrors \cup FindUnmappedDownstreamErrors IN
    \A u \in DownstreamReviewUnits(findings, PlanServices(AllNames)) :
        \E s, t \in Indexed : \E call \in HttpCalls(s) : \E e \in HttpEntries(t) :
            /\ <<u.service, u.id[3], u.id[4]>> = <<ServiceName(s), call.source, ServiceName(t)>>
            /\ call.target = NameOf[t]
            /\ <<e.method, e.name>> = <<call.method, call.path>>
            /\ \E c \in ErrorsOf(t, Flow(t, e.symbol)) :
                   <<c.type, c.code>> = <<u.id[5], u.id[6]>>

=============================================================================
