----------------------------- MODULE PlanReviews -----------------------------
(***************************************************************************)
(* The review units of a change plan: what plan_change puts together for   *)
(* the services of a change surface, from the findings of the architecture *)
(* view and from the rows of the services.  The view is taken to be up to  *)
(* date.  A plan is about one checkout, or about the whole workspace when  *)
(* its scope is NoName.                                                    *)
(***************************************************************************)
EXTENDS DeploymentReviewUnits, FlowReviewUnits

\* The service that a name stands for, if it is one.
InScope(name, scope) == IF scope = NoName THEN Named(name) ELSE Named(name) \cap Candidates(scope)

PlanRows(primary, scope) ==
    {s \in Indexed : \E n \in primary : InScope(n, scope) = {s}}

-----------------------------------------------------------------------------
(* Calls whose target and endpoint are indexed.                             *)

ResolveServiceReference(s, name) == RetryTargets(s, name)

HttpContractPerCall(services) ==
    UNION {{[id |-> <<"http-contract", NameOf[s], NameOf[ct[2]], ct[1].method, ct[1].path>>,
             service |-> NameOf[s], symbol |-> ct[1].source] :
               ct \in {p \in HttpCalls(s) \X Indexed :
                          /\ p[2] \in ResolveServiceReference(s, p[1].target)
                          /\ GetEntrypoint(p[2], p[1].method, p[1].path) # {}}} :
           s \in services}

DeriveHttpContract(services) ==
    LET units == HttpContractPerCall(services)
    IN  {CHOOSE u \in units : u.id = id : id \in {u.id : u \in units}}

-----------------------------------------------------------------------------
(* The units of a plan, in families that differ in what a unit holds.       *)

AffectedTables(services) ==
    UNION {{<<s, e>> : e \in facts[s].stored} : s \in services}

ErrorUnits(services) ==
    DeriveErrorMapping(FindErrorSemanticsLost \cup FindInternalErrorExposures
                       \cup FindUnhandledEndpointErrors \cup FindOverbroadExceptionHandlers
                       \cup FindTimeoutsMappedAsInternalServerErrors, services)
    \cup DeriveBroadTimeoutHandler(FindBroadHandlersThatCanSwallowTimeouts, services)
    \cup CallReviewUnits(FindRetriesOnNonRetryableErrors, services)

CallUnits(services) ==
    CallReviewUnits(FindStaticHttpCallsWithoutResiliencePolicy
                    \cup FindRetriesOnNonIdempotentHttpCalls
                    \cup FindTimeoutsWithoutLocalFallback, services)
    \cup CallReviewUnits(FindTimeoutFallbacksMaskingFailures, services)

DownstreamUnits(services) ==
    DownstreamReviewUnits(FindRetriesOnDownstreamClientErrors \cup FindUnmappedDownstreamErrors,
                          services)

PlanUnits(primary, scope) ==
    LET services == PlanServices(primary)
        rows == PlanRows(primary, scope)
    IN  <<DeriveHttpContract(rows),
          DeriveAggregateOwnership(FindAggregateOwnershipOverlap, services),
          CloudUnits(CloudFindings, services),
          ErrorUnits(services), CallUnits(services), DownstreamUnits(services),
          FlowReviewUnits(FlowDetectors, services),
          DerivePersistenceMigration(AffectedTables(rows), rows),
          ConfigurationUnits(rows)>>

-----------------------------------------------------------------------------
(* Properties.                                                              *)

Scopes == Repositories \cup {NoName}

Primaries(scope) == SUBSET {n \in AllNames : InScope(n, scope) # {}}

\* The results that are recorded for a plan name its units by id, and so do
\* the assessments of a working change: two units of a plan never share one,
\* however many routes, calls, mappings, channels and resources a symbol or a
\* service has, and whatever the plan is about.
UnitIdsUnique ==
    \A scope \in Scopes : \A primary \in Primaries(scope) :
        LET families == PlanUnits(primary, scope)
        IN  \A i \in DOMAIN families : \A u, v \in families[i] : u.id = v.id => u = v

=============================================================================
