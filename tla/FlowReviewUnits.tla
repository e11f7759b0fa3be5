-------------------------- MODULE FlowReviewUnits --------------------------
(***************************************************************************)
(* The review units that a change plan derives from the flow findings:     *)
(* one definition per derive function, given the findings and the set of   *)
(* services the plan is about.  A richer finding about a channel silences  *)
(* the poorer ones, so that each retried publication is reviewed in one    *)
(* place.  The shape checks of the code are about malformed findings and   *)
(* are left out; its confidence thresholds are kept.                       *)
(***************************************************************************)
EXTENDS FlowFindings

\* Findings of one kind for the plan, at or above the confidence asked for.
SelectedFlows(findings, kind, services, confidence) ==
    {f \in findings : /\ f.kind = kind
                      /\ f.service \in services
                      /\ f.confidence >= confidence}

\* The first of the findings with one key, in the order they were recorded.
FirstOf(findings) == CHOOSE f \in findings : \A g \in findings : f.line <= g.line

FlowUnit(role, service, key, contracts, dependencies) ==
    [id |-> <<role, service, key>>, service |-> service,
     contracts |-> contracts, dependencies |-> dependencies]

-----------------------------------------------------------------------------
(* What the richer findings cover, whatever their services and confidence.  *)

ChannelKey(f) == <<f.service, f.symbol, f.channel>>

UnrecoveredKind == "possible_retry_write_publish_reaches_unrecovered_persistent_consumer"
PersistentKind == "possible_retry_write_publish_reaches_persistent_consumer"
ConsumerKind == "possible_retry_write_publish_reaches_consumer"

CoveredChannels(findings, kinds) ==
    {ChannelKey(f) : f \in {g \in findings : g.kind \in kinds}}

ChannelsWithUnrecovered(findings) == CoveredChannels(findings, {UnrecoveredKind})

ChannelsWithPersistent(findings) ==
    CoveredChannels(findings, {PersistentKind, UnrecoveredKind})

ChannelsWithConsumers(findings) ==
    CoveredChannels(findings, {ConsumerKind, PersistentKind, UnrecoveredKind})

RetryWritePublishChannels(findings) ==
    UNION {{<<f.service, f.symbol, c>> : c \in f.publishes} :
           f \in {g \in findings : g.kind = "possible_retry_on_write_publish_flow"}}

ConsumersOfPrimaryProducers(findings, services) ==
    UNION {{<<c.service, c.symbol, c.queue>> : c \in f.consumers} :
           f \in {g \in findings : g.kind = UnrecoveredKind /\ g.service \in services}}

-----------------------------------------------------------------------------
(* One unit per flow and channel, from the first finding about them.        *)

ChannelUnits(role, selected, covered, Contracts(_)) ==
    {LET first == FirstOf({f \in selected : ChannelKey(f) = key})
     IN  FlowUnit(role, first.service, <<first.symbol, first.channel>>, Contracts(first),
              {c.service : c \in first.consumers}) :
        key \in {ChannelKey(f) : f \in selected} \ covered}

Message(channel) == <<"message", channel>>

Queue(queue) == <<"rabbitmq", queue>>

DeriveRetryDelivery(findings, services) ==
    ChannelUnits("retry-delivery", SelectedFlows(findings, PersistentKind, services, 80),
        ChannelsWithUnrecovered(findings), LAMBDA f : {Message(f.channel)})

DeriveRetryUnrecoveredDelivery(findings, services) ==
    ChannelUnits("retry-unrecovered-consumer-delivery",
        SelectedFlows(findings, UnrecoveredKind, services, 65), {},
        LAMBDA f : {Message(f.channel)} \cup {Queue(c.queue) : c \in f.consumers})

DeriveRetryConsumerDelivery(findings, services) ==
    ChannelUnits("retry-consumer-delivery", SelectedFlows(findings, ConsumerKind, services, 75),
        ChannelsWithPersistent(findings), LAMBDA f : {Message(f.channel)})

\* Units per published channel of findings that list several.
PublishedUnits(role, selected, covered) ==
    {FlowUnit(role, key[1], <<key[2], key[3]>>, {Message(key[3])}, {}) :
        key \in (UNION {{<<f.service, f.symbol, c>> : c \in f.publishes} : f \in selected})
                \ covered}

DeriveRetryWritePublish(findings, services) ==
    PublishedUnits("retry-write-publish",
        SelectedFlows(findings, "possible_retry_on_write_publish_flow", services, 70),
        ChannelsWithConsumers(findings))

DeriveNonAtomicServicePublish(findings, services) ==
    PublishedUnits("non-atomic-service-publish",
        SelectedFlows(findings, "possible_non_atomic_service_publish", services, 50),
        RetryWritePublishChannels(findings))

DeriveConsumerRecovery(findings, services) ==
    {FlowUnit("message-consumer-recovery", f.service, <<f.symbol, f.queue>>, {Queue(f.queue)}, {}) :
        f \in {g \in SelectedFlows(findings, "possible_message_consumer_without_recovery_policy",
                                   services, 45) :
                  <<g.service, g.symbol, g.queue>> \notin
                      ConsumersOfPrimaryProducers(findings, services)}}

DerivePartialWriteResilience(findings, services) ==
    LET selected == SelectedFlows(findings, "possible_resilience_policy_on_partial_write_flow",
                             services, 70)
        Key(f) == <<f.service, f.symbol, f.target>>
    IN  {LET first == FirstOf({f \in selected : Key(f) = key})
         IN  FlowUnit("partial-write-resilience", first.service, <<first.symbol, first.target>>,
                  {first.contract}, {<<first.target>>}) : key \in {Key(f) : f \in selected}}

DeriveReadSideEffect(findings, services) ==
    {FlowUnit("read-entrypoint-side-effect", f.service,
          <<f.entrypoint.kind, f.entrypoint.method, f.entrypoint.symbol>>,
          {<<f.entrypoint.kind, f.entrypoint.method, f.entrypoint.name>>}, {}) :
        f \in SelectedFlows(findings, "possible_read_entrypoint_side_effect", services, 80)}

RetryReviewUnits(findings, services) ==
    DeriveRetryUnrecoveredDelivery(findings, services)
    \cup DeriveRetryDelivery(findings, services)
    \cup DeriveRetryConsumerDelivery(findings, services)
    \cup DeriveRetryWritePublish(findings, services)

FlowReviewUnits(findings, services) ==
    RetryReviewUnits(findings, services)
    \cup DeriveNonAtomicServicePublish(findings, services)
    \cup DeriveConsumerRecovery(findings, services)
    \cup DerivePartialWriteResilience(findings, services)
    \cup DeriveReadSideEffect(findings, services)

-----------------------------------------------------------------------------
(* Properties.                                                              *)

StaticFlowEdges(flow, kind) ==
    {e \in FlowEdgesBySource(flow[1], flow[2], kind) : e.origin = "static"}

\* A symbol that writes and publishes, by static facts and outside a
\* transaction, is reported once: as an entrypoint by find_flow_hypotheses or
\* as a delegated method by find_non_atomic_service_publish_flows, whatever
\* routes share the symbol.
NonAtomicPublishReportedOnce ==
    \A f \in Flows :
        /\ StaticFlowEdges(f, "writes") # {}
        /\ StaticFlowEdges(f, "publishes") # {}
        /\ ~HasBoundary(f[1], f[2], "transaction")
        => Cardinality({g \in FindNonAtomicPublish :
                           g.service = ServiceName(f[1]) /\ g.entrypoint.symbol = f[2]})
           + Cardinality({g \in FindNonAtomicServicePublish :
                           g.service = ServiceName(f[1]) /\ g.symbol = f[2]}) = 1

\* Each retried publication of a service in the plan that a finding shows,
\* because it is among the first published rows or because other services
\* consume its channel, is reviewed by one unit: the findings that silence each
\* other between the derive functions never silence all, nor leave two.
RetriedChannelReviewedOnce ==
    LET findings == FlowDetectors IN
    \A primary \in SUBSET AllNames :
        LET services == PlanServices(primary)
            units == RetryReviewUnits(findings, services)
                     \cup DeriveNonAtomicServicePublish(findings, services)
        IN  \A f \in RetryingWritePublishFlows : \A p \in Publishes(f) :
                /\ ServiceName(f[1]) \in services
                /\ \/ p \in Visible(Publishes(f))
                   \/ \E c \in Consumers(p.to) : c.service # f[1]
                => Cardinality({u \in units : u.service = ServiceName(f[1])
                                              /\ u.id[3] = <<f[2], p.to>>}) = 1

\* A RabbitMQ consumer of a service in the plan whose recovery no source shows
\* is asked about: by a unit of its own, or in the unit of a producer that is
\* in the plan too.  What silences the first is that the second exists.
UnrecoveredConsumerReviewed ==
    LET findings == FlowDetectors IN
    \A primary \in SUBSET AllNames :
        LET services == PlanServices(primary)
            units == FlowReviewUnits(findings, services)
        IN  \A s \in Indexed : \A e \in RecoveryRows(s) :
                ServiceName(s) \in services =>
                    \E u \in units : /\ ServiceName(s) \in {u.service} \cup u.dependencies
                                    /\ Queue(e.name) \in u.contracts

\* What findings about one channel silence of each other is reviewed all the
\* same, and once.
ChannelsReviewed == RetriedChannelReviewedOnce /\ UnrecoveredConsumerReviewed
=============================================================================
