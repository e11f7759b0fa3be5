---------------------------- MODULE FlowFindings ----------------------------
(***************************************************************************)
(* The architecture detectors about writes, publications, retries and      *)
(* message consumers: one definition per detector, the set of findings it  *)
(* returns for the present facts.  A finding names the service its flow is *)
(* in, the other services it lists, and the detail the review units read.  *)
(* Confidence is in percent.                                               *)
(***************************************************************************)
EXTENDS StaticFacts

CONSTANT MaxVisible   \* rows of one kind that a finding lists, 3 in the code

ASSUME MaxVisibleAssumption == MaxVisible \in Nat \ {0}

ReadEntrypointMethods == {"GET", "HEAD", "OPTIONS"}

Flows == UNION {{<<s, e.from>> : e \in facts[s].edges} : s \in Indexed}

Writes(flow) == FlowEdgesBySource(flow[1], flow[2], "writes")

Publishes(flow) == FlowEdgesBySource(flow[1], flow[2], "publishes")

\* The first rows in the order of the query: by target, then by place.
Visible(rows) ==
    LET Before(q, r) == q.to < r.to \/ (q.to = r.to /\ q.line < r.line)
    IN  {r \in rows : Cardinality({q \in rows : Before(q, r)}) < MaxVisible}

Targets(rows) == {r.to : r \in rows}

-----------------------------------------------------------------------------
(* Operations owned by entrypoints.                                         *)

EntrypointIds == UNION {{s} \X DOMAIN facts[s].entries : s \in Indexed}

EntrypointOf(id) == facts[id[1]].entries[id[2]]

DirectOperations(id, kind) ==
    {e \in facts[id[1]].edges :
        /\ e.origin = "static"
        /\ e.kind = kind
        /\ EntrypointIdOf(id[1], e.from) = id[2]}

EntrypointFinding(kind, id, confidence) ==
    [kind |-> kind, service |-> ServiceName(id[1]), others |-> {},
     entrypoint |-> EntrypointOf(id), confidence |-> confidence]

FindBffDomainLeakage ==
    {EntrypointFinding("possible_bff_domain_leakage", id, 60) :
        id \in {i \in EntrypointIds :
                    /\ EntrypointOf(i).kind = "graphql"
                    /\ EntrypointOf(i).method = "MUTATION"
                    /\ DirectOperations(i, "writes") \cup DirectOperations(i, "publishes") # {}}}

FindNonAtomicPublish ==
    {EntrypointFinding("possible_non_atomic_publish", id, 50) :
        id \in {i \in EntrypointIds :
                    /\ DirectOperations(i, "writes") # {}
                    /\ DirectOperations(i, "publishes") # {}
                    /\ ~HasBoundary(i[1], EntrypointOf(i).symbol, "transaction")}}

IsReadContract(entry) ==
    \/ entry.kind = "http" /\ entry.method \in ReadEntrypointMethods
    \/ entry.kind = "graphql" /\ entry.method = "QUERY"

FindReadEntrypointSideEffects ==
    {EntrypointFinding("possible_read_entrypoint_side_effect", id, 80) :
        id \in {i \in EntrypointIds :
                    /\ IsReadContract(EntrypointOf(i))
                    /\ DirectOperations(i, "writes") \cup DirectOperations(i, "publishes") # {}}}

-----------------------------------------------------------------------------
(* Flows that write and publish, delegated or retried.                      *)

FindNonAtomicSymbolPublish ==
    {[kind |-> "possible_non_atomic_service_publish", service |-> ServiceName(f[1]),
      others |-> {}, symbol |-> f[2], publishes |-> Targets(Visible(Publishes(f))),
      confidence |-> 50] :
        f \in {g \in Flows :
                  /\ Writes(g) # {} /\ Publishes(g) # {}
                  /\ ~HasBoundary(g[1], g[2], "transaction")}}

FindNonAtomicServicePublish ==
    {[kind |-> "possible_non_atomic_service_publish", service |-> ServiceName(f[1]),
      others |-> {}, symbol |-> f[2], publishes |-> Targets(Visible(Publishes(f))),
      confidence |-> 50] :
        f \in {g \in Flows :
                  /\ Writes(g) # {} /\ Publishes(g) # {}
                  /\ g[2] \notin EntrypointSymbols(g[1])
                  /\ ~HasBoundary(g[1], g[2], "transaction")}}

RetryingWritePublishFlows ==
    {f \in Flows : /\ PoliciesBySource(f[1], f[2], {"retry"}) # {}
                   /\ Writes(f) # {} /\ Publishes(f) # {}}

FindRetriesOnWritePublishFlows ==
    {[kind |-> "possible_retry_on_write_publish_flow", service |-> ServiceName(f[1]),
      others |-> {}, symbol |-> f[2], publishes |-> Targets(Visible(Publishes(f))),
      confidence |-> 70] : f \in RetryingWritePublishFlows}

\* Rows of consumers in the order of the query: by service, symbol and place.
FirstConsumers(rows) ==
    LET Before(q, r) == \/ q.service < r.service
                        \/ q.service = r.service /\ q.symbol < r.symbol
                        \/ q.service = r.service /\ q.symbol = r.symbol /\ q.line < r.line
    IN  {r \in rows : Cardinality({q \in rows : Before(q, r)}) < MaxVisible}

Consumers(channel) ==
    UNION {{[service |-> s, symbol |-> 0, line |-> c.line] :
               c \in {d \in facts[s].consumes : d.channel = channel}} : s \in Indexed}

IsConsumer(entry) == entry.kind = "message" /\ entry.method = "CONSUME"

PersistentConsumers(channel) ==
    UNION {{[service |-> c.service, symbol |-> e.symbol, line |-> c.line] :
               e \in {facts[c.service].entries[i] : i \in
                          {j \in DOMAIN facts[c.service].entries :
                              LET entry == facts[c.service].entries[j]
                              IN  /\ IsConsumer(entry)
                                  /\ entry.name = channel
                                  /\ Writes(<<c.service, entry.symbol>>) # {}}}} :
           c \in Consumers(channel)}

RecoveryRows(s) ==
    {facts[s].entries[i] : i \in
        {j \in DOMAIN facts[s].entries :
            LET entry == facts[s].entries[j]
            IN  /\ IsConsumer(entry)
                /\ \E c \in facts[s].contracts :
                       /\ c.symbol = entry.symbol
                       /\ c.transport = "rabbitmq" /\ c.direction = "consumes"
                       /\ ~c.recovers
                /\ ~HasBoundary(s, entry.symbol, "retry")}}

\* The dictionary of unrecovered consumers has one queue per symbol, the last.
UnrecoveredQueue(s, symbol) ==
    LET queues == {e.name : e \in {r \in RecoveryRows(s) : r.symbol = symbol}}
    IN  CHOOSE q \in queues : \A p \in queues : p <= q

UnrecoveredConsumers(channel) ==
    {c \in PersistentConsumers(channel) :
        \E r \in RecoveryRows(c.service) : r.symbol = c.symbol}

\* One finding per published row and channel with consumers in other services.
ReachingFindings(kind, ConsumersOf(_), Listed(_), confidence) ==
    {LET elsewhere == {c \in ConsumersOf(fp[2].to) : c.service # fp[1][1]}
     IN  [kind |-> kind, service |-> ServiceName(fp[1][1]),
          others |-> {ServiceName(c.service) : c \in FirstConsumers(elsewhere)},
          symbol |-> fp[1][2], channel |-> fp[2].to, line |-> fp[2].line,
          consumers |-> {Listed(c) : c \in FirstConsumers(elsewhere)},
          confidence |-> confidence] :
        fp \in {g \in UNION {{f} \X Publishes(f) : f \in RetryingWritePublishFlows} :
                   \E c \in ConsumersOf(g[2].to) : c.service # g[1][1]}}

FindRetryFlowsWithConsumers ==
    ReachingFindings("possible_retry_write_publish_reaches_consumer", Consumers,
        LAMBDA c : [service |-> ServiceName(c.service)], 75)

FindRetryFlowsWithPersistentConsumers ==
    ReachingFindings("possible_retry_write_publish_reaches_persistent_consumer",
        PersistentConsumers,
        LAMBDA c : [service |-> ServiceName(c.service), symbol |-> c.symbol], 80)

FindRetryFlowsWithUnrecoveredConsumers ==
    ReachingFindings("possible_retry_write_publish_reaches_unrecovered_persistent_consumer",
        UnrecoveredConsumers,
        LAMBDA c : [service |-> ServiceName(c.service), symbol |-> c.symbol,
                    queue |-> UnrecoveredQueue(c.service, c.symbol)], 65)

FindConsumersWithoutRecovery ==
    UNION {{[kind |-> "possible_message_consumer_without_recovery_policy",
             service |-> ServiceName(s), others |-> {}, symbol |-> e.symbol,
             queue |-> e.name, confidence |-> 45] : e \in RecoveryRows(s)} : s \in Indexed}

FindResiliencePoliciesOnWriteFlows ==
    UNION {{[kind |-> "possible_resilience_policy_on_partial_write_flow",
             service |-> ServiceName(s), others |-> {}, symbol |-> c.source,
             target |-> c.target, contract |-> <<c.method, c.path>>, line |-> c.line,
             confidence |-> 70] :
                c \in {d \in facts[s].calls :
                          /\ d.protocol = "http"
                          /\ PoliciesBySource(s, d.source, {"retry", "timeout"}) # {}
                          /\ Writes(<<s, d.source>>) # {}}} : s \in Indexed}

FlowDetectors ==
    FindBffDomainLeakage \cup FindNonAtomicPublish \cup FindReadEntrypointSideEffects
    \cup FindResiliencePoliciesOnWriteFlows \cup FindRetriesOnWritePublishFlows
    \cup FindRetryFlowsWithConsumers \cup FindRetryFlowsWithPersistentConsumers
    \cup FindRetryFlowsWithUnrecoveredConsumers \cup FindNonAtomicServicePublish
    \cup FindConsumersWithoutRecovery

=============================================================================
