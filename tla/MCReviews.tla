------------------------------ MODULE MCReviews ------------------------------
(***************************************************************************)
(* Four workspaces.                                                        *)
(* In the first, billing (1) calls the name orders, which a service of its *)
(* own checkout (2) and one of another (3) have.  The endpoint POST /o of  *)
(* orders has a cyclic flow 20, 22, 23 with a side branch 24; GET /o is    *)
(* handled by 21.  A walk stops after three edges.                         *)
(* In the second, the checkout store has the services api (4) and, under   *)
(* its root, worker (5); the checkout depot is the service api (6).  The   *)
(* settings of store are declared nowhere, in a chart, once, or twice, in  *)
(* a base and an overlay with other entries or the same.                   *)
(* In the third, orders (7) has a symbol 10 that may write, publish,       *)
(* retry, run in a transaction and be the handler of routes; billing (8)   *)
(* and mail (9) consume channels 1 and 2 with and without writes and       *)
(* recovery; a second checkout (10) makes the name orders ambiguous.       *)
(* In the fourth, three services may call each other in any way.           *)
(***************************************************************************)
EXTENDS PlanReviews, ServiceGraph

MCServiceIds == 1..13
MCNameOf == <<"billing", "orders", "orders", "api", "worker", "api",
              "orders", "billing", "mail", "orders", "a", "b", "c">>
MCRepositoryOf == <<"shop", "shop", "fork", "store", "store", "depot",
                    "market", "market", "market", "branch", "ring", "ring", "ring">>
MCRootOf == <<<<"billing">>, <<"orders">>, <<>>, <<"api">>, <<"api", "worker">>, <<>>,
              <<>>, <<>>, <<>>, <<>>, <<>>, <<>>, <<>>>>
MCOwnerOf == [x \in 1..29 |-> x \div 2]

Error(source, role, kind, type, code, retry) ==
    [source |-> source, role |-> role, kind |-> kind, type |-> type, protocol |-> "http",
     code |-> code, exposes |-> code = 500, retry |-> retry]
Entry(method, name, symbol) ==
    [kind |-> "http", method |-> method, name |-> name, symbol |-> symbol]
Call(target, method, path, line) ==
    [source |-> 10, target |-> target, protocol |-> "http", method |-> method,
     path |-> path, line |-> line]
Invoke(from, to, line) ==
    [from |-> from, to |-> to, kind |-> "invokes", origin |-> "static", line |-> line]

Fallback == Error(10, "handles", "timeout", "Timeout", 200, "unknown")

BillingAnalyses ==
    {[NoRows EXCEPT
        !.entries = <<Entry("GET", "/b", 10), Entry("POST", "/b", 10)>>,
        !.calls = {Call("orders", "POST", path, 1), Call("mail", "GET", "/m", 2)},
        !.policies = {[source |-> 10, kind |-> k] : k \in kinds}, !.errors = errors] :
        path \in {"/o", NoName},
        kinds \in {{}, {"retry"}, {"timeout"}, {"retry", "timeout"}},
        errors \in {{}, {Fallback},
                    {Error(11, "maps", "not_found", "Missing", 404, "unknown")},
                    {Error(10, "raises", "conflict", "Taken", 409, "not_retryable"),
                     Error(11, "maps", "timeout", "Timeout", 500, "unknown"),
                     Error(11, "maps", "unknown", "Exception", 500, "unknown")}}}

OrdersEntries == {<<>>, <<Entry("GET", "/o", 21)>>,
                  <<Entry("GET", "/o", 21), Entry("POST", "/o", 20)>>}
Cycle == {Invoke(20, 22, 1), Invoke(22, 23, 2), Invoke(23, 20, 3)}

OrdersAnalyses ==
    {[NoRows EXCEPT !.entries = entries, !.edges = edges, !.errors = errors] :
        entries \in OrdersEntries,
        edges \in {{}, Cycle, Cycle \cup {Invoke(22, 24, 4)}, {Invoke(20, 24, 1), Invoke(23, 20, 2)}},
        errors \in {{Error(23, "raises", "not_found", "Missing", 404, "unknown")},
                    {Error(24, "raises", "not_found", "Missing", 404, "unknown"),
                     Error(21, "raises", "validation", "Invalid", 422, "unknown")},
                    {Error(24, "raises", "not_found", "Missing", 404, "unknown"),
                     Error(25, "maps", "unknown", "Missing", 500, "unknown")}}}

ForkAnalyses ==
    {[NoRows EXCEPT !.entries = <<Entry("POST", "/o", 20)>>, !.errors = errors] :
        errors \in {{}, {Error(20, "raises", "not_found", "Missing", 404, "unknown")}}}

-----------------------------------------------------------------------------
Jobs == [type |-> "sqs_queue", target |-> "jobs"]
Files == [type |-> "s3_bucket", target |-> "files"]
Anonymous == [type |-> "s3_bucket", target |-> NoName]
Order(spelling) == [name |-> <<"order", spelling>>, kind |-> "sql_table", owner |-> 1]

Entity(name, engine) == [name |-> name, kind |-> "sql_table", engine |-> engine]

Uses(cloud, owned, environment) ==
    [NoRows EXCEPT
        !.cloud = cloud, !.owned = owned, !.environment = environment,
        !.stored = UNION {{Entity(o.name, "postgres"), Entity(<<"order", 3>>, "unknown")} :
                              o \in owned},
        !.vendors = {<<"mail", o.name[2]>> : o \in owned},
        !.migrations = {[table |-> <<"order", 0>>, destructive |-> TRUE]},
        !.flags = {[provider |-> "ld", key |-> "beta", place |-> n] : n \in 1..2}]

ApiAnalyses ==
    {Uses({Jobs}, {}, {}), Uses({Files, Anonymous}, {Order(1)}, {"URL"})}
WorkerAnalyses == {Uses({}, {Order(1)}, {}), Uses({Jobs, Files}, {Order(2)}, {"URL"})}
DepotAnalyses == {Uses({Jobs}, {}, {}), Uses({Jobs, Files}, {Order(2)}, {"URL"})}

Resource(type, name, settings) ==
    [type |-> type, logical |-> "main", name |-> name, settings |-> settings]
JobsQueue == Resource("sqs_queue", "jobs", {"redrive"})
Bucket == Resource("s3_bucket", "files", {"public"})
Unnamed == Resource("s3_bucket", NoName, {"encryption"})

CloudFile(format, place, resources) ==
    [NoFile EXCEPT !.format = format, !.place = place, !.resources = resources,
                   !.refinements = {[bucket |-> "main", setting |-> "versioning"]}]

Binding(key, entry) == [key |-> key, source |-> "settings", entry |-> entry]
Import(optional, role) == [source |-> "settings", optional |-> optional, role |-> role]
Manifest(format, place, entries) ==
    [NoFile EXCEPT !.format = format, !.place = place,
                   !.sources = {[source |-> "settings", entries |-> entries, at |-> place]}]
Workload(place) ==
    [NoFile EXCEPT
        !.place = place, !.bindings = {Binding("URL", "url"), Binding("TOKEN", "token")},
        !.imports = {Import("true", "application"), Import("false", "initialization")}]

StoreTrees ==
    {{CloudFile("terraform", <<"infra">>, {JobsQueue, Bucket})},
     {CloudFile("terraform", <<"api">>, {JobsQueue, Unnamed})},
     {CloudFile("cloudformation", <<"api", "worker">>, {Bucket}),
      CloudFile("compose", <<"api">>, {JobsQueue})},
     {Workload(<<"api">>)},
     {Workload(<<"api", "deploy">>), Manifest("helm", <<"api">>, {"url", "token"})},
     {Workload(<<"api", "worker">>), Manifest("manifest", <<"k8s">>, {"url"})},
     {Workload(<<"api">>), Manifest("manifest", <<"k8s">>, {"url"}),
      Manifest("manifest", <<"k8s", "prod">>, {"url", "token"})},
     {Workload(<<"api">>), Manifest("manifest", <<"k8s", "base">>, {"url"}),
      Manifest("manifest", <<"k8s", "prod">>, {"url"})}}
DepotTrees ==
    {{CloudFile("cloudformation", <<"infra">>, {Bucket})},
     {CloudFile("terraform", <<"infra">>, {JobsQueue}), Workload(<<"k8s">>),
      Manifest("manifest", <<>>, {"url", "token"})}}

MCTreesOf == [r \in {MCRepositoryOf[s] : s \in MCServiceIds} |->
    CASE r = "store" -> StoreTrees [] r = "depot" -> DepotTrees [] OTHER -> {}]

-----------------------------------------------------------------------------
Edge(from, to, kind, line) ==
    [from |-> from, to |-> to, kind |-> kind, origin |-> "static", line |-> line]
Route(method) == [kind |-> "http", method |-> method, name |-> "/o", symbol |-> 10]
Publish(channels) == {Edge(10, c[1], "publishes", c[2]) : c \in channels}

\* Nothing, one channel, two channels, and four rows of three channels.
Published == {{}, {<<1, 1>>}, {<<1, 1>>, <<2, 1>>},
              {<<1, 1>>, <<1, 2>>, <<2, 1>>, <<3, 1>>}}

OrdersFlowAnalyses ==
    {[NoRows EXCEPT
        !.entries = entries,
        !.edges = writes \cup Publish(published),
        !.boundaries = boundaries, !.policies = policies,
        !.calls = {[source |-> 10, target |-> "billing", protocol |-> "http",
                    method |-> "POST", path |-> p[1], line |-> p[2]] :
                       p \in {<<"/b", 1>>, <<"/c", 2>>}}] :
        entries \in {<<>>, <<Route("POST")>>, <<Route("GET"), Route("POST")>>},
        writes \in {{}, {Edge(10, 1, "writes", 1)}},
        published \in Published,
        boundaries \in {{}, {[source |-> 10, kind |-> "transaction"]}},
        policies \in {{}, {[source |-> 10, kind |-> "retry"]}}}

ConsumerEntry(symbol, channel) ==
    [kind |-> "message", method |-> "CONSUME", name |-> channel, symbol |-> symbol]
Contract(symbol, transport, recovers) ==
    [symbol |-> symbol, transport |-> transport, direction |-> "consumes", recovers |-> recovers]

\* A service that consumes these rows, by one entrypoint 20 per channel, which
\* writes or not, under this contract.
Consuming(rows, writes, contracts, boundaries) ==
    [NoRows EXCEPT
        !.consumes = {[channel |-> r[1], line |-> r[2]] : r \in rows},
        !.entries = IF contracts = {} THEN <<>>
                    ELSE IF \E r \in rows : r[1] = 2
                         THEN <<ConsumerEntry(20, 1), ConsumerEntry(20, 2)>> ELSE <<ConsumerEntry(20, 1)>>,
        !.edges = IF writes THEN {Edge(20, 9, "writes", 1)} ELSE {},
        !.contracts = contracts, !.boundaries = boundaries]

Lost == {Contract(20, "rabbitmq", FALSE)}
Kept == {Contract(20, "rabbitmq", TRUE)}

MailFlowAnalyses ==
    {Consuming({<<1, 1>>}, FALSE, {}, {}),
     Consuming({<<1, 1>>}, TRUE, Lost, {}),
     Consuming({<<1, 1>>, <<2, 1>>}, TRUE, Lost, {})}

BillingFlowAnalyses ==
    MailFlowAnalyses \cup
    {Consuming({<<1, 1>>}, FALSE, Lost, {}),
     Consuming({<<1, 1>>}, TRUE, Kept, {}),
     Consuming({<<1, 1>>}, TRUE, Lost, {[source |-> 20, kind |-> "retry"]}),
     Consuming({<<1, n>> : n \in 1..4}, TRUE, Lost, {})}

-----------------------------------------------------------------------------
MCAnalysesOf ==
    <<BillingAnalyses, OrdersAnalyses, ForkAnalyses, ApiAnalyses, WorkerAnalyses, DepotAnalyses,
      OrdersFlowAnalyses, BillingFlowAnalyses, MailFlowAnalyses, {NoRows},
      {NoRows}, {NoRows}, {NoRows}>>
MCRelationsOf == [s \in MCServiceIds |->
    IF s = 1 THEN {{}, {[to |-> 2, kind |-> "http", method |-> "POST", path |-> "/o"]}}
    ELSE IF s > 10
    THEN SUBSET {[to |-> t, kind |-> "http", method |-> "GET", path |-> "/"] : t \in 11..13}
    ELSE {{}}]

\* A database holds one workspace.
OneWorkspace == \E w \in {1..3, 4..6, 7..10, 11..13} : Indexed' \subseteq w

MCSpec == ReviewInit /\ [][ReviewNext /\ OneWorkspace]_<<facts, tree, iac>>

=============================================================================
