-------------------------- MODULE MCDepthProvider --------------------------
(***************************************************************************)
(* Two services.  The controller of orders calls an injected repository,   *)
(* an injected client of an unknown type, an imported function and a bare  *)
(* helper, and writes to a database; which classes implement the           *)
(* repository, which is qualified or primary, and whether an unrelated     *)
(* class has a method of the same name varies.  Its two routes have two    *)
(* symbols, one of them twice.                                             *)
(***************************************************************************)
EXTENDS DepthProvider

MCRoots == {"orders", "billing"}

Create == <<"Api", "create">>
List == <<"Api", "list">>

Callable(name, implements, qualifiers, primary) ==
    [name |-> name, implements |-> implements, imports |-> << >>,
     qualifiers |-> qualifiers, primary |-> primary]

Calling(source, target, kind) ==
    [source |-> source, target |-> target, kind |-> kind,
     confidence |-> "medium", origin |-> "static"]

ApiCreate ==
    [Callable(Create, {}, {}, FALSE) EXCEPT
        !.imports = [local \in {"notify"} |-> <<"mail", "send">>]]

OrdersEdges ==
    <<Calling(Create, <<"this", "repo", "save">>, "invokes"),
      Calling(Create, <<"client", "create">>, "invokes"),
      Calling(Create, <<"notify">>, "invokes"),
      Calling(Create, <<"format">>, "invokes"),
      Calling(Create, <<"repo", "save">>, "writes")>>

OrdersAnalysis(qualifier, others) ==
    [symbols |-> <<ApiCreate, Callable(List, {}, {}, FALSE),
                   Callable(<<"SqlRepo", "save">>, {<<"Repo">>}, {"sql"}, FALSE),
                   Callable(<<"mail", "send">>, {}, {}, FALSE),
                   Callable(<<"text", "format">>, {}, {}, FALSE)>> \o others,
     injections |-> <<[consumer |-> <<"Api", "repo">>, contract |-> <<"Repo">>,
                       qualifier |-> qualifier],
                      [consumer |-> <<"Api", "client">>, contract |-> <<"Client">>,
                       qualifier |-> NoQualifier]>>,
     edges |-> OrdersEdges,
     entrypoints |-> <<Create, Create, List>>]

OtherCallables ==
    {<<>>, <<Callable(<<"MongoRepo", "save">>, {<<"Repo">>}, {"mongo"}, FALSE)>>,
     <<Callable(<<"MongoRepo", "save">>, {<<"Repo">>}, {}, TRUE)>>,
     <<Callable(<<"Admin", "create">>, {}, {}, FALSE),
       Callable(<<"json", "format">>, {}, {}, FALSE)>>}

BillingAnalysis ==
    [symbols |-> <<Callable(<<"Bill", "create">>, {}, {}, FALSE)>>,
     injections |-> <<>>,
     edges |-> <<Calling(<<"Bill", "create">>, <<"create">>, "invokes")>>,
     entrypoints |-> <<<<"Bill", "create">>>>]

MCAnalysesOf ==
    [r \in MCRoots |->
        IF r = "orders"
        THEN {OrdersAnalysis(q, o) : q \in {NoQualifier, "mongo"}, o \in OtherCallables}
        ELSE {BillingAnalysis}]

Edges ==
    <<[to |-> "x"], [to |-> "y", kind |-> "opaque"], [from |-> List, kind |-> "reads"],
      [to |-> "z", kind |-> "reads", from |-> <<"SqlRepo", "save">>, confidence |-> "high"]>>

MCAnswers ==
    [symbol : {Create, List, <<"Bill", "create">>}, items : {Edges}]
        \cup [symbol : {List}, items : {<<[to |-> "w", kind |-> "opaque"]>>}]

(* Requests follow each other for one of the analyses; for the others the   *)
(* first request is explored.                                               *)
Explored ==
    \/ analysis["orders"] = OrdersAnalysis("mongo", <<>>)
    \/ history = <<>>
=============================================================================
