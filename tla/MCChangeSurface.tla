-------------------------- MODULE MCChangeSurface --------------------------
(***************************************************************************)
(* An instance of ChangeSurface for TLC.  The repository mono holds the    *)
(* services 1 to 3; the root of service 2 lies inside that of service 1.   *)
(* Service 1 calls 2 and the unindexed 5; 2 publishes to the channel that  *)
(* 3 consumes; service 4 of the repository fork calls 1, statically as     *)
(* well, and publishes to the same channel.  A second service 2 may be     *)
(* indexed in fork, next to service 4 or in its place, and service 2 of    *)
(* mono may be renamed to 5, or get service 3 for a second one with its    *)
(* root.                                                                   *)
(***************************************************************************)
EXTENDS ChangeSurface, TLC

CONSTANTS mono, fork, updates

Service(n, root, repo) == [name |-> n, root |-> root, repo |-> repo]

MCRoots == {<<"mono">>, <<"mono", "lib">>, <<"mono", "web">>, <<"fork">>, <<"fork", "lib">>}

MCStartTables ==
    {[EmptyTable EXCEPT ![1] = Service(1, <<"mono">>, mono),
                        ![2] = Service(2, <<"mono", "lib">>, mono),
                        ![3] = Service(3, <<"mono", "web">>, mono),
                        ![4] = Service(4, <<"fork">>, fork)]}

MCIndexings ==
    {Service(2, <<"fork">>, fork), Service(2, <<"fork", "lib">>, fork),
     Service(5, <<"mono", "lib">>, mono), Service(3, <<"mono", "lib">>, mono)}

MCCallsOf == [n \in Names |-> CASE n = 1 -> {2, 5} [] n = 4 -> {1} [] OTHER -> {}]

MCStaticCallsOf ==
    [n \in Names |-> CASE n = 1 -> <<3, 2, 3>> [] n = 4 -> <<1, 2>> [] OTHER -> <<>>]

MCPublishesTo == [n \in Names |-> IF n \in {2, 4} THEN {updates} ELSE {}]

MCConsumesFrom == [n \in Names |-> IF n = 3 THEN {updates} ELSE {}]

MCFound == {{}, {1}, {4}, {1, 3}}

MCHintLists == {<<>>, <<3>>, <<5, 2>>}

MCRankings == {<<>>, <<3>>, <<4, 3>>, <<2, 1, 4>>}

\* Service 5 is not among the candidates unless it has been indexed.
MCAnswers ==
    {[primary |-> <<1>>, secondary |-> <<5>>, no_change |-> <<>>],
     [primary |-> <<4, 2>>, secondary |-> <<1, 3>>, no_change |-> <<>>],
     [primary |-> <<2>>, secondary |-> <<>>, no_change |-> <<1>>]}

MCDiffs ==
    {{<<"mono", "lib", "a">>}, {<<"mono", "b">>, <<"mono", "web", "c">>}, {<<"fork", "d">>}}
=============================================================================
