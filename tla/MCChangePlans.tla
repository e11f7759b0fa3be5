--------------------------- MODULE MCChangePlans ---------------------------
(***************************************************************************)
(* Instances of ChangePlans: an orders service that publishes events two   *)
(* others may consume, and a workflow whose lines move when it is edited.  *)
(***************************************************************************)
EXTENDS ChangePlans, TLC

CONSTANTS c1, c2

MCClients == {c1, c2}

Symmetry == Permutations(MCClients)

\* Three files: one of each service of the plan, one outside of it.
MCTree == {"orders.py", "billing.py", "readme"}
MCOwner == [f \in MCTree |-> IF f = "orders.py" THEN "orders"
                             ELSE IF f = "billing.py" THEN "billing" ELSE "elsewhere"]

Created(consumers) ==
    [producer |-> "orders", name |-> "created", consumers |-> consumers, files |-> {"orders.py"}]
Paid ==
    [producer |-> "orders", name |-> "paid", consumers |-> {"billing"}, files |-> {"orders.py"}]
Shipped ==
    [producer |-> "shipping", name |-> "shipped", consumers |-> {"billing"}, files |-> {}]

ReviewUnit ==
    [id |-> <<"review">>, service |-> "orders", action |-> "review", deps |-> {},
     files |-> {}, checks |-> 1]

\* Without a primary service there is nothing to review.
Surface(contracts, primary) ==
    [primary |-> primary, contracts |-> contracts,
     reviews |-> IF primary = {} THEN <<>> ELSE <<ReviewUnit>>]

\* One decision, a contract repeated with other consumers, a ready plan, and none.
OneDecision ==
    {Surface(<<Created({"billing"}), Shipped, Created({"billing", "stock"})>>, {"orders"}),
     Surface(<<Created({}), Shipped>>, {"orders"}),
     Surface(<<>>, {})}

TwoDecisions == {Surface(<<Created({"billing"}), Paid>>, {"orders"})}

Row(line, text) == [path |-> 1, line |-> line, text |-> text]

MCKindOf == <<"build", "test", "lint">>

\* Commands come, go and repeat, but a line keeps its command.
StableTables == {{Row(1, 1), Row(2, 2)}, {Row(2, 2), Row(3, 3)}}

\* The test moves to the line the build had.
MovedTables == {{Row(1, 1), Row(2, 2)}, {Row(1, 2)}}

OneTable == {{Row(1, 1)}}
==============================================================================
