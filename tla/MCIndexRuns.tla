---------------------------- MODULE MCIndexRuns ----------------------------
(***************************************************************************)
(* Instances of IndexRuns for TLC.  IndexOnly is `orbitkb index` of one    *)
(* checkout that holds two services; WithUpdate adds `orbitkb update` of   *)
(* one of them; Everything adds a second checkout with a service of the    *)
(* same name, and an `index --service` that renames a service in place.    *)
(***************************************************************************)
EXTENDS IndexRuns

CONSTANTS p1, p2, p3, mono, fork, noRepo,
          orders, billing, ordersRoot, billingRoot, forkRoot

IndexOf(n, p, r) == [kind |-> "index", name |-> n, root |-> p, repo |-> r]

UpdateOf(n) == [kind |-> "update", name |-> n, root |-> None, repo |-> noRepo]

IndexOnly == {IndexOf(orders, ordersRoot, mono), IndexOf(billing, billingRoot, mono)}

WithUpdate == IndexOnly \cup {UpdateOf(orders)}

Everything ==
    {IndexOf(orders, ordersRoot, mono), IndexOf(billing, ordersRoot, mono),
     IndexOf(orders, forkRoot, fork), UpdateOf(orders)}

\* Only the first instance keeps one lock key per service.
ASSUME InstanceAssumption == OneKeyPerService <=> Commands = IndexOnly
=============================================================================
