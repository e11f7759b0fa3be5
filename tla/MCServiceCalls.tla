--------------------------- MODULE MCServiceCalls ---------------------------
(***************************************************************************)
(* Instances of ServiceCalls for TLC: a repository with the services       *)
(* orders and billing-service, which call each other, a vendor, and a      *)
(* service nobody indexed whose name has the suffix of billing-service.    *)
(***************************************************************************)
EXTENDS ServiceCalls, TLC

CONSTANTS p1, p2, mono, fork, noRepo, orders, billing, ghost, stripe,
          ordersRoot, billingRoot, forkRoot, service

MCFolded == [n \in Targets |-> n]

MCSuffix == [n \in Targets |-> IF n \in {billing, ghost} THEN service ELSE None]

MCAnswers ==
    {(billing :> "unknown" @@ stripe :> "unknown"), (orders :> "external" @@ ghost :> "internal")}

Index(repo, found) == [kind |-> "index", repo |-> repo, found |-> found]

Remove(repo) == [kind |-> "remove", repo |-> repo]

Update(n) == [kind |-> "update", repo |-> noRepo, name |-> n]

\* Both services, one of them only, the update of one, the removal of the
\* repository, and a second repository with a service of the same name.
Steady ==
    {Index(mono, {<<orders, ordersRoot>>, <<billing, billingRoot>>}),
     Index(mono, {<<orders, ordersRoot>>}), Index(fork, {<<billing, forkRoot>>}),
     Remove(mono), Update(billing)}

\* The service in billingRoot has another name the next time.
Renaming ==
    {Index(mono, {<<orders, ordersRoot>>, <<billing, billingRoot>>}),
     Index(mono, {<<orders, ordersRoot>>, <<ghost, billingRoot>>})}
=============================================================================
