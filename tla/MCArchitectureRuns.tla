-------------------------- MODULE MCArchitectureRuns --------------------------
(***************************************************************************)
(* Two services in one checkout.  The source of a service holds            *)
(* a component with as many dependencies as its code fact says, which the  *)
(* first detector reports of the one service; the second one reports the   *)
(* cloud resource of the other unless the infrastructure of its checkout   *)
(* declares it.                                                            *)
(***************************************************************************)
EXTENDS ArchitectureRuns

CONSTANTS a, b

MCServices == {a, b}
OneCheckout == [s \in MCServices |-> "shop"]

MCIacFacts == {"declared", "missing"}

Finding(kind, s, n) == [kind |-> kind, services |-> {s}, entry |-> "none", count |-> n]

MCFindingsOf(d, codeNow, iacNow) ==
    IF d = 1
    THEN {Finding("component_fan_out", s, codeNow[s]) : s \in {t \in {a} : codeNow[t] # NoCode}}
    ELSE {Finding("cloud_dependency_without_iac", s, 0) :
             s \in {t \in {b} : codeNow[t] # NoCode /\ iacNow[CheckoutOf[t]] # "declared"}}

=============================================================================
