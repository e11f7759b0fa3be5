---------------------------- MODULE ServiceMutex ----------------------------
(***************************************************************************)
(* What the index lock promises: a client is inside a key only alone, and  *)
(* it leaves by finishing or by dying.  How a dead client's claim is       *)
(* noticed, and what a refused client does, are not visible here.          *)
(***************************************************************************)
CONSTANTS
    Clients,    \* who may enter
    Keys        \* what they enter

VARIABLE
    inside      \* key -> the clients inside it

TypeOK == inside \in [Keys -> SUBSET Clients]

Init == inside = [k \in Keys |-> {}]

Enter(c, k) ==
    /\ inside[k] = {}
    /\ inside' = [inside EXCEPT ![k] = {c}]

Leave(c, k) ==
    /\ c \in inside[k]
    /\ inside' = [inside EXCEPT ![k] = @ \ {c}]

Next == \E c \in Clients, k \in Keys : Enter(c, k) \/ Leave(c, k)

Spec == Init /\ [][Next]_inside
=============================================================================
