------------------------- MODULE MCIncrementalIndex -------------------------
(***************************************************************************)
(* Instances of IncrementalIndex for TLC: two endpoints of one component,  *)
(* in two files, the first of which also takes excerpts from the second    *)
(* file; the second file publishes messages, and the entry file declares   *)
(* the entities.                                                           *)
(***************************************************************************)
EXTENDS IncrementalIndex

CONSTANTS route1, route2, main, controller

MCRouteFile == <<route1, route2>>

MCExtraFiles == <<{route2}, {}>>

MCComponentOf == <<controller, controller>>

MCHintFiles == [k \in Kinds |-> IF k = "persistence" THEN {main} ELSE {route2}]

\* The smallest service: one endpoint, and an entry file that declares entities.
SmallRouteFile == <<route1>>

SmallExtraFiles == <<{}>>

SmallComponentOf == <<controller>>

SmallHintFiles == [k \in Kinds |-> IF k = "persistence" THEN {main} ELSE {}]

\* What the later steps and the properties of the run can see of a state: of
\* the overview only that there is one, since nothing reads its text.
ExistingOverview ==
    <<tree, clock, known, hashes, apis, comps, lists, overview # Nothing, pc, ctx, called, settled>>
=============================================================================
