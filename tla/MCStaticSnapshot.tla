-------------------------- MODULE MCStaticSnapshot --------------------------
(***************************************************************************)
(* Instances of StaticSnapshot for TLC: two input files.                   *)
(***************************************************************************)
EXTENDS StaticSnapshot

CONSTANTS handlers, schema
=============================================================================
