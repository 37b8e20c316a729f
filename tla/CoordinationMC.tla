--------------------------- MODULE CoordinationMC ----------------------------
(***************************************************************************)
(* Coordination for TLC: the nodes, as model values.                       *)
(***************************************************************************)
EXTENDS Coordination

CONSTANTS n1, n2
=============================================================================
