------------------------------ MODULE GatewayMC -------------------------------
(***************************************************************************)
(* Gateway for TLC: a batch and a single request.                          *)
(***************************************************************************)
EXTENDS Gateway

CONSTANTS batch, single, BatchSize

MCSize == [r \in Request |-> IF r = batch THEN BatchSize ELSE 1]
=============================================================================
