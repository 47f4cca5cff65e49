------------------------- MODULE MCReconnectBackoff -------------------------
(***************************************************************************)
(* Instances of ReconnectBackoff for TLC: the first Horizon seconds.       *)
(***************************************************************************)
EXTENDS ReconnectBackoff

CONSTANT Horizon

BeforeHorizon == now < Horizon
=============================================================================
