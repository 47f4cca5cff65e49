--------------------------- MODULE MCMqttTransport ---------------------------
(***************************************************************************)
(* An instance of MqttTransport for TLC.                                   *)
(***************************************************************************)
EXTENDS MqttTransport, TLC

(***************************************************************************)
(* Calls and clients are interchangeable; the run checks no liveness.      *)
(***************************************************************************)
Symmetry == Permutations(Reqs) \cup Permutations(Clients)
=============================================================================
