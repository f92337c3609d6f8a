--------------------------- MODULE MCThermalServer ---------------------------
(* ThermalServer with two connections. *)
EXTENDS ThermalServer
=============================================================================
