---------------------------- MODULE MCCircuitBreaker ----------------------------
(* Two failures within two time units open the circuit, two successes close it. *)
EXTENDS CircuitBreaker
=================================================================================
