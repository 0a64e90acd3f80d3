-------------------------- MODULE MCCircuitBreaker --------------------------
(* Small instances of the circuit breaker for TLC. *)
EXTENDS CircuitBreaker
CONSTANTS c1, c2, c3
=============================================================================
