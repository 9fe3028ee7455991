-------------------------- MODULE MCCircuitBreaker --------------------------
(* An instance of CircuitBreaker: the thresholds of index.ts, with three       *)
(* requests that may be under way together and a cooldown of two ticks.       *)
EXTENDS CircuitBreaker
=============================================================================
