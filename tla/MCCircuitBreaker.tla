--------------------------- MODULE MCCircuitBreaker ---------------------------
(* Values for model-checking CircuitBreaker.  Three overlapping calls are  *)
(* enough for a probe of the present window, one of an earlier window and  *)
(* a call admitted while the circuit was closed to run at the same time.   *)
EXTENDS CircuitBreaker, TLC

CONSTANTS c1, c2, c3

MCCalls == {c1, c2, c3}
=============================================================================
