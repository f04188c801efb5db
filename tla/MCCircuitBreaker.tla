--------------------------- MODULE MCCircuitBreaker ---------------------------
(* Small instances of CircuitBreaker for TLC.  Workers are interchangeable, *)
(* but the safety run checks a liveness property too, under which symmetry  *)
(* is not sound.                                                            *)
EXTENDS CircuitBreaker
==============================================================================
