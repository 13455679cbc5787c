-------------------------- MODULE MCCircuitBreaker --------------------------
(* Instances of CircuitBreaker for TLC: one tick is 30 seconds.            *)
EXTENDS CircuitBreaker, TLC

\* Callers are interchangeable.
CallerSymmetry == Permutations(Callers)
=============================================================================
