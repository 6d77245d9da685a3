-------------------------- MODULE MCCircuitBreaker --------------------------
EXTENDS CircuitBreaker, TLC
=============================================================================
