---------------------------- MODULE MCResilience ----------------------------
\* Small instances of Resilience: callers are interchangeable.
EXTENDS Resilience, TLC

Interchangeable == Permutations(Callers)
=============================================================================
