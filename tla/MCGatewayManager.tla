-------------------------- MODULE MCGatewayManager --------------------------
EXTENDS GatewayManager, TLC

\* Threads and devices are interchangeable; only for runs without liveness.
Symmetry == Permutations(Thread) \cup Permutations(Device)
=============================================================================
