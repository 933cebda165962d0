-------------------------- MODULE MCSolverLifecycle --------------------------
(* SolverLifecycle with values for TLC. *)
EXTENDS SolverLifecycle

CONSTANTS c1, c2, r

OneThread == {c1}
TwoThreads == {c1, c2}
NoLoads == {}
SomeLoads == {1, 2}
NoFaults == {}
RunFaults == FaultPoints \ {"save"}
BothLanes == {"vector", "sampled"}
Vector == {"vector"}
Sampled == {"sampled"}
==============================================================================
