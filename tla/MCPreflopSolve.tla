--------------------------- MODULE MCPreflopSolve ---------------------------
(* PreflopSolve with values for TLC. *)
EXTENDS PreflopSolve

CONSTANTS m, w, r

MWThreads == {m, w}
Sampled == {"sampled"}
NoLoads == {}
FewLoads == {1, 3}
NoFaults == {}
AllFaults == FaultPoints
==============================================================================
