--------------------------- MODULE MCPlanHistory ---------------------------
(* Instances of PlanHistory for TLC.                                       *)
EXTENDS PlanHistory, TLC

Symmetry == Permutations(Writer)
============================================================================
