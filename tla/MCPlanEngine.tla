---------------------------- MODULE MCPlanEngine ----------------------------
(* Plans for TLC.                                                          *)
EXTENDS PlanEngine, TLC

(* Step 3 needs step 1; 1 is undone by 2, 3 by 4 when there is a 4.        *)
MCDeps == [s \in Step |-> IF s = 3 THEN {1} ELSE {}]
MCCompensation == [s \in Step |-> IF s \in {1, 3} /\ s + 1 \in Step THEN s + 1 ELSE NoStep]
MCStepMax == [s \in Step |-> IF s = 1 THEN 2 ELSE 1]

Symmetry == Permutations(Resolution)
=============================================================================
