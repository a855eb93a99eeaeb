--------------------------- MODULE MCPlanVerifier ---------------------------
(* Calls for TLC, in four families: lists of conditions against facts and  *)
(* limits; the shape of the plan; declared risks and levels against        *)
(* approvals; and what the structure of a plan must not be.                *)
EXTENDS PlanVerifier

(* Step 3 does not exist.                                                  *)
MCConditions ==
    {[kind |-> "task_state_is", state |-> "running"],
     [kind |-> "step_succeeded", step |-> 1], [kind |-> "step_succeeded", step |-> 3],
     [kind |-> "approval_exists", step |-> None], [kind |-> "approval_exists", step |-> 2],
     [kind |-> "capability_granted", capability |-> "network"],
     [kind |-> "circuit_closed"],
     [kind |-> "budget_remaining", budget |-> <<1, 1>>],
     [kind |-> "artifact_digest_matches", sha256 |-> "d"],
     [kind |-> "idempotency_key_unused", key |-> "k"],
     [kind |-> "state_digest_matches", sha256 |-> "d"]}

MCLists == {<< >>} \cup {<<a>> : a \in MCConditions}
                   \cup {<<a, b>> : a, b \in MCConditions}

Loose == [max_steps |-> 2, max_dependencies_per_step |-> 1,
          max_conditions_per_step |-> 2, max_violations |-> 2]

First == [id |-> 1, depends_on |-> << >>, action |-> "read_only", preconditions |-> << >>,
          postconditions |-> << >>, risk |-> 0, approval |-> 0, max_attempts |-> 1,
          compensation |-> None, well_written |-> TRUE]

Second(deps, action, list, risk, level) ==
    [First EXCEPT !.id = 2, !.depends_on = deps, !.action = action, !.preconditions = list,
                  !.postconditions = IF list = << >> THEN << >> ELSE Tail(list),
                  !.risk = risk, !.approval = level]

Plan(second, risk, level, state, digest) ==
    [operator |-> "o", revision |-> 1, budget |-> [max_steps |-> 1, max_elapsed_ms |-> 1], state |-> state, digest_matches |-> digest, risk |-> risk,
     approval |-> level, steps |-> <<First, second>>]

Approval(scope, required, role, approver, approved, current) ==
    [scope |-> scope, required |-> required, role |-> role, approver |-> approver,
     approved |-> approved, current |-> current, bound |-> TRUE]

(* The facts the host gives: all as wanted, all otherwise, all left out.   *)
Context(phase, target, facts, succeeded, approvals) ==
    [phase |-> phase, target_step |-> target,
     task_state |-> CASE facts = "met" -> "running" [] facts = "unmet" -> "queued" [] OTHER -> None,
     succeeded_steps |-> succeeded,
     granted_capabilities |-> IF facts = "met" THEN {"network"} ELSE {},
     circuit_closed |-> facts = "met",
     remaining_budget |-> IF facts = "met" THEN <<1, 2>> ELSE <<2, 0>>,
     artifact |-> CASE facts = "met" -> "d" [] facts = "unmet" -> "e" [] OTHER -> None,
     used_idempotency_keys |-> IF facts = "unmet" THEN {"k"} ELSE {},
     state_digest |-> CASE facts = "met" -> "d" [] facts = "unmet" -> "e" [] OTHER -> None,
     approvals |-> approvals]

Call(v, p, c) == [verifier |-> v, plan |-> p, context |-> c]

MCByConditions ==
    {Call([Loose EXCEPT !.max_violations = kept, !.max_conditions_per_step = most],
          Plan(Second(deps, "read_only", list, 0, 0), 0, 0, "running", TRUE),
          Context(phase, 2, facts, {}, approvals)) :
        kept \in 0..2, most \in 1..2, deps \in {<< >>, <<1>>}, list \in MCLists,
        phase \in {"step_ready", "post_step"}, facts \in {"met", "unmet", "absent"},
        approvals \in {{}, {Approval(2, 0, 0, "r", TRUE, TRUE)}}}

MCByShape ==
    {Call([Loose EXCEPT !.max_violations = kept, !.max_steps = steps,
                        !.max_dependencies_per_step = deps],
          Plan(Second(doubled, "read_only", list, 0, 0), 0, 0, state, digest),
          Context(phase, target, "met", succeeded, {})) :
        kept \in {0, 1}, steps \in 1..2, deps \in 0..2, digest \in BOOLEAN,
        list \in {<< >>, <<[kind |-> "step_succeeded", step |-> 3]>>},
        doubled \in {<<1>>, <<1, 1>>}, state \in {"running", "failed"}, phase \in {"preflight", "step_ready", "post_step"},
        target \in {2, 3, None}, succeeded \in {{}, {1}}}

MCApprovals ==
    {{}, {Approval(None, 2, 2, "r", TRUE, FALSE)}, {Approval(None, 2, 2, "r", FALSE, TRUE)}}
    \cup {{Approval(scope, required, role, approver, TRUE, TRUE)} :
            scope \in {None, 2}, required \in 0..2, role \in 1..2, approver \in {"o", "r"}}

MCByApprovals ==
    {Call([Loose EXCEPT !.max_violations = kept],
          Plan(Second(<<1>>, action, << >>, risk, level), planRisk, planLevel, "approved", TRUE),
          Context(phase, 2, "met", {1}, approvals)) :
        kept \in {0, 2},
        action \in {"read_only", "mutation", "execute_tool", "external_effect"},
        risk \in 0..2, level \in 0..2, planRisk \in 1..2, planLevel \in 1..2,
        phase \in {"preflight", "step_ready"}, approvals \in MCApprovals}

MCSound == Plan(Second(<<1>>, "mutation", << >>, 1, 1), 1, 1, "approved", TRUE)

(* Every field that validate_structure looks at, at and over its limits;   *)
(* and one plan of 129 steps.                                              *)
MCPlans ==
    {[MCSound EXCEPT !.revision = n] : n \in 0..1}
    \cup {[MCSound EXCEPT !.budget = [max_steps |-> m, max_elapsed_ms |-> n]] : m, n \in 0..1}
    \cup {[MCSound EXCEPT !.steps[2].max_attempts = n, !.steps[2].well_written = b] :
             n \in {0, 1, 10, 11}, b \in BOOLEAN}
    \cup {[MCSound EXCEPT !.steps[1].depends_on = a, !.steps[2].depends_on = b] :
             a, b \in {<< >>, <<1>>, <<2>>, <<3>>, <<1, 1>>, <<2, 1>>}}
    \cup {[MCSound EXCEPT !.steps[1].compensation = a, !.steps[2].compensation = b] :
             a, b \in {1, 2, 3, None}}
    \cup {[MCSound EXCEPT !.steps[2].id = 1], [MCSound EXCEPT !.steps = << >>],
          [MCSound EXCEPT !.steps = [i \in 1..129 |-> [First EXCEPT !.id = i]]]}
    \cup {[MCSound EXCEPT !.risk = 3], [MCSound EXCEPT !.steps[2].risk = 3]}

MCByStructure ==
    {Call([Loose EXCEPT !.max_dependencies_per_step = deps, !.max_steps = 200], plan,
          Context(phase, 2, "met", succeeded, approvals)) :
        deps \in 0..2, plan \in MCPlans, phase \in {"preflight", "step_ready", "post_step"},
        succeeded \in {{}, {1}},
        approvals \in {{}, {Approval(None, 1, 1, "r", TRUE, TRUE)}}}

MCInputs == <<MCByConditions, MCByShape, MCByApprovals, MCByStructure>>
=============================================================================
