---------------------------- MODULE PlanVerifier ----------------------------
(***************************************************************************)
(* PlanVerifier::verify of crates/shaka-core/src/plan_verifier.rs, with    *)
(* the parts of PlanSpec and PlanApproval it calls (crates/shaka-core/src/ *)
(* lib.rs).  It is a pure function: a behaviour is one call on one of the  *)
(* inputs.                                                                 *)
(*                                                                         *)
(* Checks push violations on a report that keeps only the first few, and   *)
(* the status is computed from what was kept.  A violation is its code.    *)
(* Risks and approval levels are ordered enums and stand as numbers: risk  *)
(* 0 read-only, 1 mutation, 2 external effect, 3 irreversible; level 0     *)
(* none, 1 reviewer, 2 administrator, and a role is the highest level it   *)
(* may give.  What is read off the text of a step (the syntax of its keys, *)
(* names and digests) is one bit, well_written, and whether the digest is  *)
(* that of the plan is another.                                            *)
(***************************************************************************)
EXTENDS Integers, SequencesExt, PlanStates

CONSTANTS
    Inputs,  \* families of calls [verifier, plan, context]
    None

VARIABLES
    input,   \* the arguments of the call
    report   \* the PlanVerificationReport, or None

vars == <<input, report>>

-----------------------------------------------------------------------------
(* What the Rust types promise of the arguments: lists, numbers, and       *)
(* members of the enums.                                                   *)

IsList(s) == s \in Seq(ToSet(s))

Conditions ==
    {"task_state_is", "step_succeeded", "approval_exists", "capability_granted",
     "circuit_closed", "budget_remaining", "artifact_digest_matches",
     "idempotency_key_unused", "state_digest_matches"}

StepTyped(s) ==
    /\ IsList(s.depends_on)
    /\ s.max_attempts \in Nat
    /\ s.action \in {"read_only", "mutation", "execute_tool", "external_effect"}
    /\ s.risk \in 0..3 /\ s.approval \in 0..2
    /\ \A list \in {s.preconditions, s.postconditions} :
         IsList(list) /\ \A d \in ToSet(list) : d.kind \in Conditions

CallTyped(v, p, c) ==
    /\ {v.max_steps, v.max_dependencies_per_step, v.max_conditions_per_step,
        v.max_violations} \subseteq Nat
    /\ IsList(p.steps) /\ \A s \in ToSet(p.steps) : StepTyped(s)
    /\ {p.revision, p.budget.max_steps, p.budget.max_elapsed_ms} \subseteq Nat
    /\ p.risk \in 0..3 /\ p.approval \in 0..2
    /\ \A a \in c.approvals : {a.required, a.role} \subseteq 0..2

ASSUME InputsAssumption ==
    \A k \in DOMAIN Inputs : \A i \in Inputs[k] : CallTyped(i.verifier, i.plan, i.context)

-----------------------------------------------------------------------------
(* PlanAction, PlanRisk, PlanSpec                                          *)

minimum_risk(action) ==
    [read_only |-> 0, mutation |-> 1, execute_tool |-> 1, external_effect |-> 2][action]

minimum_approval(risk) == <<0, 1, 2, 2>>[risk + 1]

Largest(S) == CHOOSE n \in S : \A m \in S : m <= n

Steps(p) == ToSet(p.steps)

Ids(p) == {s.id : s \in Steps(p)}

(* PlanStep::validate                                                      *)
validate_step(s) ==
    /\ s.well_written
    /\ s.max_attempts \in 1..10
    /\ s.risk # 3
    /\ s.risk >= minimum_risk(s.action)
    /\ s.approval >= minimum_approval(s.risk)

acyclic(p) ==
    \A S \in SUBSET Steps(p) : S # {} =>
        \E s \in S : ToSet(s.depends_on) \cap {t.id : t \in S} = {}

(* The references of a step to other steps of the plan.                    *)
references_valid(p, s) ==
    /\ ToSet(s.depends_on) \subseteq Ids(p) \ {s.id}
    /\ s.compensation = None \/ s.compensation \in Ids(p) \ {s.id}

validate_structure(p) ==
    /\ p.revision # 0
    /\ Len(p.steps) \in 1..128
    /\ p.budget.max_steps # 0 /\ p.budget.max_elapsed_ms # 0
    /\ p.risk # 3
    /\ p.risk >= Largest({s.risk : s \in Steps(p)})
    /\ p.approval >= minimum_approval(p.risk)
    /\ Cardinality(Ids(p)) = Len(p.steps)
    /\ \A s \in Steps(p) : validate_step(s) /\ references_valid(p, s)
    /\ acyclic(p)

StepLevel(s) == Largest({s.approval, minimum_approval(s.risk)})

required_approval(p) ==
    Largest({StepLevel(s) : s \in Steps(p)} \cup {p.approval, minimum_approval(p.risk)})

(* PlanApproval::validate_for.  `bound': plan, digest, revision and tenant *)
(* are this plan's; `current': neither revoked nor expired.                *)
validate_for(a, p, scope) ==
    LET required == IF scope = None THEN {required_approval(p)}
                    ELSE {StepLevel(s) : s \in {t \in Steps(p) : t.id = scope}}
    IN
    /\ a.approved /\ a.current /\ a.bound
    /\ a.approver # p.operator
    /\ a.scope = scope
    /\ a.required <= a.role
    /\ \E level \in required : a.required >= level

has_valid_approval(p, scope, c) == \E a \in c.approvals : validate_for(a, p, scope)

-----------------------------------------------------------------------------
(* The report                                                              *)

(* Mutant: the limit is taken as it is given.                              *)
LimitAsGiven(v) == v.max_violations

(* At least one violation is kept.                                         *)
retention_limit(v) == Largest({v.max_violations, 1})

(* The violations pushed so far, in order, up to the limit.                *)
push(v, violations) ==
    SubSeq(violations, 1, IF Len(violations) < retention_limit(v)
                          THEN Len(violations) ELSE retention_limit(v))

has_blocking_violation(kept) == ToSet(kept) \ {"approval_required"} # {}

(* What one check pushes.                                                  *)
Violation(violated, code) == IF violated THEN <<code>> ELSE << >>

-----------------------------------------------------------------------------
(* The checks                                                              *)

(* A condition that names a step the plan does not have.                   *)
Dangling(p, cond) ==
    /\ cond.kind \in {"step_succeeded", "approval_exists"}
    /\ cond.step \notin Ids(p) \cup {None}

verify_step_shape(v, p, s) ==
    LET conditions == s.preconditions \o s.postconditions IN
       Violation(Len(s.depends_on) > v.max_dependencies_per_step, "limit_exceeded")
    \o Violation(\/ Len(s.preconditions) > v.max_conditions_per_step
                 \/ Len(s.postconditions) > v.max_conditions_per_step, "limit_exceeded")
    \o FlattenSeq([i \in 1..Len(conditions) |->
                     Violation(Dangling(p, conditions[i]), "missing_reference")])

(* The part of verify before the phase is looked at.                       *)
Shape(v, p) ==
       Violation(~p.digest_matches, "digest_invalid")
    \o Violation(Len(p.steps) > v.max_steps, "limit_exceeded")
    \o FlattenSeq([i \in 1..Len(p.steps) |-> verify_step_shape(v, p, p.steps[i])])
    \o Violation(p.state \in PlanTerminal, "plan_state_invalid")

(* A fact the host may leave out.                                          *)
Compare(actual, expected) ==
    IF actual = None THEN "missing_context"
    ELSE IF actual = expected THEN "satisfied" ELSE "unsatisfied"

budget_at_least(available, required) ==
    \A d \in DOMAIN required : available[d] >= required[d]

Holds(b) == IF b THEN "satisfied" ELSE "unsatisfied"

evaluate_condition(p, cond, c) ==
    CASE cond.kind = "task_state_is"           -> Compare(c.task_state, cond.state)
      [] cond.kind = "step_succeeded"          -> Holds(cond.step \in c.succeeded_steps)
      [] cond.kind = "approval_exists"         ->
           IF has_valid_approval(p, cond.step, c) THEN "satisfied" ELSE "approval_required"
      [] cond.kind = "capability_granted"      -> Holds(cond.capability \in c.granted_capabilities)
      [] cond.kind = "circuit_closed"          -> Holds(c.circuit_closed)
      [] cond.kind = "budget_remaining"        -> Holds(budget_at_least(c.remaining_budget, cond.budget))
      [] cond.kind = "artifact_digest_matches" -> Compare(c.artifact, cond.sha256)
      [] cond.kind = "idempotency_key_unused"  -> Holds(cond.key \notin c.used_idempotency_keys)
      [] cond.kind = "state_digest_matches"    -> Compare(c.state_digest, cond.sha256)

verify_conditions(p, conditions, c) ==
    FlattenSeq([i \in 1..Len(conditions) |->
      LET result == evaluate_condition(p, conditions[i], c) IN
         Violation(result # "satisfied",
                   CASE result = "approval_required" -> "approval_required"
                     [] result = "missing_context"   -> "condition_context_missing"
                     [] OTHER                        -> "condition_unsatisfied")])

verify_preflight_approval(p, c) ==
    Violation(required_approval(p) # 0 /\ ~has_valid_approval(p, None, c), "approval_required")

verify_dependencies(s, c) ==
    FlattenSeq([i \in 1..Len(s.depends_on) |->
      Violation(s.depends_on[i] \notin c.succeeded_steps, "dependency_not_satisfied")])

verify_step_approval(p, s, c) ==
    Violation(/\ StepLevel(s) # 0
              /\ ~has_valid_approval(p, s.id, c) /\ ~has_valid_approval(p, None, c),
              "approval_required")

Target(p, c) == CHOOSE s \in Steps(p) : s.id = c.target_step

Phase(p, c) ==
    IF c.phase = "preflight" THEN verify_preflight_approval(p, c)
    ELSE IF c.target_step \notin Ids(p) THEN <<"missing_reference">>
    ELSE LET s == Target(p, c) IN
         IF c.phase = "step_ready"
         THEN verify_dependencies(s, c) \o verify_conditions(p, s.preconditions, c)
              \o verify_step_approval(p, s, c)
         ELSE verify_conditions(p, s.postconditions, c)

Status(kept) ==
    IF has_blocking_violation(kept) THEN "invalid"
    ELSE IF kept # << >> THEN "requires_approval" ELSE "valid"

(* A plan that is not well formed, and one with a bad shape, return early. *)
verify(v, p, c) ==
    LET shape == push(v, IF validate_structure(p) THEN Shape(v, p) ELSE <<"structure_invalid">>)
        kept == push(v, shape \o Phase(p, c))
    IN
    IF ~validate_structure(p) THEN [status |-> "invalid", violations |-> shape]
    ELSE IF has_blocking_violation(shape) THEN [status |-> "invalid", violations |-> shape]
    ELSE [status |-> IF c.phase # "preflight" /\ c.target_step \notin Ids(p)
                     THEN "invalid" ELSE Status(kept),
          violations |-> kept]

-----------------------------------------------------------------------------
Init == (\E i \in DOMAIN Inputs : input \in Inputs[i]) /\ report = None

Next ==
    /\ report = None
    /\ report' = verify(input.verifier, input.plan, input.context)
    /\ UNCHANGED input

Spec == Init /\ [][Next]_vars

-----------------------------------------------------------------------------
(* Properties                                                              *)

(* Conditions that the phase looks at.                                     *)
Considered(p, c) ==
    IF c.phase = "preflight" \/ c.target_step \notin Ids(p) THEN {}
    ELSE ToSet(IF c.phase = "step_ready" THEN Target(p, c).preconditions
                                         ELSE Target(p, c).postconditions)

Blocked(v, p, c) ==
    \/ ~validate_structure(p) \/ ~p.digest_matches \/ p.state \in PlanTerminal
    \/ Len(p.steps) > v.max_steps
    \/ \E s \in Steps(p) :
         \/ Len(s.depends_on) > v.max_dependencies_per_step
         \/ \E list \in {s.preconditions, s.postconditions} :
              Len(list) > v.max_conditions_per_step \/ \E d \in ToSet(list) : Dangling(p, d)
    \/ c.phase # "preflight" /\ c.target_step \notin Ids(p)
    \/ c.phase = "step_ready" /\ ~(ToSet(Target(p, c).depends_on) \subseteq c.succeeded_steps)
    \/ \E d \in Considered(p, c) :
         evaluate_condition(p, d, c) \in {"missing_context", "unsatisfied"}

Unapproved(p, c) ==
    \/ c.phase = "preflight" /\ required_approval(p) # 0 /\ ~has_valid_approval(p, None, c)
    \/ /\ c.phase = "step_ready" /\ StepLevel(Target(p, c)) # 0
       /\ \A scope \in {None, c.target_step} : ~has_valid_approval(p, scope, c)
    \/ \E d \in Considered(p, c) : evaluate_condition(p, d, c) = "approval_required"

Expected(v, p, c) ==
    IF Blocked(v, p, c) THEN "invalid"
    ELSE IF Unapproved(p, c) THEN "requires_approval" ELSE "valid"

(* A step that acts on something is executable only with the approval of   *)
(* somebody other than the proponent whose role reaches the level that the *)
(* risk of the action itself asks for, whatever the plan declares.         *)
EffectsApproved(p, c) ==
    LET level == minimum_approval(minimum_risk(Target(p, c).action)) IN
    c.phase = "step_ready" /\ level > 0 =>
        \E a \in c.approvals :
            a.approved /\ a.current /\ a.bound /\ a.approver # p.operator /\ a.role >= level

(* The verdict does not depend on how many violations the report may keep, *)
(* down to none: a plan is executable exactly when nothing stands against  *)
(* it.  Whether it is refused or only waits for an approval is exact too   *)
(* when as many violations are kept as a step may have conditions (64 and  *)
(* 64 by default): with fewer, missing approvals listed first can push a   *)
(* blocking violation out of the report (PlanVerifier::verify, push).      *)
VerdictSound ==
    LET v == input.verifier
        p == input.plan
        c == input.context
    IN
    report # None =>
        /\ report.status = "valid" <=> Expected(v, p, c) = "valid"
        /\ v.max_violations >= v.max_conditions_per_step => report.status = Expected(v, p, c)
        /\ report.status = "valid" => EffectsApproved(p, c)
=============================================================================
