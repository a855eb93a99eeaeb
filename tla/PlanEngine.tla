----------------------------- MODULE PlanEngine -----------------------------
(***************************************************************************)
(* A planned task: one plan of crates/shaka-queue/src/plan_store.rs, its   *)
(* steps, and the api_tasks row that executes it one step per claim.       *)
(* Every operation is one IMMEDIATE transaction, hence one action.  An     *)
(* operation that returns an error drops its transaction and changes       *)
(* nothing: its refusal is the absence of a step.                          *)
(*                                                                         *)
(* Every transition of a plan or a step is appended with an idempotency    *)
(* key that is UNIQUE in the plan's chain: the operation fails when the    *)
(* key it makes up is already there.  The keys are kept, the hashes are    *)
(* not.  Keys made from the instant of a recovery never repeat and are     *)
(* left out.                                                               *)
(*                                                                         *)
(* Who may finish is settled by the lease token (QueueStore, Fencing):     *)
(* here the lease is in force, expired or absent.                          *)
(***************************************************************************)
EXTENDS Integers, FiniteSets, PlanStates

CONSTANTS
    Step,          \* step ids, in the order candidates are sorted
    NoStep,        \* plan_step_id IS NULL, no compensation declared
    Deps,          \* depends_on
    Compensation,  \* compensation_step_id
    StepMax,       \* max_attempts of each step
    Conditional,   \* steps with preconditions, which may fail at a claim
    Resolution     \* Idempotency-Key values of resolutions

(* No set of steps waits for itself.                                       *)
ensure_acyclic == \A S \in SUBSET Step : S # {} => \E s \in S : Deps[s] \cap S = {}

validate_structure ==
    /\ Step # {}
    /\ Deps \in [Step -> SUBSET Step]
    /\ Compensation \in [Step -> Step \cup {NoStep}]
    /\ \A s \in Step : Compensation[s] # s
    /\ ensure_acyclic

ASSUME PlanAssumption ==
    /\ Step \subseteq Nat /\ NoStep \notin Step
    /\ StepMax \in [Step -> Nat \ {0}]
    /\ Conditional \subseteq Step
    /\ validate_structure

VARIABLES
    plan,      \* plans.state
    step,      \* plan_steps.state
    attempts,  \* plan_steps.attempts
    keys,      \* plan_transitions.idempotency_key
    approval,  \* whether required_approval() asks for one, and the global one
    task       \* api_tasks

vars == <<plan, step, attempts, keys, approval, task>>

-----------------------------------------------------------------------------
TaskTerminal == {"succeeded", "failed", "cancelled"}

Succeeded == {s \in Step : step[s] = "succeeded"}

Waiting == {s \in Step : step[s] \in {"pending", "ready"}}

(* append_plan_transition_tx, append_step_transition_tx: the keys of one   *)
(* transaction, none of which may be in the chain                          *)
Chain(K) ==
    /\ K \cap keys = {}
    /\ keys' = keys \cup K

(* Mutant: plan_step_id survives the lease.                                *)
UnleasedLocked(status) == [task EXCEPT !.status = status, !.lease = "none"]

Unleased(status) ==
    [task EXCEPT !.status = status, !.lease = "none", !.locked = NoStep]

-----------------------------------------------------------------------------
(* Approval and admission                                                  *)

Undecided == {"draft", "proposed", "validated", "awaiting_approval"}

(* approve_plan, Approved, for the whole plan: the walk through proposed   *)
(* and validated is one transaction.  A step's own approval changes no     *)
(* state and suffices for nothing: preflight wants the global one.         *)
approve_plan ==
    /\ plan \in Undecided
    /\ plan' = "approved"
    /\ approval' = IF approval = "none" THEN "valid" ELSE approval
    /\ Chain({<<"approval:approved">>})
    /\ UNCHANGED <<step, attempts, task>>

(* approve_plan, Rejected, for the plan or any of its steps                *)
reject_plan ==
    /\ plan \in Undecided
    /\ plan' = "rejected"
    /\ Chain({<<"approval:rejected">>})
    /\ UNCHANGED <<step, attempts, approval, task>>

(* PlanVerifier, preflight                                                 *)
Preflight == approval \in {"not_required", "valid"}

(* record_plan_admission_tx, in the transaction of submit_task             *)
submit_task ==
    /\ task.status = "absent"
    /\ plan \in Undecided \cup {"approved"}
    /\ Preflight
    /\ plan' = "approved"
    /\ Chain(IF plan = "approved" THEN {} ELSE {<<"admission:approved">>})
    /\ task' = [task EXCEPT !.status = "queued"]
    /\ UNCHANGED <<step, attempts, approval>>

-----------------------------------------------------------------------------
(* Claim: prepare_planned_claim_tx                                         *)

(* Targets of the compensation under way                                   *)
Targets == {Compensation[s] : s \in {c \in Step : step[c] = "compensating"}} \ {NoStep}

(* Mutant: the dependencies are not looked at.                             *)
RunnableAnyway == {s \in Waiting : plan = "compensating" => s \in Targets}

Runnable ==
    {s \in Waiting : /\ plan = "compensating" => s \in Targets
                     /\ Deps[s] \subseteq Succeeded}

(* Mutant: the key does not name the attempt.                              *)
ClaimKeysOfStep(s) == {<<"claim:running", s, 1>>}

ClaimKeys(s) ==
    LET n == attempts[s] + 1 IN
       (IF plan = "approved" THEN {<<"claim:plan", s>>} ELSE {})
       \cup (IF step[s] = "pending" THEN {<<"claim:ready", s, n>>} ELSE {})
       \cup {<<"claim:running", s, n>>}

(* The first candidate whose preconditions hold is taken; those before it  *)
(* may only be passed over when they have preconditions.                   *)
claim_next(s) ==
    /\ task.status = "queued" /\ ~task.cancel /\ task.locked = NoStep
    /\ plan \in {"approved", "running", "compensating"}
    /\ Preflight
    /\ s \in Runnable
    /\ \A c \in Runnable : c < s => c \in Conditional
    /\ Chain(ClaimKeys(s))
    /\ plan' = IF plan = "approved" THEN "running" ELSE plan
    /\ step' = [step EXCEPT ![s] = "running"]
    /\ attempts' = [attempts EXCEPT ![s] = @ + 1]
    /\ task' = [task EXCEPT !.status = "running", !.lease = "held", !.locked = s]
    /\ UNCHANGED approval

-----------------------------------------------------------------------------
(* Completion: finish_planned_step_tx, by the holder of the lease          *)

Held(s) ==
    /\ task.lease = "held"
    /\ task.locked = s
    /\ step[s] \in {"running", "cancel_requested"}

Asked == task.cancel \/ task.status = "cancel_requested"

(* Mutant: a state that parse_step_state does not know.                    *)
mark_plan_ambiguous(s) == plan' = "unknown" /\ step' = [step EXCEPT ![s] = "ambiguous"]

(* mark_plan_unknown_tx                                                    *)
mark_plan_unknown(s) ==
    /\ plan' = "unknown"
    /\ step' = [step EXCEPT ![s] = "unknown"]

(* A cancellation was asked for: whatever the worker says happened, the    *)
(* boundary is ambiguous.                                                  *)
finish_cancelled(s) ==
    /\ Held(s) /\ Asked
    /\ mark_plan_unknown(s)
    /\ task' = [Unleased("cancelled") EXCEPT !.cancel = TRUE]
    /\ UNCHANGED <<attempts, keys, approval>>

(* Mutant: a plan that was undone is reported as a success.                *)
complete_compensation_as_success(s) ==
    /\ step' = [c \in Step |-> IF c = s THEN "succeeded"
                               ELSE IF step[c] = "compensating" THEN "compensated" ELSE step[c]]
    /\ plan' = "compensated"
    /\ task' = Unleased("succeeded")
    /\ Chain({<<"finish:succeeded", s, attempts[s]>>})

(* complete_compensation_tx                                                *)
complete_compensation(s) ==
    LET sources == {c \in Step : step[c] = "compensating" /\ Compensation[c] = s}
        after == [c \in Step |-> IF c = s THEN "succeeded"
                                 ELSE IF c \in sources THEN "compensated" ELSE step[c]]
        left == {c \in Step : after[c] = "compensating"}
    IN  /\ step' = after
        /\ plan' = IF left = {} THEN "compensated" ELSE plan
        /\ task' = Unleased(IF left = {} THEN "failed" ELSE "queued")
        /\ Chain({<<"finish:succeeded", s, attempts[s]>>}
                  \cup {<<"compensation:source", c>> : c \in sources}
                  \cup (IF left = {} THEN {<<"compensation:plan:compensated">>} ELSE {}))

complete_step(s) ==
    LET last == Step \ Succeeded = {s} IN
    /\ step' = [step EXCEPT ![s] = "succeeded"]
    /\ plan' = IF last THEN "succeeded" ELSE plan
    /\ task' = Unleased(IF last THEN "succeeded" ELSE "queued")
    /\ Chain({<<"finish:succeeded", s, attempts[s]>>}
              \cup (IF last THEN {<<"finish:plan:succeeded">>} ELSE {}))

finish_succeeded(s) ==
    /\ Held(s) /\ ~Asked
    /\ IF plan = "compensating" THEN complete_compensation(s) ELSE complete_step(s)
    /\ UNCHANGED <<attempts, approval>>

(* Mutant: one retry too many.                                             *)
finish_failed_once_more(s, retryable) ==
    /\ Held(s) /\ ~Asked /\ retryable /\ attempts[s] <= StepMax[s]
    /\ step' = [step EXCEPT ![s] = "ready"]
    /\ task' = Unleased("queued")
    /\ Chain({<<"finish:failed", s, attempts[s]>>, <<"retry:ready", s, attempts[s]>>})
    /\ UNCHANGED <<plan, attempts, approval>>

(* An error, or a success whose postconditions do not hold, which is an    *)
(* error that is not retried.                                              *)
finish_failed(s, retryable) ==
    LET failure == <<"finish:failed", s, attempts[s]>>
    IN
    /\ Held(s) /\ ~Asked
    /\ IF plan = "compensating"
       THEN /\ mark_plan_unknown(s)
            /\ task' = Unleased("failed")
            /\ Chain({failure})
       ELSE IF retryable /\ attempts[s] < StepMax[s]
       THEN /\ step' = [step EXCEPT ![s] = "ready"]
            /\ task' = Unleased("queued")
            /\ Chain({failure, <<"retry:ready", s, attempts[s]>>})
            /\ UNCHANGED plan
       ELSE /\ step' = [step EXCEPT ![s] = "failed"]
            /\ plan' = IF plan = "running" THEN "failed" ELSE plan
            /\ task' = Unleased("failed")
            /\ Chain({failure} \cup (IF plan = "running" THEN {<<"finish:plan:failed">>} ELSE {}))
    /\ UNCHANGED <<attempts, approval>>

-----------------------------------------------------------------------------
(* Cancellation: request_cancel and cancel_planned_task_tx                 *)

Cancellable == plan \notin {"unknown", "compensating"}

CancelKey == <<"cancel:plan:requested">>

(* Mutant: the steps that are done are cancelled too.                      *)
cancel_queued_all ==
    /\ task.status = "queued" /\ plan \in {"approved", "running"}
    /\ step' = [s \in Step |-> "cancelled"]
    /\ plan' = "cancelled"
    /\ task' = [task EXCEPT !.status = "cancelled", !.cancel = TRUE]
    /\ Chain({CancelKey, <<"cancel:plan:completed">>})
    /\ UNCHANGED <<attempts, approval>>

cancel_queued ==
    /\ task.status = "queued" /\ Cancellable
    /\ plan \in {"approved", "running"}
    /\ step' = [s \in Step |-> IF s \in Waiting THEN "cancelled" ELSE step[s]]
    /\ plan' = "cancelled"
    /\ task' = [task EXCEPT !.status = "cancelled", !.cancel = TRUE]
    /\ Chain({CancelKey, <<"cancel:plan:completed">>}
              \cup {<<"cancel:step", s>> : s \in Waiting})
    /\ UNCHANGED <<attempts, approval>>

(* Asking again changes nothing.                                           *)
cancel_running ==
    /\ task.status = "running" /\ Cancellable
    /\ plan = "running"
    /\ plan' = "cancel_requested"
    /\ task' = [task EXCEPT !.status = "cancel_requested", !.cancel = TRUE]
    /\ Chain({CancelKey})
    /\ UNCHANGED <<step, attempts, approval>>

-----------------------------------------------------------------------------
(* Recovery: recover_expired_plan_lease_tx                                 *)

recover_expired_lease ==
    /\ task.lease = "expired"
    /\ mark_plan_unknown(task.locked)
    /\ task' = Unleased(IF task.cancel THEN "cancelled" ELSE "failed")
    /\ UNCHANGED <<attempts, keys, approval>>

-----------------------------------------------------------------------------
(* resolve_plan_unknown.  A key already in the chain is a replay or a      *)
(* conflict.  Cancel is refused while a step is unknown, running or        *)
(* compensating, and a plan becomes unknown only together with a step: its *)
(* last branch is never reached and is left out.                           *)

Requeued == [Unleased("queued") EXCEPT !.cancel = FALSE]

(* Mutants: the resolution leaves no key; it leaves the steps unknown.     *)
resolve_resume_unrecorded(k) ==
    /\ plan = "unknown"
    /\ step' = [s \in Step |-> IF step[s] = "unknown" THEN "ready" ELSE step[s]]
    /\ plan' = "running"
    /\ task' = Requeued
    /\ UNCHANGED <<keys, attempts, approval>>

resolve_resume_plan_only(k) ==
    /\ plan = "unknown"
    /\ plan' = "running"
    /\ task' = Requeued
    /\ Chain({<<"resolution", k>>})
    /\ UNCHANGED <<step, attempts, approval>>

resolve_resume(k) ==
    LET unknown == {s \in Step : step[s] = "unknown"} IN
    /\ plan = "unknown"
    /\ step' = [s \in Step |-> IF s \in unknown THEN "ready" ELSE step[s]]
    /\ plan' = "running"
    /\ task' = Requeued
    /\ Chain({<<"resolution", k>>} \cup {<<"resolution:step", k, s>> : s \in unknown})
    /\ UNCHANGED <<attempts, approval>>

resolve_compensate(k) ==
    LET sources == {s \in Step : /\ Compensation[s] # NoStep
                                 /\ step[s] \in {"succeeded", "failed", "unknown",
                                                 "compensating"}}
        reopened == {s \in {Compensation[c] : c \in sources} \ sources :
                        step[s] \in {"unknown", "failed"}}
    IN
    /\ plan = "unknown"
    /\ sources # {}
    /\ step' = [s \in Step |-> IF s \in sources THEN "compensating"
                               ELSE IF s \in reopened THEN "ready" ELSE step[s]]
    /\ plan' = "compensating"
    /\ task' = Requeued
    /\ Chain({<<"resolution", k>>}
              \cup {<<"resolution:source", k, s>> : s \in {c \in sources : step[c] # "compensating"}}
              \cup {<<"resolution:target", k, s>> : s \in reopened})
    /\ UNCHANGED <<attempts, approval>>

resolve_cancel_blocked ==
    /\ plan = "unknown"
    /\ \E s \in Step : step[s] \in {"running", "cancel_requested", "compensating", "unknown"}
    /\ UNCHANGED vars

-----------------------------------------------------------------------------
(* Time                                                                    *)

lease_expires ==
    /\ task.lease = "held"
    /\ task' = [task EXCEPT !.lease = "expired"]
    /\ UNCHANGED <<plan, step, attempts, keys, approval>>

approval_expires ==
    /\ approval = "valid"
    /\ approval' = "expired"
    /\ UNCHANGED <<plan, step, attempts, keys, task>>

-----------------------------------------------------------------------------
(* save_plan                                                               *)
Init ==
    /\ plan = "draft"
    /\ step = [s \in Step |-> "pending"]
    /\ attempts = [s \in Step |-> 0]
    /\ keys = {}
    /\ approval \in {"none", "not_required"}
    /\ task = [status |-> "absent", cancel |-> FALSE, lease |-> "none", locked |-> NoStep]

Next ==
    \/ approve_plan \/ reject_plan \/ submit_task
    \/ \E s \in Step : \/ claim_next(s) \/ finish_cancelled(s) \/ finish_succeeded(s)
                       \/ \E retryable \in BOOLEAN : finish_failed(s, retryable)
    \/ cancel_queued \/ cancel_running
    \/ recover_expired_lease
    \/ \E k \in Resolution : resolve_resume(k) \/ resolve_compensate(k)
    \/ resolve_cancel_blocked
    \/ lease_expires \/ approval_expires

Spec == Init /\ [][Next]_vars

-----------------------------------------------------------------------------
(* Properties.                                                             *)

(* Plan, steps, approval and task row are in states the store can parse    *)
(* (parse_plan_state, parse_step_state, TaskStatus::parse).                *)
TypeOK ==
    /\ plan \in DOMAIN PlanNext
    /\ step \in [Step -> DOMAIN StepNext]
    /\ attempts \in [Step -> Nat]
    /\ approval \in {"not_required", "none", "valid", "expired"}
    /\ task \in [status: {"absent", "queued", "running", "cancel_requested"} \cup TaskTerminal,
                 cancel: BOOLEAN, lease: {"none", "held", "expired"},
                 locked: Step \cup {NoStep}]

(* At most one step of a plan is between its claim and its end, it is the  *)
(* one its task is locked to, and a lease covers it: no step is left       *)
(* running by a cancellation, a recovery or a resolution                   *)
(* (prepare_planned_claim_tx, finish_planned_step_tx,                      *)
(* recover_expired_plan_lease_tx, update_task_for_resolution).             *)
OneBoundary ==
    /\ \A s \in Step : step[s] \in {"running", "cancel_requested"} <=> task.locked = s
    /\ task.locked # NoStep <=> task.lease # "none"
    /\ task.lease # "none" <=> task.status \in {"running", "cancel_requested"}

(* The task row and the plan never contradict each other.  In particular a *)
(* task succeeds exactly when its plan does, with every step succeeded,    *)
(* and a compensated plan is never reported as a success                   *)
(* (finish_planned_step_tx, complete_compensation_tx,                      *)
(* cancel_planned_task_tx, update_task_for_resolution).                    *)
Allowed(status) ==
    CASE status = "absent"           -> Undecided \cup {"approved", "rejected"}
      [] status = "queued"           -> {"approved", "running", "compensating"}
      [] status = "running"          -> {"running", "compensating"}
      [] status = "cancel_requested" -> {"cancel_requested"}
      [] status = "succeeded"        -> {"succeeded"}
      [] status = "failed"           -> {"failed", "unknown", "compensated"}
      [] status = "cancelled"        -> {"cancelled", "unknown"}

TaskAgrees ==
    /\ plan \in Allowed(task.status)
    /\ plan = "succeeded" => Succeeded = Step
    /\ task.cancel <=> task.status \in {"cancel_requested", "cancelled"}

(* A boundary whose effect is unknown is never retried by itself: a step   *)
(* or a plan leaves unknown only in a step that puts the key of a human    *)
(* resolution in the chain, each key once (resolve_plan_unknown,           *)
(* V0.8_STAGE5_DESIGN.md).                                                 *)
UnknownWaits ==
    [][(\/ plan = "unknown" /\ plan' # "unknown"
        \/ \E s \in Step : step[s] = "unknown" /\ step'[s] # "unknown")
         => \E k \in Resolution : <<"resolution", k>> \in keys' \ keys]_vars

(* Whoever ran or is running had its dependencies succeeded before it, and *)
(* only a compensation takes that back (prepare_planned_claim_tx,          *)
(* resolve_plan_unknown).                                                  *)
DependenciesFirst ==
    \A s \in Step : attempts[s] > 0 =>
        \A d \in Deps[s] : step[d] \in {"succeeded", "compensating", "compensated"}

(* Retries stop: beyond max_attempts a step runs once per resolution, and  *)
(* a resolution never gives back more than one run                         *)
(* (finish_planned_step_tx, resolve_plan_unknown).                         *)
Resolved == {k \in Resolution : <<"resolution", k>> \in keys}

StepAttemptsBounded ==
    \A s \in Step : attempts[s] <= StepMax[s] + Cardinality(Resolved)

(* The keys that the workers' operations make up are never in the chain    *)
(* yet.  A collision in a claim would fail claim_next for every task of    *)
(* every tenant; one in a finish would leave the step running until its    *)
(* lease expires (prepare_planned_claim_tx, finish_planned_step_tx).       *)
WorkerKeysFresh ==
    /\ task.status = "queued" => \A s \in Waiting : ClaimKeys(s) \cap keys = {}
    /\ \A s \in Step : task.locked = s =>
          \A name \in {"finish:succeeded", "finish:failed", "retry:ready"} :
              <<name, s, attempts[s]>> \notin keys

(* A plan that waits in the queue and was never compensated has a step to  *)
(* run: neither a retry nor a resumption after unknown leaves it waiting   *)
(* for a step that cannot come (prepare_planned_claim_tx,                  *)
(* resolve_plan_unknown).                                                  *)
QueuedCanRun ==
    (/\ task.status = "queued"
     /\ plan \in {"approved", "running"}
     /\ \A s \in Step : step[s] \notin {"compensating", "compensated"}) => Runnable # {}

(* Every change is a path of transitions that the two tables allow, so the *)
(* raw UPDATE in mark_plan_unknown_tx is never reached and the chain tells *)
(* the whole story; a terminal plan keeps its steps and its task           *)
(* (validate_transition, mark_plan_unknown_tx).                            *)
Reach(table, from) ==
    LET one == table[from]
        two == one \cup UNION {table[x] : x \in one}
    IN  {from} \cup two \cup UNION {table[x] : x \in two}

FollowsTables ==
    [][/\ plan' \in Reach(PlanNext, plan)
       /\ \A s \in Step : step'[s] \in Reach(StepNext, step[s])
       /\ plan' = "unknown" /\ plan # "unknown" => "unknown" \in PlanNext[plan]
       /\ plan \in PlanTerminal => UNCHANGED <<plan, step, task>>]_vars

(* V0.8_STAGE5_DESIGN.md: with Compensate the task goes back to the queue  *)
(* only for a known compensating execution.  So a plan that is queued for  *)
(* compensation has a target that can run.                                 *)
CompensationCanRun ==
    (task.status = "queued" /\ plan = "compensating") => Runnable # {}

(* V0.8_STAGE5_IMPLEMENTATION.md, request_cancel: a queued or running task *)
(* of an approved or running plan can be cancelled.                        *)
CancelPossible ==
    (task.status \in {"queued", "running"} /\ plan \in {"approved", "running"})
        => CancelKey \notin keys
=============================================================================
