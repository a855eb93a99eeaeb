-------------------------- MODULE PlanEngineProofs --------------------------
(***************************************************************************)
(* For every plan: the plan, its steps and its task stay consistent.  The  *)
(* four invariants are proved together, because each needs another: which  *)
(* step a finish or a recovery ends is known from OneBoundary, the states  *)
(* a plan may be in when it does from TaskAgrees, and that a success never *)
(* turns into anything but a compensation from DependenciesFirst.  On them *)
(* rests a second invariant, of the keys in the chain, the attempts and    *)
(* what a plan that goes on still has to run.                              *)
(***************************************************************************)
EXTENDS PlanEngine, FiniteSetTheorems, TLAPS

IInv == TypeOK /\ OneBoundary /\ TaskAgrees /\ DependenciesFirst

(* The states of the two tables.                                           *)
LEMMA States ==
    /\ DOMAIN PlanNext = {"draft", "proposed", "validated", "awaiting_approval", "approved",
                          "running", "paused", "cancel_requested", "compensating", "unknown",
                          "succeeded", "failed", "cancelled", "compensated", "rejected"}
    /\ DOMAIN StepNext = {"pending", "ready", "awaiting_approval", "running", "failed",
                          "cancel_requested", "compensating", "unknown", "succeeded",
                          "blocked", "cancelled", "compensated"}
  BY DEF PlanNext, StepNext

(* A plan that was just saved is consistent.                               *)
LEMMA InitInv == Init => IInv
  <1> SUFFICES ASSUME Init PROVE IInv
    OBVIOUS
  <1> USE PlanAssumption, States DEF validate_structure, Init
  <1>1. TypeOK
    BY DEF TypeOK, TaskTerminal
  <1>2. OneBoundary
    BY DEF OneBoundary
  <1>3. TaskAgrees
    BY DEF TaskAgrees, Allowed, Undecided
  <1>4. DependenciesFirst
    BY DEF DependenciesFirst
  <1> QED
    BY <1>1, <1>2, <1>3, <1>4 DEF IInv

(* Decisions about a plan leave its steps alone.                           *)
LEMMA DecisionInv == IInv /\ (approve_plan \/ reject_plan \/ submit_task) => IInv'
  <1> SUFFICES ASSUME IInv, approve_plan \/ reject_plan \/ submit_task PROVE IInv'
    OBVIOUS
  <1> USE PlanAssumption, States DEF validate_structure, IInv, approve_plan, reject_plan, submit_task, Undecided
  <1>1. TypeOK'
    BY DEF TypeOK, TaskTerminal
  <1>2. OneBoundary'
    BY DEF OneBoundary, TypeOK
  <1>3. TaskAgrees'
    BY DEF TaskAgrees, TypeOK, Allowed, TaskTerminal
  <1>4. DependenciesFirst'
    BY DEF DependenciesFirst
  <1> QED
    BY <1>1, <1>2, <1>3, <1>4 DEF IInv

(* A claim locks the task to the step it starts.                           *)
LEMMA ClaimInv == ASSUME NEW s \in Step, IInv, claim_next(s) PROVE IInv'
  <1> USE PlanAssumption, States DEF validate_structure, IInv, claim_next
  <1>0. s \in Waiting /\ Deps[s] \subseteq Succeeded
    BY DEF Runnable
  <1>1. TypeOK'
    <2>1. /\ plan' \in DOMAIN PlanNext
          /\ step' \in [Step -> DOMAIN StepNext]
          /\ attempts' \in [Step -> Nat]
      BY DEF TypeOK
    <2>2. task' \in [status: {"absent", "queued", "running", "cancel_requested"} \cup TaskTerminal,
                     cancel: BOOLEAN, lease: {"none", "held", "expired"},
                     locked: Step \cup {NoStep}]
      BY DEF TypeOK
    <2> QED
      BY <2>1, <2>2 DEF TypeOK
  <1>2. OneBoundary'
    BY <1>0 DEF OneBoundary, TypeOK, Waiting
  <1>3. TaskAgrees'
    BY DEF TaskAgrees, TypeOK, Allowed, TaskTerminal
  <1>4. DependenciesFirst'
    BY <1>0 DEF DependenciesFirst, TypeOK, Waiting, Succeeded
  <1> QED
    BY <1>1, <1>2, <1>3, <1>4 DEF IInv

(* A boundary that becomes unknown is closed and its task ends.            *)
LEMMA UnknownInv ==
    ASSUME NEW s \in Step, NEW status \in {"failed", "cancelled"}, NEW c \in BOOLEAN,
           IInv, task.locked = s, mark_plan_unknown(s),
           task' = [Unleased(status) EXCEPT !.cancel = c],
           c <=> status = "cancelled",
           UNCHANGED <<attempts, approval>>
    PROVE  IInv'
  <1> USE PlanAssumption, States DEF validate_structure, IInv, mark_plan_unknown, Unleased
  <1>1. TypeOK'
    BY DEF TypeOK, TaskTerminal
  <1>2. OneBoundary'
    BY DEF OneBoundary, TypeOK
  <1>3. TaskAgrees'
    BY DEF TaskAgrees, TypeOK, Allowed, TaskTerminal
  <1>4. DependenciesFirst'
    BY DEF DependenciesFirst, TypeOK, OneBoundary
  <1> QED
    BY <1>1, <1>2, <1>3, <1>4 DEF IInv

(* A step ends: a success, which may end a compensation.                   *)
LEMMA SucceededInv == ASSUME NEW s \in Step, IInv, finish_succeeded(s) PROVE IInv'
  <1> USE PlanAssumption, States DEF validate_structure, IInv, finish_succeeded, Held, Asked, Unleased
  <1>0. /\ task.locked = s /\ task.status = "running"
        /\ step[s] \in {"running", "cancel_requested"}
        /\ plan \in {"running", "compensating"}
    <2>1. task.locked = s /\ task.status = "running" /\ step[s] \in {"running", "cancel_requested"}
      BY DEF OneBoundary, TypeOK
    <2> QED
      BY <2>1 DEF TaskAgrees, Allowed
  <1>1. CASE plan = "compensating"
    <2> DEFINE sources == {c \in Step : step[c] = "compensating" /\ Compensation[c] = s}
               after == [c \in Step |-> IF c = s THEN "succeeded"
                                        ELSE IF c \in sources THEN "compensated" ELSE step[c]]
               left == {c \in Step : after[c] = "compensating"}
    <2>0. /\ step' = after
          /\ plan' = IF left = {} THEN "compensated" ELSE plan
          /\ task' = Unleased(IF left = {} THEN "failed" ELSE "queued")
          /\ UNCHANGED <<attempts, approval>>
      BY <1>1 DEF complete_compensation
    <2>s. /\ step' \in [Step -> DOMAIN StepNext]
          /\ step'[s] = "succeeded"
          /\ \A c \in Step \ {s} : step'[c] \in {step[c]} \cup
                 (IF step[c] = "compensating" THEN {"compensated"} ELSE {})
      BY <2>0 DEF TypeOK
    <2> HIDE DEF after, sources, left
    <2>1. TypeOK'
      BY <2>0, <2>s, <1>1 DEF TypeOK, TaskTerminal
    <2>2. OneBoundary'
      BY <2>0, <2>s, <1>0 DEF OneBoundary, TypeOK
    <2>3. TaskAgrees'
      BY <2>0, <1>0, <1>1 DEF TaskAgrees, TypeOK, Allowed, TaskTerminal
    <2>4. DependenciesFirst'
      BY <2>0, <2>s, <1>0 DEF DependenciesFirst, TypeOK
    <2> QED
      BY <2>1, <2>2, <2>3, <2>4 DEF IInv
  <1>2. CASE plan = "running"
    <2> DEFINE last == Step \ Succeeded = {s}
    <2>0. /\ step' = [step EXCEPT ![s] = "succeeded"]
          /\ plan' = IF last THEN "succeeded" ELSE plan
          /\ task' = Unleased(IF last THEN "succeeded" ELSE "queued")
          /\ UNCHANGED <<attempts, approval>>
      BY <1>2 DEF complete_step
    <2>s. last => Succeeded' = Step
      BY <2>0 DEF Succeeded, TypeOK
    <2> HIDE DEF last
    <2>1. TypeOK'
      BY <2>0, <1>2 DEF TypeOK, TaskTerminal
    <2>2. OneBoundary'
      BY <2>0, <1>0 DEF OneBoundary, TypeOK
    <2>3. TaskAgrees'
      BY <2>0, <2>s, <1>0, <1>2 DEF TaskAgrees, TypeOK, Allowed, TaskTerminal
    <2>4. DependenciesFirst'
      BY <2>0, <1>0 DEF DependenciesFirst, TypeOK
    <2> QED
      BY <2>1, <2>2, <2>3, <2>4 DEF IInv
  <1> QED
    BY <1>0, <1>1, <1>2

(* A step ends: an error, which may be retried.                            *)
LEMMA FailedInv ==
    ASSUME NEW s \in Step, NEW retryable \in BOOLEAN, IInv, finish_failed(s, retryable)
    PROVE  IInv'
  <1> USE PlanAssumption, States DEF validate_structure, IInv, finish_failed, Held, Asked
  <1>0. /\ task.locked = s /\ task.status = "running"
        /\ step[s] \in {"running", "cancel_requested"}
        /\ task.cancel = FALSE
        /\ plan \in {"running", "compensating"}
    <2>1. task.locked = s /\ task.status = "running" /\ step[s] \in {"running", "cancel_requested"}
      BY DEF OneBoundary, TypeOK
    <2>2. task.cancel = FALSE
      BY DEF TypeOK
    <2> QED
      BY <2>1, <2>2 DEF TaskAgrees, Allowed
  <1>1. CASE plan = "compensating"
    <2>1. mark_plan_unknown(s) /\ task' = Unleased("failed") /\ UNCHANGED <<attempts, approval>>
      BY <1>1
    <2>2. Unleased("failed") = [Unleased("failed") EXCEPT !.cancel = FALSE]
      BY <1>0 DEF Unleased, TypeOK
    <2> QED
      BY <1>0, <2>1, <2>2, UnknownInv
  <1>2. CASE plan = "running"
    <2>0. PICK x \in {"ready", "failed"}, p \in {"running", "failed"}, t \in {"queued", "failed"} :
             /\ step' = [step EXCEPT ![s] = x] /\ plan' = p /\ task' = Unleased(t)
             /\ t = "queued" <=> p = "running"
             /\ UNCHANGED <<attempts, approval>>
      <3>1. CASE retryable /\ attempts[s] < StepMax[s]
        BY <1>2, <3>1
      <3>2. CASE ~(retryable /\ attempts[s] < StepMax[s])
        BY <1>2, <3>2
      <3> QED
        BY <3>1, <3>2
    <2> USE DEF Unleased
    <2>1. TypeOK'
      <3>1. /\ plan' \in DOMAIN PlanNext
            /\ step' \in [Step -> DOMAIN StepNext]
        BY <2>0 DEF TypeOK
      <3>2. task' \in [status: {"absent", "queued", "running", "cancel_requested"} \cup TaskTerminal,
                       cancel: BOOLEAN, lease: {"none", "held", "expired"},
                       locked: Step \cup {NoStep}]
        BY <2>0 DEF TypeOK, TaskTerminal
      <3> QED
        BY <2>0, <3>1, <3>2 DEF TypeOK
    <2>2. OneBoundary'
      BY <2>0, <1>0 DEF OneBoundary, TypeOK
    <2>3. TaskAgrees'
      BY <2>0, <1>0 DEF TaskAgrees, TypeOK, Allowed, TaskTerminal
    <2>4. DependenciesFirst'
      BY <2>0, <1>0 DEF DependenciesFirst, TypeOK
    <2> QED
      BY <2>1, <2>2, <2>3, <2>4 DEF IInv
  <1> QED
    BY <1>0, <1>1, <1>2

(* A cancelled run and an expired lease both leave an unknown boundary.    *)
LEMMA LostInv ==
    IInv /\ ((\E s \in Step : finish_cancelled(s)) \/ recover_expired_lease) => IInv'
  <1>1. ASSUME IInv, NEW s \in Step, finish_cancelled(s) PROVE IInv'
    BY <1>1, UnknownInv DEF finish_cancelled, Held
  <1>2. ASSUME IInv, recover_expired_lease PROVE IInv'
    <2>1. /\ task.locked \in Step
          /\ task' = [Unleased(IF task.cancel THEN "cancelled" ELSE "failed")
                         EXCEPT !.cancel = task.cancel]
          /\ task.cancel \in BOOLEAN
      BY <1>2, PlanAssumption DEF validate_structure, IInv, OneBoundary, TypeOK, recover_expired_lease, Unleased
    <2>2. /\ mark_plan_unknown(task.locked)
          /\ UNCHANGED <<attempts, approval>>
      BY <1>2 DEF recover_expired_lease
    <2>3. CASE task.cancel
      BY <1>2, <2>1, <2>2, <2>3, UnknownInv
    <2>4. CASE ~task.cancel
      BY <1>2, <2>1, <2>2, <2>4, UnknownInv
    <2> QED
      BY <2>3, <2>4
  <1> QED
    BY <1>1, <1>2

(* A cancellation closes the steps that wait, or asks the one that runs.   *)
LEMMA CancelInv == IInv /\ (cancel_queued \/ cancel_running) => IInv'
  <1> SUFFICES ASSUME IInv, cancel_queued \/ cancel_running PROVE IInv'
    OBVIOUS
  <1> USE PlanAssumption, States DEF validate_structure, IInv
  <1>1. CASE cancel_queued
    <2> USE <1>1 DEF cancel_queued
    <2>s. \A s \in Step : step'[s] = step[s] \/ (step[s] \in {"pending", "ready"} /\ step'[s] = "cancelled")
      BY DEF Waiting, TypeOK
    <2>1. TypeOK'
      BY DEF TypeOK, TaskTerminal
    <2>2. OneBoundary'
      BY <2>s DEF OneBoundary, TypeOK
    <2>3. TaskAgrees'
      BY DEF TaskAgrees, TypeOK, Allowed, TaskTerminal
    <2>4. DependenciesFirst'
      BY <2>s DEF DependenciesFirst, TypeOK
    <2> QED
      BY <2>1, <2>2, <2>3, <2>4 DEF IInv
  <1>2. CASE cancel_running
    <2> USE <1>2 DEF cancel_running
    <2>1. TypeOK'
      BY DEF TypeOK, TaskTerminal
    <2>2. OneBoundary'
      BY DEF OneBoundary, TypeOK
    <2>3. TaskAgrees'
      BY DEF TaskAgrees, TypeOK, Allowed, TaskTerminal
    <2>4. DependenciesFirst'
      BY DEF DependenciesFirst
    <2> QED
      BY <2>1, <2>2, <2>3, <2>4 DEF IInv
  <1> QED
    BY <1>1, <1>2

(* A resolution finds no step locked and starts none.                      *)
LEMMA ResolveInv ==
    ASSUME NEW k \in Resolution, IInv, resolve_resume(k) \/ resolve_compensate(k)
    PROVE  IInv'
  <1> USE PlanAssumption, States DEF validate_structure, IInv
  <1>0. /\ plan = "unknown" /\ task.status \in {"failed", "cancelled"}
        /\ plan' \in {"running", "compensating"}
        /\ task' = [[task EXCEPT !.status = "queued", !.lease = "none", !.locked = NoStep]
                      EXCEPT !.cancel = FALSE]
        /\ UNCHANGED <<attempts, approval>>
    BY DEF TaskAgrees, TypeOK, Allowed, TaskTerminal, Undecided, resolve_resume,
           resolve_compensate, Requeued, Unleased
  <1>s. /\ step' \in [Step -> DOMAIN StepNext]
        /\ \A s \in Step : \/ step'[s] \in {step[s], "compensating"}
                           \/ step[s] \in {"unknown", "failed"} /\ step'[s] = "ready"
    <2>1. CASE resolve_resume(k)
      BY <2>1 DEF TypeOK, resolve_resume
    <2>2. CASE resolve_compensate(k)
      BY <2>2 DEF TypeOK, resolve_compensate
    <2> QED
      BY <2>1, <2>2
  <1>1. TypeOK'
    BY <1>0, <1>s DEF TypeOK, TaskTerminal
  <1>2. OneBoundary'
    <2>1. \A s \in Step : step[s] \notin {"running", "cancel_requested"}
      BY <1>0 DEF OneBoundary, TypeOK
    <2> QED
      BY <1>0, <1>s, <2>1 DEF OneBoundary, TypeOK
  <1>3. TaskAgrees'
    BY <1>0 DEF TaskAgrees, TypeOK, Allowed, TaskTerminal
  <1>4. DependenciesFirst'
    BY <1>0, <1>s DEF DependenciesFirst, TypeOK
  <1> QED
    BY <1>1, <1>2, <1>3, <1>4 DEF IInv

(* Time only makes leases and approvals expire.                            *)
LEMMA TimeInv == IInv /\ (lease_expires \/ approval_expires \/ UNCHANGED vars) => IInv'
  <1> SUFFICES ASSUME IInv, lease_expires \/ approval_expires \/ UNCHANGED vars PROVE IInv'
    OBVIOUS
  <1> USE PlanAssumption, States DEF validate_structure, IInv, lease_expires, approval_expires, vars
  <1>1. TypeOK'
    BY DEF TypeOK, TaskTerminal
  <1>2. OneBoundary'
    BY DEF OneBoundary, TypeOK
  <1>3. TaskAgrees'
    BY DEF TaskAgrees, TypeOK, Allowed, TaskTerminal, Undecided, Succeeded
  <1>4. DependenciesFirst'
    BY DEF DependenciesFirst
  <1> QED
    BY <1>1, <1>2, <1>3, <1>4 DEF IInv

(* For every plan, the plan, its steps and its task stay consistent        *)
(* through claims, retries, cancellations, recoveries, resolutions and     *)
(* compensations.                                                          *)
THEOREM PlanInvariance == Spec => []IInv
  <1>1. Init => IInv
    BY InitInv
  <1>2. IInv /\ [Next]_vars => IInv'
    <2> SUFFICES ASSUME IInv, [Next]_vars PROVE IInv'
      OBVIOUS
    <2>1. CASE approve_plan \/ reject_plan \/ submit_task
      BY <2>1, DecisionInv
    <2>2. CASE \E s \in Step : claim_next(s)
      BY <2>2, ClaimInv
    <2>3. CASE \E s \in Step : finish_succeeded(s)
      BY <2>3, SucceededInv
    <2>4. CASE \E s \in Step : \E retryable \in BOOLEAN : finish_failed(s, retryable)
      BY <2>4, FailedInv
    <2>5. CASE (\E s \in Step : finish_cancelled(s)) \/ recover_expired_lease
      BY <2>5, LostInv
    <2>6. CASE cancel_queued \/ cancel_running
      BY <2>6, CancelInv
    <2>7. CASE \E k \in Resolution : resolve_resume(k) \/ resolve_compensate(k)
      BY <2>7, ResolveInv
    <2>8. CASE lease_expires \/ approval_expires \/ resolve_cancel_blocked \/ UNCHANGED vars
      BY <2>8, TimeInv DEF resolve_cancel_blocked
    <2> QED
      BY <2>1, <2>2, <2>3, <2>4, <2>5, <2>6, <2>7, <2>8 DEF Next
  <1> QED
    BY <1>1, <1>2, PTL DEF Spec

(* At every moment the only step of a plan between its claim and its end   *)
(* is the one its task is locked to, under a lease.                        *)
THEOREM OneBoundaryHolds == Spec => []OneBoundary
  BY PlanInvariance, PTL DEF IInv

(* The task row and the plan never contradict each other.                  *)
THEOREM TaskAgreesHolds == Spec => []TaskAgrees
  BY PlanInvariance, PTL DEF IInv

(* No step runs before its dependencies have succeeded, and only a         *)
(* compensation takes their success back.                                  *)
THEOREM DependenciesHold == Spec => []DependenciesFirst
  BY PlanInvariance, PTL DEF IInv

(* A resolution puts its key in the chain, where it was not.               *)
LEMMA ResolutionKeyed ==
    ASSUME NEW k \in Resolution, resolve_resume(k) \/ resolve_compensate(k)
    PROVE  <<"resolution", k>> \in keys' \ keys
  BY DEF resolve_resume, resolve_compensate, Chain

(* Nothing but a resolution takes a plan or a step out of unknown: every   *)
(* other operation wants the plan in another state, and the steps it       *)
(* changes wait, run or are being compensated.                             *)
LEMMA UnknownStays ==
    ASSUME IInv, [Next]_vars,
           ~ \E k \in Resolution : resolve_resume(k) \/ resolve_compensate(k)
    PROVE  /\ plan = "unknown" => plan' = "unknown"
           /\ \A s \in Step : step[s] = "unknown" => step'[s] = "unknown"
  <1> USE PlanAssumption DEF validate_structure, IInv
  <1>1. CASE approve_plan \/ reject_plan \/ submit_task
    BY <1>1 DEF approve_plan, reject_plan, submit_task, Undecided
  <1>2. ASSUME NEW s \in Step, claim_next(s)
        PROVE  plan # "unknown" /\ \A c \in Step : step[c] = "unknown" => step'[c] = "unknown"
    BY <1>2 DEF claim_next, Runnable, Waiting, TypeOK
  <1>3. ASSUME NEW s \in Step, finish_succeeded(s)
        PROVE  plan # "unknown" /\ \A c \in Step : step[c] = "unknown" => step'[c] = "unknown"
    <2>1. step[s] # "unknown" /\ task.status \in {"running", "cancel_requested"}
      BY <1>3 DEF finish_succeeded, Held, OneBoundary
    <2>2. plan # "unknown"
      BY <2>1 DEF TaskAgrees, Allowed
    <2>3. CASE complete_compensation(s)
      BY <2>1, <2>2, <2>3 DEF complete_compensation, TypeOK
    <2>4. CASE complete_step(s)
      BY <2>1, <2>2, <2>4 DEF complete_step, TypeOK
    <2> QED
      BY <1>3, <2>3, <2>4 DEF finish_succeeded
  <1>4. ASSUME NEW s \in Step, NEW retryable \in BOOLEAN, finish_failed(s, retryable)
        PROVE  plan # "unknown" /\ \A c \in Step : step[c] = "unknown" => step'[c] = "unknown"
    <2>1. step[s] # "unknown" /\ task.status \in {"running", "cancel_requested"}
      BY <1>4 DEF finish_failed, Held, OneBoundary
    <2>2. plan # "unknown"
      BY <2>1 DEF TaskAgrees, Allowed
    <2>3. \E x \in {"unknown", "ready", "failed"} : step' = [step EXCEPT ![s] = x]
      BY <1>4 DEF finish_failed, mark_plan_unknown
    <2> QED
      BY <2>1, <2>2, <2>3 DEF TypeOK
  <1>5. CASE (\E s \in Step : finish_cancelled(s)) \/ recover_expired_lease
    BY <1>5 DEF finish_cancelled, recover_expired_lease, mark_plan_unknown, TypeOK
  <1>6. CASE cancel_queued \/ cancel_running
    BY <1>6 DEF cancel_queued, cancel_running, Cancellable, Waiting, TypeOK
  <1>7. CASE lease_expires \/ approval_expires \/ resolve_cancel_blocked \/ UNCHANGED vars
    BY <1>7 DEF lease_expires, approval_expires, resolve_cancel_blocked, vars
  <1> QED
    BY <1>1, <1>2, <1>3, <1>4, <1>5, <1>6, <1>7 DEF Next

(* An unknown boundary is never retried without a human resolution, whose  *)
(* key enters the chain in the very step that reopens it.                  *)
THEOREM UnknownHolds == Spec => UnknownWaits
  <1>1. ASSUME IInv, [Next]_vars
        PROVE  (\/ plan = "unknown" /\ plan' # "unknown"
                \/ \E s \in Step : step[s] = "unknown" /\ step'[s] # "unknown")
                 => \E k \in Resolution : <<"resolution", k>> \in keys' \ keys
    <2>1. CASE \E k \in Resolution : resolve_resume(k) \/ resolve_compensate(k)
      BY <2>1, ResolutionKeyed
    <2>2. CASE ~ \E k \in Resolution : resolve_resume(k) \/ resolve_compensate(k)
      BY <1>1, <2>2, UnknownStays
    <2> QED
      BY <2>1, <2>2
  <1>2. IInv /\ [Next]_vars
          => [(\/ plan = "unknown" /\ plan' # "unknown"
               \/ \E s \in Step : step[s] = "unknown" /\ step'[s] # "unknown")
                => \E k \in Resolution : <<"resolution", k>> \in keys' \ keys]_vars
    BY <1>1
  <1> QED
    BY <1>2, PlanInvariance, PTL DEF Spec, UnknownWaits

(* Every state of a plan, its steps and its task is one the store can      *)
(* parse.                                                                  *)
THEOREM TypeCorrect == Spec => []TypeOK
  BY PlanInvariance, PTL DEF IInv

-----------------------------------------------------------------------------
(* The keys of the chain.                                                  *)

ClaimName  == {"claim:ready", "claim:running"}
FinishName == {"finish:succeeded", "finish:failed", "retry:ready"}

(* None of the keys K was made up by a claim or a finish.                  *)
Foreign(K) ==
    /\ \A s, n : \A name \in ClaimName \cup FinishName : <<name, s, n>> \notin K
    /\ \A s : <<"claim:plan", s>> \notin K

(* None of the keys K is that of a resolution.                             *)
Unresolved(K) == \A k : <<"resolution", k>> \notin K

NotYet == Undecided \cup {"approved"}

(* Keys that name an attempt name one that was started, keys of an end one *)
(* that has ended, and the plan leaves approved when it is claimed first.  *)
KeysInv ==
    \A s \in Step :
        /\ \A n \in Nat :
              /\ \A name \in ClaimName : <<name, s, n>> \in keys => n <= attempts[s]
              /\ \A name \in FinishName : <<name, s, n>> \in keys =>
                    /\ n <= attempts[s]
                    /\ task.locked = s => n < attempts[s]
        /\ <<"claim:plan", s>> \in keys => plan \notin NotYet

(* A step that may be claimed again has a run left; the chain holds        *)
(* finitely many resolutions, so that counting them means something.       *)
BudgetInv ==
    /\ IsFiniteSet(Resolved)
    /\ \A s \in Step :
          /\ attempts[s] <= StepMax[s] + Cardinality(Resolved)
          /\ s \in Waiting => attempts[s] < StepMax[s] + Cardinality(Resolved)

Open == NotYet \cup {"running", "cancel_requested"}
Live == {"pending", "ready", "running", "succeeded"}

(* Before any compensation, the steps of a plan that goes on wait, run or  *)
(* have succeeded, and not all have succeeded; only a plan that is unknown *)
(* has unknown steps besides.                                              *)
ProgressInv ==
    /\ \A s \in Step : step[s] # "cancel_requested"
    /\ (\A s \in Step : step[s] \notin {"compensating", "compensated"}) =>
          /\ plan \notin {"compensating", "compensated"}
          /\ plan \in Open => \A s \in Step : step[s] \in Live
          /\ plan = "unknown" => \A s \in Step : step[s] \in Live \cup {"unknown"}
          /\ plan \in Open \cup {"unknown"} => Succeeded # Step

ChainInv == KeysInv /\ BudgetInv /\ ProgressInv

-----------------------------------------------------------------------------
(* Steps whose keys no claim or finish made up.                            *)
LEMMA ForeignKeys ==
    ASSUME IInv, KeysInv, NEW K, keys' = keys \cup K, Foreign(K), attempts' = attempts,
           task'.locked \in {task.locked, NoStep}, plan' \in NotYet => plan \in NotYet
    PROVE  KeysInv'
  <1>1. NoStep \notin Step
    BY PlanAssumption
  <1>2. \A s : \A n : \A name \in ClaimName \cup FinishName :
              <<name, s, n>> \in keys' => <<name, s, n>> \in keys
    BY DEF Foreign
  <1>3. \A s : <<"claim:plan", s>> \in keys' => <<"claim:plan", s>> \in keys
    BY DEF Foreign
  <1>4. \A s \in Step : task'.locked = s => task.locked = s
    BY <1>1
  <1> SUFFICES ASSUME NEW s \in Step
               PROVE  /\ \A n \in Nat :
                           /\ \A name \in ClaimName : <<name, s, n>> \in keys' => n <= attempts[s]
                           /\ \A name \in FinishName : <<name, s, n>> \in keys' =>
                                 /\ n <= attempts[s]
                                 /\ task'.locked = s => n < attempts[s]
                      /\ <<"claim:plan", s>> \in keys' => plan' \notin NotYet
    BY DEF KeysInv, NotYet, Undecided
  <1> QED
    BY <1>2, <1>3, <1>4 DEF KeysInv

(* Steps without a resolution that start no attempt.                       *)
LEMMA BudgetKept ==
    ASSUME IInv, BudgetInv, NEW K, keys' = keys \cup K, Unresolved(K), attempts' = attempts,
           \A s \in Step : step'[s] \in {"pending", "ready"}
                             => s \in Waiting \/ attempts[s] < StepMax[s]
    PROVE  BudgetInv'
  <1>1. Resolved' = Resolved
    BY DEF Resolved, Unresolved
  <1>2. Cardinality(Resolved) \in Nat
    BY FS_CardinalityType DEF BudgetInv
  <1>3. \A s \in Step : attempts[s] \in Nat /\ StepMax[s] \in Nat
    BY PlanAssumption DEF IInv, TypeOK
  <1>4. \A s \in Step : s \in Waiting' => attempts[s] < StepMax[s] + Cardinality(Resolved)
    <2> TAKE s \in Step
    <2> HAVE s \in Waiting'
    <2>1. s \in Waiting \/ attempts[s] < StepMax[s]
      BY DEF Waiting
    <2> QED
      BY <1>2, <1>3, <2>1 DEF BudgetInv
  <1> QED
    BY <1>1, <1>4 DEF BudgetInv

(* Decisions about a plan.                                                 *)
LEMMA DecisionChain ==
    ASSUME IInv, ChainInv, approve_plan \/ reject_plan \/ submit_task
    PROVE  ChainInv'
  <1>1. PICK K : /\ K \in {{}, {<<"approval:approved">>}, {<<"approval:rejected">>},
                           {<<"admission:approved">>}}
                 /\ keys' = keys \cup K
    BY DEF approve_plan, reject_plan, submit_task, Chain
  <1>2. Foreign(K) /\ Unresolved(K)
    BY <1>1 DEF Foreign, Unresolved, ClaimName, FinishName
  <1>3. /\ plan \in NotYet /\ plan' \in {"approved", "rejected"}
        /\ UNCHANGED <<step, attempts>> /\ task'.locked = task.locked
    BY DEF approve_plan, reject_plan, submit_task, NotYet, Undecided, IInv, TypeOK
  <1>4. KeysInv'
    BY <1>1, <1>2, <1>3, ForeignKeys DEF ChainInv
  <1>5. BudgetInv'
    BY <1>1, <1>2, <1>3, BudgetKept DEF ChainInv, Waiting
  <1>6. ProgressInv'
    BY <1>3 DEF ChainInv, ProgressInv, Open, NotYet, Undecided, Live, Succeeded
  <1> QED
    BY <1>4, <1>5, <1>6 DEF ChainInv

(* A claim: the keys name the attempt it starts.                           *)
LEMMA ClaimChain ==
    ASSUME IInv, ChainInv, NEW s \in Step, claim_next(s)
    PROVE  ChainInv'
  <1>1. /\ keys' = keys \cup ClaimKeys(s)
        /\ s \in Waiting /\ plan \in {"approved", "running", "compensating"}
        /\ plan' = IF plan = "approved" THEN "running" ELSE plan
        /\ step' = [step EXCEPT ![s] = "running"]
        /\ attempts' = [attempts EXCEPT ![s] = @ + 1]
        /\ task'.locked = s /\ task.locked = NoStep
    BY DEF claim_next, Chain, Runnable, IInv, TypeOK
  <1>2. /\ attempts \in [Step -> Nat] /\ step \in [Step -> DOMAIN StepNext]
        /\ NoStep \notin Step /\ StepMax \in [Step -> Nat \ {0}]
    BY PlanAssumption DEF IInv, TypeOK
  <1>3. /\ attempts'[s] = attempts[s] + 1
        /\ \A u \in Step \ {s} : attempts'[u] = attempts[u]
        /\ \A u \in Step : attempts[u] \in Nat
    BY <1>1, <1>2
  <1>4. /\ \A u, n : \A name \in FinishName : <<name, u, n>> \notin ClaimKeys(s)
        /\ \A u, n : \A name \in ClaimName :
              <<name, u, n>> \in ClaimKeys(s) => u = s /\ n = attempts[s] + 1
    BY DEF ClaimKeys, ClaimName, FinishName
  <1>5. KeysInv'
    <2>1. \A u \in Step, n \in Nat, name \in ClaimName :
             <<name, u, n>> \in keys' => n <= attempts'[u]
      <3> TAKE u \in Step, n \in Nat, name \in ClaimName
      <3> HAVE <<name, u, n>> \in keys'
      <3>1. CASE <<name, u, n>> \in keys
        <4>1. n <= attempts[u]
          BY <3>1 DEF ChainInv, KeysInv
        <4> QED
          BY <1>3, <4>1
      <3>2. CASE <<name, u, n>> \in ClaimKeys(s)
        BY <1>3, <1>4, <3>2
      <3> QED
        BY <1>1, <3>1, <3>2
    <2>2. \A u \in Step, n \in Nat, name \in FinishName :
             <<name, u, n>> \in keys' => /\ n <= attempts'[u]
                                         /\ task'.locked = u => n < attempts'[u]
      <3> TAKE u \in Step, n \in Nat, name \in FinishName
      <3> HAVE <<name, u, n>> \in keys'
      <3>1. n <= attempts[u]
        BY <1>1, <1>4 DEF ChainInv, KeysInv
      <3> QED
        BY <1>1, <1>3, <3>1
    <2>3. plan' \notin NotYet
      BY <1>1 DEF NotYet, Undecided
    <2> QED
      BY <2>1, <2>2, <2>3 DEF KeysInv, NotYet, Undecided
  <1>6. BudgetInv'
    <2>1. Resolved' = Resolved
      BY <1>1 DEF Resolved, ClaimKeys
    <2>2. PICK r \in Nat : r = Cardinality(Resolved)
      BY FS_CardinalityType DEF ChainInv, BudgetInv
    <2>3. \A u \in Step : StepMax[u] \in Nat
      BY <1>2
    <2>4. \A u \in Step : attempts'[u] <= StepMax[u] + r
      BY <1>1, <1>3, <2>2, <2>3 DEF ChainInv, BudgetInv
    <2>5. \A u \in Step : u \in Waiting' => u # s /\ u \in Waiting
      BY <1>1, <1>2 DEF Waiting
    <2>6. \A u \in Step : u \in Waiting' => attempts'[u] < StepMax[u] + r
      BY <1>3, <2>2, <2>5 DEF ChainInv, BudgetInv
    <2> QED
      BY <2>1, <2>2, <2>4, <2>6 DEF ChainInv, BudgetInv
  <1>7. ProgressInv'
    <2>1. /\ step[s] \in {"pending", "ready"} /\ step'[s] = "running"
          /\ \A u \in Step \ {s} : step'[u] = step[u]
      BY <1>1, <1>2 DEF Waiting
    <2>2. (\A u \in Step : step'[u] \notin {"compensating", "compensated"})
            => \A u \in Step : step[u] \notin {"compensating", "compensated"}
      BY <2>1
    <2>3. Succeeded' = Succeeded
      BY <2>1 DEF Succeeded
    <2> QED
      BY <1>1, <2>1, <2>2, <2>3 DEF ChainInv, ProgressInv, Open, NotYet, Undecided, Live
  <1> QED
    BY <1>5, <1>6, <1>7 DEF ChainInv

(* An end: the keys name the attempt that ends, once.                      *)
LEMMA FinishKeys ==
    ASSUME IInv, ChainInv, NEW s \in Step, task.locked = s, NEW K, keys' = keys \cup K,
           \A u, n : \A name \in ClaimName : <<name, u, n>> \notin K,
           \A u, n : \A name \in FinishName : <<name, u, n>> \in K => u = s /\ n = attempts[s],
           \A u : <<"claim:plan", u>> \notin K,
           attempts' = attempts, task'.locked = NoStep, plan \notin NotYet, plan' \notin NotYet
    PROVE  KeysInv'
  <1>1. NoStep \notin Step /\ \A u \in Step : attempts[u] \in Nat
    BY PlanAssumption DEF IInv, TypeOK
  <1>2. \A u \in Step, n \in Nat, name \in ClaimName :
           <<name, u, n>> \in keys' => n <= attempts[u]
    BY DEF ChainInv, KeysInv
  <1>3. \A u \in Step, n \in Nat, name \in FinishName :
           <<name, u, n>> \in keys' => n <= attempts[u]
    <2> TAKE u \in Step, n \in Nat, name \in FinishName
    <2> HAVE <<name, u, n>> \in keys'
    <2>1. CASE <<name, u, n>> \in keys
      BY <2>1 DEF ChainInv, KeysInv
    <2>2. CASE <<name, u, n>> \in K
      <3>1. n = attempts[u]
        BY <2>2
      <3> QED
        BY <1>1, <3>1
    <2> QED
      BY <2>1, <2>2
  <1> QED
    BY <1>1, <1>2, <1>3 DEF KeysInv, NotYet, Undecided

(* What the finish of a step does to the plan and to the other steps.      *)
LEMMA FinishChain ==
    ASSUME IInv, ChainInv, NEW s \in Step,
           finish_succeeded(s) \/ \E retryable \in BOOLEAN : finish_failed(s, retryable)
    PROVE  ChainInv'
  <1>1. /\ task.locked = s /\ task.status = "running"
        /\ step[s] \in {"running", "cancel_requested"}
        /\ plan \in {"running", "compensating"}
    <2>1. Held(s) /\ ~Asked
      BY DEF finish_succeeded, finish_failed
    <2>2. task.status \in {"running", "cancel_requested"}
      BY <2>1 DEF IInv, OneBoundary, Held
    <2>3. task.status = "running"
      BY <2>1, <2>2 DEF Asked
    <2>4. plan \in {"running", "compensating"}
      BY <2>3 DEF IInv, TaskAgrees, Allowed
    <2> QED
      BY <2>1, <2>3, <2>4 DEF Held
  <1>2. step[s] = "running" /\ step \in [Step -> DOMAIN StepNext] /\ attempts' = attempts
    BY <1>1 DEF ChainInv, ProgressInv, IInv, TypeOK, finish_succeeded, finish_failed
  <1>3. ASSUME NEW K, keys' = keys \cup K, Unresolved(K),
               \A u, n : \A name \in ClaimName : <<name, u, n>> \notin K,
               \A u, n : \A name \in FinishName : <<name, u, n>> \in K => u = s /\ n = attempts[s],
               \A u : <<"claim:plan", u>> \notin K,
               task'.locked = NoStep, plan' \notin NotYet,
               \A u \in Step : step'[u] \in {"pending", "ready"}
                             => u \in Waiting \/ attempts[u] < StepMax[u]
        PROVE  KeysInv' /\ BudgetInv'
    <2>1. plan \notin NotYet
      BY <1>1 DEF NotYet, Undecided
    <2>2. KeysInv'
      BY <1>1, <1>2, <1>3, <2>1, FinishKeys
    <2>3. BudgetInv
      BY DEF ChainInv
    <2> QED
      BY <1>2, <1>3, <2>2, <2>3, BudgetKept
  <1>4. ASSUME plan = "compensating", complete_compensation(s)
        PROVE  ChainInv'
    <2> DEFINE sources == {c \in Step : step[c] = "compensating" /\ Compensation[c] = s}
               after == [c \in Step |-> IF c = s THEN "succeeded"
                                        ELSE IF c \in sources THEN "compensated" ELSE step[c]]
               left == {c \in Step : after[c] = "compensating"}
               K == {<<"finish:succeeded", s, attempts[s]>>}
                      \cup {<<"compensation:source", c>> : c \in sources}
                      \cup (IF left = {} THEN {<<"compensation:plan:compensated">>} ELSE {})
    <2>1. /\ step' = after
          /\ plan' \in {"compensating", "compensated"}
          /\ task'.locked = NoStep
          /\ keys' = keys \cup K
      BY <1>4 DEF complete_compensation, Chain, Unleased, IInv, TypeOK
    <2>2. /\ Unresolved(K)
          /\ \A u, n : \A name \in ClaimName : <<name, u, n>> \notin K
          /\ \A u, n : \A name \in FinishName : <<name, u, n>> \in K => u = s /\ n = attempts[s]
          /\ \A u : <<"claim:plan", u>> \notin K
      BY DEF Unresolved, ClaimName, FinishName
    <2>3. \A u \in Step : step'[u] \in {"pending", "ready"} => step[u] = step'[u]
      BY <2>1
    <2>4. \A u \in Step : step[u] = "compensating" => step'[u] \in {"compensating", "compensated"}
      BY <1>2, <2>1
    <2>5. \A u \in Step : step[u] = "compensated" => step'[u] = "compensated"
      BY <1>2, <2>1
    <2>6. \A u \in Step : step'[u] # "cancel_requested"
      BY <2>1 DEF ChainInv, ProgressInv
    <2> HIDE DEF K, after
    <2>7. KeysInv' /\ BudgetInv'
      BY <1>3, <2>1, <2>2, <2>3 DEF NotYet, Undecided, Waiting
    <2>8. ~ \A u \in Step : step'[u] \notin {"compensating", "compensated"}
      BY <1>4, <2>4, <2>5 DEF ChainInv, ProgressInv
    <2> QED
      BY <2>6, <2>7, <2>8 DEF ChainInv, ProgressInv
  <1>5. ASSUME plan = "running", complete_step(s)
        PROVE  ChainInv'
    <2> DEFINE last == Step \ Succeeded = {s}
               K == {<<"finish:succeeded", s, attempts[s]>>}
                      \cup (IF last THEN {<<"finish:plan:succeeded">>} ELSE {})
    <2>1. /\ step' = [step EXCEPT ![s] = "succeeded"]
          /\ plan' = IF last THEN "succeeded" ELSE plan
          /\ task'.locked = NoStep
          /\ keys' = keys \cup K
      BY <1>5 DEF complete_step, Chain, Unleased, IInv, TypeOK
    <2>2. /\ Unresolved(K)
          /\ \A u, n : \A name \in ClaimName : <<name, u, n>> \notin K
          /\ \A u, n : \A name \in FinishName : <<name, u, n>> \in K => u = s /\ n = attempts[s]
          /\ \A u : <<"claim:plan", u>> \notin K
      BY DEF Unresolved, ClaimName, FinishName
    <2>3. step'[s] = "succeeded" /\ \A u \in Step \ {s} : step'[u] = step[u]
      BY <1>2, <2>1
    <2>4. Succeeded' = Succeeded \cup {s} /\ s \notin Succeeded /\ Succeeded \subseteq Step
      BY <1>2, <2>3 DEF Succeeded
    <2>5. ~last => Succeeded' # Step
      BY <2>4
    <2> HIDE DEF K, last
    <2>6. KeysInv' /\ BudgetInv'
      BY <1>3, <1>5, <2>1, <2>2, <2>3 DEF NotYet, Undecided, Waiting
    <2>7. (\A u \in Step : step'[u] \notin {"compensating", "compensated"})
            => \A u \in Step : step[u] \notin {"compensating", "compensated"}
      BY <1>2, <2>3
    <2>8. ProgressInv'
      BY <1>5, <2>1, <2>3, <2>5, <2>7 DEF ChainInv, ProgressInv, Open, NotYet, Undecided, Live
    <2> QED
      BY <2>6, <2>8 DEF ChainInv
  <1>6. ASSUME NEW retryable \in BOOLEAN, finish_failed(s, retryable)
        PROVE  ChainInv'
    <2>1. PICK x \in {"unknown", "ready", "failed"}, p \in {"unknown", "running", "failed"},
               K \in SUBSET {<<"finish:failed", s, attempts[s]>>, <<"retry:ready", s, attempts[s]>>,
                             <<"finish:plan:failed">>} :
             /\ step' = [step EXCEPT ![s] = x] /\ plan' = p
             /\ keys' = keys \cup K
             /\ x = "ready" => attempts[s] < StepMax[s] /\ p = "running"
             /\ x = "failed" => p = "failed"
             /\ x = "unknown" => p = "unknown"
             /\ p \in {"running", "failed"} => plan = "running"
      <3>1. CASE plan = "compensating"
        BY <1>6, <3>1 DEF finish_failed, mark_plan_unknown, Chain
      <3>2. CASE plan = "running" /\ retryable /\ attempts[s] < StepMax[s]
        BY <1>6, <3>2 DEF finish_failed, Chain
      <3>3. CASE plan = "running" /\ ~(retryable /\ attempts[s] < StepMax[s])
        BY <1>6, <3>3 DEF finish_failed, Chain
      <3> QED
        BY <1>1, <3>1, <3>2, <3>3
    <2>2. /\ Unresolved(K)
          /\ \A u, n : \A name \in ClaimName : <<name, u, n>> \notin K
          /\ \A u, n : \A name \in FinishName : <<name, u, n>> \in K => u = s /\ n = attempts[s]
          /\ \A u : <<"claim:plan", u>> \notin K
      BY <2>1 DEF Unresolved, ClaimName, FinishName
    <2>3. step'[s] = x /\ \A u \in Step \ {s} : step'[u] = step[u]
      BY <1>2, <2>1
    <2>4. task'.locked = NoStep
      BY <1>6 DEF finish_failed, Unleased, IInv, TypeOK
    <2>5. KeysInv' /\ BudgetInv'
      BY <1>3, <2>1, <2>2, <2>3, <2>4 DEF NotYet, Undecided, Waiting
    <2>6. (\A u \in Step : step'[u] \notin {"compensating", "compensated"})
            => \A u \in Step : step[u] \notin {"compensating", "compensated"}
      BY <1>2, <2>3
    <2>7. Succeeded' = Succeeded /\ s \notin Succeeded
      BY <1>2, <2>3 DEF Succeeded
    <2>8. ProgressInv'
      BY <1>1, <1>2, <2>1, <2>3, <2>6, <2>7
         DEF ChainInv, ProgressInv, Open, NotYet, Undecided, Live
    <2> QED
      BY <2>5, <2>8 DEF ChainInv
  <1> QED
    BY <1>1, <1>4, <1>5, <1>6 DEF finish_succeeded

(* A boundary becomes unknown: no key is made up.                          *)
LEMMA LostChain ==
    ASSUME IInv, ChainInv, (\E s \in Step : finish_cancelled(s)) \/ recover_expired_lease
    PROVE  ChainInv'
  <1>1. PICK s \in Step : /\ task.locked = s /\ mark_plan_unknown(s)
                          /\ task'.locked = NoStep
                          /\ keys' = keys \cup {} /\ attempts' = attempts
    <2>1. ASSUME NEW s \in Step, finish_cancelled(s)
          PROVE  /\ task.locked = s /\ mark_plan_unknown(s) /\ task'.locked = NoStep
                 /\ UNCHANGED <<keys, attempts>>
      BY <2>1 DEF finish_cancelled, Held, Unleased, IInv, TypeOK
    <2>2. ASSUME recover_expired_lease
          PROVE  /\ task.locked \in Step /\ mark_plan_unknown(task.locked)
                 /\ task'.locked = NoStep /\ UNCHANGED <<keys, attempts>>
      BY <2>2, PlanAssumption DEF recover_expired_lease, Unleased, IInv, TypeOK, OneBoundary
    <2> QED
      BY <2>1, <2>2
  <1>2. /\ step[s] = "running" /\ step'[s] = "unknown" /\ plan' = "unknown"
        /\ \A u \in Step \ {s} : step'[u] = step[u]
    BY <1>1 DEF mark_plan_unknown, ChainInv, ProgressInv, IInv, TypeOK, OneBoundary
  <1>3. Foreign({}) /\ Unresolved({}) /\ plan' \notin NotYet
    BY <1>2 DEF Foreign, Unresolved, NotYet, Undecided
  <1>4. KeysInv'
    BY <1>1, <1>3, ForeignKeys DEF ChainInv
  <1>5. BudgetInv'
    BY <1>1, <1>2, <1>3, BudgetKept DEF ChainInv, Waiting
  <1>6. plan \in Open \cup {"compensating", "compensated"}
    <2>1. task.status \in {"running", "cancel_requested"}
      BY <1>1, PlanAssumption DEF IInv, OneBoundary
    <2> QED
      BY <2>1 DEF IInv, TaskAgrees, Allowed, Open
  <1>7. ProgressInv'
    <2>1. (\A u \in Step : step'[u] \notin {"compensating", "compensated"})
            => \A u \in Step : step[u] \notin {"compensating", "compensated"}
      BY <1>2
    <2>2. s \notin Succeeded'
      BY <1>2 DEF Succeeded
    <2> QED
      BY <1>2, <1>6, <2>1, <2>2 DEF ChainInv, ProgressInv, Open, NotYet, Undecided, Live
  <1> QED
    BY <1>4, <1>5, <1>7 DEF ChainInv

(* A cancellation starts and ends no attempt.                              *)
LEMMA CancelChain ==
    ASSUME IInv, ChainInv, cancel_queued \/ cancel_running
    PROVE  ChainInv'
  <1>1. PICK K \in SUBSET ({CancelKey, <<"cancel:plan:completed">>}
                             \cup {<<"cancel:step", s>> : s \in Step}),
             W \in SUBSET Waiting :
           /\ keys' = keys \cup K
           /\ step' = [s \in Step |-> IF s \in W THEN "cancelled" ELSE step[s]]
           /\ \/ plan' = "cancelled"
              \/ plan' = "cancel_requested" /\ W = {}
    <2>1. CASE cancel_queued
      <3>1. /\ keys' = keys \cup ({CancelKey, <<"cancel:plan:completed">>}
                                    \cup {<<"cancel:step", s>> : s \in Waiting})
            /\ step' = [s \in Step |-> IF s \in Waiting THEN "cancelled" ELSE step[s]]
            /\ plan' = "cancelled"
        BY <2>1 DEF cancel_queued, Chain
      <3>2. Waiting \subseteq Step
        BY DEF Waiting
      <3> QED
        BY <3>1, <3>2
    <2>2. CASE cancel_running
      <3>1. /\ keys' = keys \cup {CancelKey}
            /\ step' = [s \in Step |-> IF s \in {} THEN "cancelled" ELSE step[s]]
            /\ plan' = "cancel_requested"
        BY <2>2 DEF cancel_running, Chain, IInv, TypeOK
      <3>2. {} \in SUBSET Waiting
        OBVIOUS
      <3> QED
        BY <3>1, <3>2
    <2> QED
      BY <2>1, <2>2
  <1>2. /\ plan \in {"approved", "running"} /\ attempts' = attempts
        /\ task'.locked = task.locked
    BY DEF cancel_queued, cancel_running, IInv, TypeOK
  <1>3. Foreign(K) /\ Unresolved(K)
    BY <1>1 DEF Foreign, Unresolved, CancelKey, ClaimName, FinishName
  <1>4. plan' \notin NotYet
    BY <1>1 DEF NotYet, Undecided
  <1>5. KeysInv'
    BY <1>1, <1>2, <1>3, <1>4, ForeignKeys DEF ChainInv
  <1>6. \A s \in Step : step'[s] = "cancelled" \/ step'[s] = step[s]
    BY <1>1
  <1>7. BudgetInv'
    BY <1>1, <1>2, <1>3, <1>6, BudgetKept DEF ChainInv, Waiting
  <1>8. ProgressInv'
    <2>1. \A s \in Step : step[s] \in {"compensating", "compensated"} => step'[s] = step[s]
      BY <1>1 DEF Waiting
    <2>2. (\A s \in Step : step'[s] \notin {"compensating", "compensated"})
            => \A s \in Step : step[s] \notin {"compensating", "compensated"}
      BY <2>1
    <2>3. CASE plan' = "cancelled"
      BY <1>6, <2>2, <2>3 DEF ChainInv, ProgressInv, Open, NotYet, Undecided
    <2>4. CASE plan' = "cancel_requested" /\ step' = step
      BY <1>2, <2>4 DEF ChainInv, ProgressInv, Open, NotYet, Undecided, Live, Succeeded
    <2>5. plan' = "cancel_requested" => step' = step
      BY <1>1 DEF IInv, TypeOK
    <2> QED
      BY <1>1, <2>3, <2>4, <2>5
  <1> QED
    BY <1>5, <1>7, <1>8 DEF ChainInv

(* A resolution adds one to the count, and with it one run to every step.  *)
LEMMA ResolveChain ==
    ASSUME IInv, ChainInv, NEW k \in Resolution, resolve_resume(k) \/ resolve_compensate(k)
    PROVE  ChainInv'
  <1>1. PICK K : /\ keys' = keys \cup K
                 /\ <<"resolution", k>> \in K /\ K \cap keys = {}
                 /\ \A j : <<"resolution", j>> \in K => j = k
                 /\ Foreign(K)
    <2>1. CASE resolve_resume(k)
      <3> DEFINE K == {<<"resolution", k>>} \cup
                        {<<"resolution:step", k, s>> : s \in {u \in Step : step[u] = "unknown"}}
      <3>1. keys' = keys \cup K /\ K \cap keys = {}
        BY <2>1 DEF resolve_resume, Chain
      <3>2. Foreign(K) /\ \A j : <<"resolution", j>> \in K => j = k
        BY DEF Foreign, ClaimName, FinishName
      <3> QED
        BY <3>1, <3>2
    <2>2. CASE resolve_compensate(k)
      <3>1. \E S, T : LET K == {<<"resolution", k>>}
                                 \cup {<<"resolution:source", k, s>> : s \in S}
                                 \cup {<<"resolution:target", k, s>> : s \in T}
                      IN  keys' = keys \cup K /\ K \cap keys = {}
        BY <2>2 DEF resolve_compensate, Chain
      <3>2. PICK S, T : LET K == {<<"resolution", k>>}
                                   \cup {<<"resolution:source", k, s>> : s \in S}
                                   \cup {<<"resolution:target", k, s>> : s \in T}
                        IN  keys' = keys \cup K /\ K \cap keys = {}
        BY <3>1
      <3> DEFINE K == {<<"resolution", k>>}
                        \cup {<<"resolution:source", k, s>> : s \in S}
                        \cup {<<"resolution:target", k, s>> : s \in T}
      <3>3. Foreign(K) /\ \A j : <<"resolution", j>> \in K => j = k
        BY DEF Foreign, ClaimName, FinishName
      <3> QED
        BY <3>2, <3>3
    <2> QED
      BY <2>1, <2>2
  <1>2. /\ plan = "unknown" /\ plan' \in {"running", "compensating"}
        /\ attempts' = attempts /\ task'.locked = NoStep
    BY DEF resolve_resume, resolve_compensate, Requeued, Unleased, IInv, TypeOK
  <1>3. KeysInv'
    BY <1>1, <1>2, ForeignKeys DEF ChainInv, NotYet, Undecided
  <1>4. BudgetInv'
    <2>1. Resolved' = Resolved \cup {k} /\ k \notin Resolved
      BY <1>1 DEF Resolved
    <2>2. PICK r \in Nat : r = Cardinality(Resolved)
      BY FS_CardinalityType DEF ChainInv, BudgetInv
    <2>3. IsFiniteSet(Resolved') /\ Cardinality(Resolved') = r + 1
      BY <2>1, <2>2, FS_AddElement DEF ChainInv, BudgetInv
    <2>4. \A s \in Step : attempts[s] \in Nat /\ StepMax[s] \in Nat
      BY PlanAssumption DEF IInv, TypeOK
    <2>5. \A s \in Step : attempts[s] <= StepMax[s] + r
      BY <2>2 DEF ChainInv, BudgetInv
    <2>6. \A s \in Step : attempts[s] < StepMax[s] + (r + 1)
      BY <2>4, <2>5
    <2>7. \A s \in Step : attempts[s] <= StepMax[s] + (r + 1)
      BY <2>4, <2>5
    <2> QED
      BY <1>2, <2>3, <2>6, <2>7 DEF BudgetInv
  <1>5. CASE resolve_resume(k)
    <2>1. /\ step' = [s \in Step |-> IF step[s] = "unknown" THEN "ready" ELSE step[s]]
          /\ plan' = "running"
      BY <1>5 DEF resolve_resume
    <2>2. Succeeded' = Succeeded
      BY <2>1 DEF Succeeded
    <2>3. (\A s \in Step : step'[s] \notin {"compensating", "compensated"})
            => \A s \in Step : step[s] \notin {"compensating", "compensated"}
      BY <2>1
    <2>4. \A s \in Step : step[s] \in Live \cup {"unknown"} => step'[s] \in Live
      BY <2>1 DEF Live
    <2>5. \A s \in Step : step'[s] # "cancel_requested"
      BY <2>1 DEF ChainInv, ProgressInv
    <2>6. ProgressInv'
      BY <1>2, <2>1, <2>2, <2>3, <2>4, <2>5 DEF ChainInv, ProgressInv, Open, NotYet, Undecided, Live
    <2> QED
      BY <1>3, <1>4, <2>6 DEF ChainInv
  <1>6. CASE resolve_compensate(k)
    <2>1. /\ \E s \in Step : step'[s] = "compensating"
          /\ \A s \in Step : step'[s] \in {step[s], "ready", "compensating"}
      BY <1>6 DEF resolve_compensate
    <2>2. ProgressInv'
      BY <2>1 DEF ChainInv, ProgressInv
    <2> QED
      BY <1>3, <1>4, <2>2 DEF ChainInv
  <1> QED
    BY <1>5, <1>6

(* Time makes up no key.                                                   *)
LEMMA TimeChain ==
    ASSUME IInv, ChainInv, lease_expires \/ approval_expires \/ UNCHANGED vars
    PROVE  ChainInv'
  <1>1. UNCHANGED <<plan, step, attempts, keys>> /\ task'.locked = task.locked
    BY DEF lease_expires, approval_expires, vars, IInv, TypeOK
  <1>2. KeysInv'
    BY <1>1 DEF ChainInv, KeysInv, NotYet, Undecided
  <1>3. BudgetInv'
    BY <1>1 DEF ChainInv, BudgetInv, Resolved, Waiting
  <1>4. ProgressInv'
    BY <1>1 DEF ChainInv, ProgressInv, Open, NotYet, Undecided, Live, Succeeded
  <1> QED
    BY <1>2, <1>3, <1>4 DEF ChainInv

LEMMA InitChain == Init => ChainInv
  <1> SUFFICES ASSUME Init PROVE ChainInv
    OBVIOUS
  <1>1. KeysInv
    BY DEF Init, KeysInv
  <1>2. BudgetInv
    <2>1. Resolved = {}
      BY DEF Init, Resolved
    <2>2. IsFiniteSet(Resolved) /\ Cardinality(Resolved) = 0
      BY <2>1, FS_EmptySet
    <2> QED
      BY <2>2, PlanAssumption DEF Init, BudgetInv
  <1>3. ProgressInv
    BY PlanAssumption DEF validate_structure, Init, ProgressInv, Open, NotYet, Undecided,
                          Live, Succeeded
  <1> QED
    BY <1>1, <1>2, <1>3 DEF ChainInv

THEOREM ChainInvariance == Spec => []ChainInv
  <1>1. IInv /\ ChainInv /\ [Next]_vars => ChainInv'
    <2> SUFFICES ASSUME IInv, ChainInv, [Next]_vars PROVE ChainInv'
      OBVIOUS
    <2>1. CASE approve_plan \/ reject_plan \/ submit_task
      BY <2>1, DecisionChain
    <2>2. CASE \E s \in Step : claim_next(s)
      BY <2>2, ClaimChain
    <2>3. CASE \E s \in Step : \/ finish_succeeded(s)
                               \/ \E retryable \in BOOLEAN : finish_failed(s, retryable)
      BY <2>3, FinishChain
    <2>4. CASE (\E s \in Step : finish_cancelled(s)) \/ recover_expired_lease
      BY <2>4, LostChain
    <2>5. CASE cancel_queued \/ cancel_running
      BY <2>5, CancelChain
    <2>6. CASE \E k \in Resolution : resolve_resume(k) \/ resolve_compensate(k)
      BY <2>6, ResolveChain
    <2>7. CASE lease_expires \/ approval_expires \/ resolve_cancel_blocked \/ UNCHANGED vars
      BY <2>7, TimeChain DEF resolve_cancel_blocked
    <2> QED
      BY <2>1, <2>2, <2>3, <2>4, <2>5, <2>6, <2>7 DEF Next
  <1> QED
    BY InitChain, PlanInvariance, <1>1, PTL DEF Spec

(* Whatever the order of claims, retries, losses and resolutions, a step   *)
(* runs at most max_attempts times plus once per resolution                *)
(* (finish_planned_step_tx, resolve_plan_unknown).                         *)
THEOREM StepAttemptsHold == Spec => []StepAttemptsBounded
  <1>1. ChainInv => StepAttemptsBounded
    BY DEF ChainInv, BudgetInv, StepAttemptsBounded
  <1> QED
    BY ChainInvariance, <1>1, PTL

(* A key that a claim or a finish makes up is never in the chain, so       *)
(* neither operation ever fails on the UNIQUE index                        *)
(* (prepare_planned_claim_tx, finish_planned_step_tx).                     *)
THEOREM WorkerKeysHold == Spec => []WorkerKeysFresh
  <1>1. IInv /\ ChainInv => WorkerKeysFresh
    <2> SUFFICES ASSUME IInv, ChainInv PROVE WorkerKeysFresh
      OBVIOUS
    <2>1. \A s \in Step : attempts[s] \in Nat
      BY DEF IInv, TypeOK
    <2>2. ASSUME NEW s \in Step PROVE ClaimKeys(s) \cap keys = {}
      <3>1. attempts[s] + 1 \in Nat /\ ~(attempts[s] + 1 <= attempts[s])
        BY <2>1
      <3>2. \A name \in ClaimName : <<name, s, attempts[s] + 1>> \notin keys
        BY <3>1 DEF ChainInv, KeysInv
      <3>3. plan = "approved" => <<"claim:plan", s>> \notin keys
        BY DEF ChainInv, KeysInv, NotYet
      <3> QED
        BY <3>2, <3>3 DEF ClaimKeys, ClaimName
    <2>3. \A s \in Step : task.locked = s =>
             \A name \in FinishName : <<name, s, attempts[s]>> \notin keys
      <3> TAKE s \in Step
      <3> HAVE task.locked = s
      <3> TAKE name \in FinishName
      <3>1. attempts[s] \in Nat /\ ~(attempts[s] < attempts[s])
        BY <2>1
      <3> QED
        BY <3>1 DEF ChainInv, KeysInv
    <2> QED
      BY <2>2, <2>3 DEF WorkerKeysFresh, Waiting, FinishName
  <1> QED
    BY PlanInvariance, ChainInvariance, <1>1, PTL

(* A queued plan that was never compensated has a step to run: the steps   *)
(* that have not succeeded wait, and since no set of steps waits for       *)
(* itself one of them waits only for steps that have                       *)
(* (prepare_planned_claim_tx, resolve_plan_unknown).                       *)
THEOREM QueuedRuns == Spec => []QueuedCanRun
  <1>1. IInv /\ ChainInv => QueuedCanRun
    <2> SUFFICES ASSUME IInv, ChainInv, task.status = "queued", plan \in {"approved", "running"},
                        \A s \in Step : step[s] \notin {"compensating", "compensated"}
                 PROVE  Runnable # {}
      BY DEF QueuedCanRun
    <2>1. \A s \in Step : step[s] \in Live
      BY DEF ChainInv, ProgressInv, Open, NotYet
    <2>2. Succeeded # Step
      BY DEF ChainInv, ProgressInv, Open, NotYet
    <2>3. task.locked = NoStep
      BY DEF IInv, OneBoundary
    <2>4. \A s \in Step : step[s] # "running"
      BY <2>3, PlanAssumption DEF IInv, OneBoundary
    <2>5. Step \ Succeeded # {} /\ Step \ Succeeded \in SUBSET Step
      BY <2>2 DEF Succeeded
    <2>6. PICK s \in Step \ Succeeded : Deps[s] \cap (Step \ Succeeded) = {}
      BY <2>5, PlanAssumption DEF validate_structure, ensure_acyclic
    <2>7. Deps[s] \subseteq Succeeded
      BY <2>6, PlanAssumption DEF validate_structure
    <2>8. s \in Waiting
      BY <2>1, <2>4 DEF Live, Waiting, Succeeded
    <2> QED
      BY <2>7, <2>8 DEF Runnable
  <1> QED
    BY PlanInvariance, ChainInvariance, <1>1, PTL

-----------------------------------------------------------------------------
(* The tables of transitions.                                              *)

LEMMA ReachPaths ==
    ASSUME NEW table, NEW x
    PROVE  /\ x \in Reach(table, x)
           /\ \A y \in table[x] : y \in Reach(table, x)
           /\ \A y \in table[x] : \A z \in table[y] : z \in Reach(table, x)
           /\ \A y \in table[x] : \A z \in table[y] : \A w \in table[z] : w \in Reach(table, x)
  BY DEF Reach

LEMMA PlanEdges ==
    /\ "proposed" \in PlanNext["draft"]
    /\ "validated" \in PlanNext["proposed"]
    /\ "approved" \in PlanNext["validated"]
    /\ "approved" \in PlanNext["awaiting_approval"]
    /\ \A p \in Undecided \cup {"approved"} : "rejected" \in PlanNext[p]
    /\ "running" \in PlanNext["approved"]
    /\ {"succeeded", "failed", "cancel_requested"} \subseteq PlanNext["running"]
    /\ "cancel_requested" \in PlanNext["approved"]
    /\ "cancelled" \in PlanNext["cancel_requested"]
    /\ "compensated" \in PlanNext["compensating"]
    /\ \A p \in {"running", "cancel_requested", "compensating"} : "unknown" \in PlanNext[p]
    /\ {"running", "compensating"} \subseteq PlanNext["unknown"]
  BY DEF PlanNext, Undecided

LEMMA StepEdges ==
    /\ {"ready", "cancelled"} \subseteq StepNext["pending"]
    /\ {"running", "cancelled"} \subseteq StepNext["ready"]
    /\ {"succeeded", "failed", "unknown"} \subseteq StepNext["running"]
    /\ {"ready", "compensating"} \subseteq StepNext["failed"]
    /\ {"ready", "compensating"} \subseteq StepNext["unknown"]
    /\ "compensated" \in StepNext["compensating"]
    /\ "compensating" \in StepNext["succeeded"]
  BY DEF StepNext

LEMMA TerminalPlans ==
    PlanTerminal = {"succeeded", "failed", "cancelled", "compensated", "rejected"}
  <1>1. /\ PlanNext["succeeded"] = {} /\ PlanNext["failed"] = {} /\ PlanNext["cancelled"] = {}
        /\ PlanNext["compensated"] = {} /\ PlanNext["rejected"] = {}
    BY DEF PlanNext
  <1>2. \A p \in {"draft", "proposed", "validated", "awaiting_approval", "approved", "running",
                  "paused", "cancel_requested", "compensating", "unknown"} : PlanNext[p] # {}
    BY DEF PlanNext
  <1> QED
    BY <1>1, <1>2, States DEF PlanTerminal

(* The state of the plan while its task is in the hands of a worker.       *)
LEMMA LockedPlan ==
    ASSUME IInv, ChainInv, NEW s \in Step, task.locked = s
    PROVE  plan \in {"running", "cancel_requested", "compensating"} /\ step[s] = "running"
  <1>1. task.status \in {"running", "cancel_requested"}
    BY PlanAssumption DEF IInv, OneBoundary
  <1>2. plan \in {"running", "cancel_requested", "compensating"}
    BY <1>1 DEF IInv, TaskAgrees, Allowed
  <1> QED
    BY <1>2 DEF IInv, OneBoundary, ChainInv, ProgressInv

(* What one step does to the state of the plan.                            *)
PlanMoves ==
    \/ plan' = plan
    \/ plan \in Undecided /\ plan' \in {"approved", "rejected"}
    \/ plan = "approved" /\ plan' \in {"running", "cancelled"}
    \/ plan = "running" /\ plan' \in {"succeeded", "failed", "cancelled", "cancel_requested"}
    \/ plan = "compensating" /\ plan' = "compensated"
    \/ plan \in {"running", "cancel_requested", "compensating"} /\ plan' = "unknown"
    \/ plan = "unknown" /\ plan' \in {"running", "compensating"}

(* What it does to the state of a step.                                    *)
StepMoves(s) ==
    \/ step'[s] = step[s]
    \/ step[s] \in {"pending", "ready"} /\ step'[s] \in {"running", "cancelled"}
    \/ step[s] = "running" /\ step'[s] \in {"succeeded", "failed", "ready", "unknown"}
    \/ step[s] \in {"failed", "unknown"} /\ step'[s] \in {"ready", "compensating"}
    \/ step[s] = "succeeded" /\ step'[s] = "compensating"
    \/ step[s] = "compensating" /\ step'[s] = "compensated"

Moves ==
    /\ PlanMoves
    /\ \A s \in Step : StepMoves(s)
    /\ plan \in PlanTerminal => UNCHANGED <<plan, step, task>>

LEMMA Follows ==
    ASSUME IInv, Moves
    PROVE  /\ plan' \in Reach(PlanNext, plan)
           /\ \A s \in Step : step'[s] \in Reach(StepNext, step[s])
           /\ plan' = "unknown" /\ plan # "unknown" => "unknown" \in PlanNext[plan]
           /\ plan \in PlanTerminal => UNCHANGED <<plan, step, task>>
  <1>1. plan' \in Reach(PlanNext, plan)
    <2>1. CASE plan \in Undecided /\ plan' \in {"approved", "rejected"}
      BY <2>1, PlanEdges, ReachPaths DEF Undecided
    <2>2. CASE plan = "approved" /\ plan' \in {"running", "cancelled"}
      BY <2>2, PlanEdges, ReachPaths
    <2>3. CASE /\ plan = "running"
               /\ plan' \in {"succeeded", "failed", "cancelled", "cancel_requested"}
      BY <2>3, PlanEdges, ReachPaths
    <2>4. CASE plan = "compensating" /\ plan' = "compensated"
      BY <2>4, PlanEdges, ReachPaths
    <2>5. CASE plan \in {"running", "cancel_requested", "compensating"} /\ plan' = "unknown"
      BY <2>5, PlanEdges, ReachPaths
    <2>6. CASE plan = "unknown" /\ plan' \in {"running", "compensating"}
      BY <2>6, PlanEdges, ReachPaths
    <2>7. CASE plan' = plan
      BY <2>7, ReachPaths
    <2> QED
      BY <2>1, <2>2, <2>3, <2>4, <2>5, <2>6, <2>7 DEF Moves, PlanMoves
  <1>2. ASSUME NEW s \in Step PROVE step'[s] \in Reach(StepNext, step[s])
    <2>1. CASE step'[s] = step[s]
      BY <2>1, ReachPaths
    <2>2. CASE step[s] \in {"pending", "ready"} /\ step'[s] \in {"running", "cancelled"}
      BY <2>2, StepEdges, ReachPaths
    <2>3. CASE step[s] = "running" /\ step'[s] \in {"succeeded", "failed", "ready", "unknown"}
      BY <2>3, StepEdges, ReachPaths
    <2>4. CASE step[s] \in {"failed", "unknown"} /\ step'[s] \in {"ready", "compensating"}
      BY <2>4, StepEdges, ReachPaths
    <2>5. CASE step[s] = "succeeded" /\ step'[s] = "compensating"
      BY <2>5, StepEdges, ReachPaths
    <2>6. CASE step[s] = "compensating" /\ step'[s] = "compensated"
      BY <2>6, StepEdges, ReachPaths
    <2> QED
      BY <2>1, <2>2, <2>3, <2>4, <2>5, <2>6 DEF Moves, StepMoves
  <1>3. plan' = "unknown" /\ plan # "unknown" => "unknown" \in PlanNext[plan]
    BY PlanEdges DEF Moves, PlanMoves
  <1> QED
    BY <1>1, <1>2, <1>3 DEF Moves

(* Every step of the engine moves along the tables.                        *)
LEMMA EveryMove ==
    ASSUME IInv, ChainInv, [Next]_vars
    PROVE  Moves
  <1> USE TerminalPlans
  <1>1. CASE approve_plan \/ reject_plan \/ submit_task
    BY <1>1 DEF approve_plan, reject_plan, submit_task, Undecided, Moves, PlanMoves, StepMoves
  <1>2. ASSUME NEW s \in Step, claim_next(s)
        PROVE  Moves
    <2>1. step[s] \in {"pending", "ready"} /\ plan \in {"approved", "running", "compensating"}
      BY <1>2 DEF claim_next, Runnable, Waiting
    <2>2. /\ step'[s] = "running" /\ \A c \in Step \ {s} : step'[c] = step[c]
          /\ plan' = IF plan = "approved" THEN "running" ELSE plan
      BY <1>2 DEF claim_next, IInv, TypeOK
    <2> QED
      BY <2>1, <2>2 DEF Moves, PlanMoves, StepMoves
  <1>3. ASSUME NEW s \in Step, finish_succeeded(s)
        PROVE  Moves
    <2>1. plan \in {"running", "cancel_requested", "compensating"} /\ step[s] = "running"
      BY <1>3, LockedPlan DEF finish_succeeded, Held
    <2>2. CASE plan = "compensating" /\ complete_compensation(s)
      <3>1. /\ plan' \in {plan, "compensated"}
            /\ \A c \in Step : \/ c = s /\ step'[c] = "succeeded"
                               \/ step'[c] = step[c]
                               \/ step[c] = "compensating" /\ step'[c] = "compensated"
        BY <2>2 DEF complete_compensation
      <3> QED
        BY <2>1, <2>2, <3>1 DEF Moves, PlanMoves, StepMoves
    <2>3. CASE plan # "compensating" /\ complete_step(s)
      <3>1. plan = "running"
        <4>1. task.status = "running"
          BY <1>3 DEF finish_succeeded, Held, Asked, IInv, OneBoundary
        <4> QED
          BY <2>3, <4>1 DEF IInv, TaskAgrees, Allowed
      <3>2. /\ plan' \in {plan, "succeeded"} /\ step'[s] = "succeeded"
            /\ \A c \in Step \ {s} : step'[c] = step[c]
        BY <2>3 DEF complete_step, IInv, TypeOK
      <3> QED
        BY <2>1, <3>1, <3>2 DEF Moves, PlanMoves, StepMoves
    <2> QED
      BY <1>3, <2>2, <2>3 DEF finish_succeeded
  <1>4. ASSUME NEW s \in Step, NEW retryable \in BOOLEAN, finish_failed(s, retryable)
        PROVE  Moves
    <2>1. plan \in {"running", "cancel_requested", "compensating"} /\ step[s] = "running"
      BY <1>4, LockedPlan DEF finish_failed, Held
    <2>2. /\ plan' = plan \/ plan' = "unknown" \/ (plan = "running" /\ plan' = "failed")
          /\ \E x \in {"unknown", "ready", "failed"} : step' = [step EXCEPT ![s] = x]
      BY <1>4 DEF finish_failed, mark_plan_unknown
    <2>3. /\ step'[s] \in {"unknown", "ready", "failed"}
          /\ \A c \in Step \ {s} : step'[c] = step[c]
      BY <2>2 DEF IInv, TypeOK
    <2> QED
      BY <2>1, <2>2, <2>3 DEF Moves, PlanMoves, StepMoves
  <1>5. CASE (\E s \in Step : finish_cancelled(s)) \/ recover_expired_lease
    <2>1. PICK s \in Step : task.locked = s /\ mark_plan_unknown(s)
      BY <1>5, PlanAssumption DEF finish_cancelled, Held, recover_expired_lease, IInv, TypeOK,
                                  OneBoundary
    <2>2. plan \in {"running", "cancel_requested", "compensating"} /\ step[s] = "running"
      BY <2>1, LockedPlan
    <2>3. /\ plan' = "unknown" /\ step'[s] = "unknown"
          /\ \A c \in Step \ {s} : step'[c] = step[c]
      BY <2>1 DEF mark_plan_unknown, IInv, TypeOK
    <2> QED
      BY <2>2, <2>3 DEF Moves, PlanMoves, StepMoves
  <1>6. CASE cancel_queued \/ cancel_running
    <2>1. /\ plan \in {"approved", "running"}
          /\ plan' = "cancelled" \/ (plan = "running" /\ plan' = "cancel_requested")
          /\ \A s \in Step : \/ step'[s] = step[s]
                             \/ step[s] \in {"pending", "ready"} /\ step'[s] = "cancelled"
      BY <1>6 DEF cancel_queued, cancel_running, Waiting
    <2> QED
      BY <2>1 DEF Moves, PlanMoves, StepMoves
  <1>7. ASSUME NEW k \in Resolution, resolve_resume(k) \/ resolve_compensate(k)
        PROVE  Moves
    <2>1. plan = "unknown" /\ plan' \in {"running", "compensating"}
      BY <1>7 DEF resolve_resume, resolve_compensate
    <2>2. \A s \in Step : \/ step'[s] = step[s]
                          \/ step[s] \in {"failed", "unknown"} /\ step'[s] = "ready"
                          \/ step[s] \in {"succeeded", "failed", "unknown", "compensating"}
                               /\ step'[s] = "compensating"
      <3>1. CASE resolve_resume(k)
        BY <3>1 DEF resolve_resume
      <3>2. CASE resolve_compensate(k)
        BY <3>2 DEF resolve_compensate
      <3> QED
        BY <1>7, <3>1, <3>2
    <2> QED
      BY <2>1, <2>2 DEF Moves, PlanMoves, StepMoves
  <1>8. CASE lease_expires
    <2>1. task.status \in {"running", "cancel_requested"} /\ UNCHANGED <<plan, step>>
      BY <1>8 DEF lease_expires, IInv, OneBoundary
    <2>2. plan \in {"running", "cancel_requested", "compensating"}
      BY <2>1 DEF IInv, TaskAgrees, Allowed
    <2> QED
      BY <2>1, <2>2 DEF Moves, PlanMoves, StepMoves
  <1>9. CASE approval_expires \/ resolve_cancel_blocked \/ UNCHANGED vars
    BY <1>9 DEF approval_expires, resolve_cancel_blocked, vars, Moves, PlanMoves, StepMoves
  <1> QED
    BY <1>1, <1>2, <1>3, <1>4, <1>5, <1>6, <1>7, <1>8, <1>9 DEF Next

(* Plan and steps only ever move along the tables of                       *)
(* validate_transition, a plan becomes unknown only where its table says   *)
(* so, and a terminal plan keeps its steps and its task                    *)
(* (validate_transition, mark_plan_unknown_tx).                            *)
THEOREM TablesFollowed == Spec => FollowsTables
  <1>1. IInv /\ ChainInv /\ [Next]_vars
          => [/\ plan' \in Reach(PlanNext, plan)
              /\ \A s \in Step : step'[s] \in Reach(StepNext, step[s])
              /\ plan' = "unknown" /\ plan # "unknown" => "unknown" \in PlanNext[plan]
              /\ plan \in PlanTerminal => UNCHANGED <<plan, step, task>>]_vars
    BY EveryMove, Follows
  <1> QED
    BY <1>1, PlanInvariance, ChainInvariance, PTL DEF Spec, FollowsTables
=============================================================================
