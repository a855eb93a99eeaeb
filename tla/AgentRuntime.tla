---------------------------- MODULE AgentRuntime ----------------------------
(***************************************************************************)
(* AgentRuntime::run_with_cancellation_and_scope of                        *)
(* crates/shaka-orchestrator, with the memory it writes to: several        *)
(* executions of one process, interleaved at their awaits and at their     *)
(* writes, with the operator's cancellation, the deadline, writes that     *)
(* fail, a process that dies, and the administrator's purge, backup and    *)
(* restore.                                                                *)
(*                                                                         *)
(* Elapsed time is one bit: whether max_elapsed_ms has passed.  The model  *)
(* (external) proposes any number of calls at any cost; which tool a call  *)
(* names and whether its arguments satisfy the schema is decided when its  *)
(* turn comes.  Answers, results and their redaction are left out.         *)
(***************************************************************************)
EXTENDS MemoryStore

CONSTANTS
    Name,         \* tool names a model may propose
    Registered,   \* the ones in the ToolRegistry
    ReadOnly,     \* the ones whose side_effect is ReadOnly
    Needs,        \* name -> required_capabilities
    Envelopes,    \* TaskEnvelope with the PlanExecutionScope of its step
    MaxBudgetSteps, MaxBudgetCalls,  \* MAX_EXECUTION_STEPS, MAX_TOOL_CALLS
    MaxProposed,  \* bound: calls in one response
    MaxFaults,    \* bound: writes that fail
    MaxAdmin      \* bound: administrator operations

ASSUME RuntimeAssumption ==
    /\ Registered \subseteq Name /\ ReadOnly \subseteq Registered
    /\ MaxProposed \in Nat /\ MaxFaults \in Nat /\ MaxAdmin \in Nat
    /\ None \notin Tenant \cup Run \cup Name \cup Nat
    /\ \A e \in Envelopes :
         /\ e.tenant \in Tenant
         /\ e.budget.max_steps \in Nat /\ e.budget.max_tool_calls \in Nat
         /\ e.budget.max_cost \in Nat

VARIABLES
    envelope,   \* run -> its TaskEnvelope
    run,        \* run -> the local variables of its future
    cancelled,  \* the CancellationTokens that are set
    expired,    \* runs whose max_elapsed_ms has passed
    history     \* evidence that was lost and operations counted, for the properties

vars == <<memory_vars, envelope, run, cancelled, expired, history>>

Fresh ==
    [pc |-> "new", steps |-> 0, calls |-> 0, cost |-> 0, pending |-> 0,
     good |-> TRUE, success |-> TRUE, outcome |-> "success", started |-> 0, late |-> 0]

Init ==
    /\ memory_init
    /\ envelope \in [Run -> Envelopes]
    /\ run = [r \in Run |-> Fresh]
    /\ cancelled = {}
    /\ expired = {}
    /\ history = [damaged |-> {}, purged |-> {}, faults |-> 0, admin |-> 0]

Go(r, pc) == run' = [run EXCEPT ![r].pc = pc]

(* record_failure or record_cancelled, then return Err.                    *)
Fail(r, outcome) ==
    run' = [run EXCEPT ![r].pc = "record_episode", ![r].outcome = outcome]

quiet == UNCHANGED <<memory_vars, envelope, cancelled, expired, history>>

-----------------------------------------------------------------------------
(* ExecutionBudget::validate, which also refuses a max_elapsed_ms of 0.    *)
validate(b) ==
    /\ b.max_steps \in 1..MaxBudgetSteps
    /\ b.max_tool_calls \in 0..MaxBudgetCalls
    /\ b.max_elapsed_ms > 0

begin(r) ==
    /\ run[r].pc = "new"
    /\ IF validate(envelope[r].budget) THEN Go(r, "loop") ELSE Fail(r, "failure")
    /\ quiet

StepsLeft(r) == run[r].steps < envelope[r].budget.max_steps

(* Top of the loop: cancellation, steps, deadline, in this order.          *)
loop(r) ==
    /\ run[r].pc = "loop"
    /\ IF r \in cancelled THEN Fail(r, "cancelled")
       ELSE IF ~StepsLeft(r) \/ r \in expired THEN Fail(r, "failure")
       ELSE Go(r, "model")
    /\ quiet

(* tokio::select! of cancellation.wait() and of an operation: the model's  *)
(* answer (lib.rs:667-673) or a tool (738-744).                            *)
cancel_branch(r) ==
    /\ run[r].pc \in {"model", "tool", "executing"}
    /\ r \in cancelled
    /\ Fail(r, "cancelled")
    /\ quiet

(* Mutant: model.complete is awaited without a timeout.                    *)
NoModelTimeout(r) == FALSE /\ UNCHANGED vars

(* timeout(remaining_ms, model.complete).                                  *)
model_timeout(r) ==
    /\ run[r].pc = "model"
    /\ r \in expired
    /\ Fail(r, "failure")
    /\ quiet

model_error(r) ==
    /\ run[r].pc = "model"
    /\ Fail(r, "failure")
    /\ quiet

(* Mutant: the calls of one response are compared, not their sum.          *)
CallsOfThisResponse(r, n) == n <= envelope[r].budget.max_tool_calls

CallsLeft(r, n) == run[r].calls + n <= envelope[r].budget.max_tool_calls

(* The answer: cost first, then the number of calls; all of them are       *)
(* counted before the first one runs.                                      *)
model_response(r, n, c) ==
    LET cost == run[r].cost + c
        counted == [run[r] EXCEPT !.steps = @ + 1, !.cost = cost]
        failed == [counted EXCEPT !.pc = "record_episode", !.outcome = "failure"]
    IN
    /\ run[r].pc = "model"
    /\ run' = [run EXCEPT ![r] =
         IF cost > envelope[r].budget.max_cost THEN failed
         ELSE IF n = 0 THEN [counted EXCEPT !.pc = "finish_episode",
                                !.outcome = IF run[r].good THEN "success" ELSE "partial_failure"]
         ELSE IF ~CallsLeft(r, n) THEN [failed EXCEPT !.calls = @ + n]
         ELSE [counted EXCEPT !.pc = "calls", !.calls = @ + n, !.pending = n]]
    /\ quiet

(* Mutant: the token is not looked at between two calls.                   *)
CheckDeadlineOnly(r) ==
    /\ run[r].pc = "calls"
    /\ IF r \in expired THEN Fail(r, "failure") ELSE Go(r, "tool")
    /\ quiet

(* Before each call: deadline, then cancellation.                          *)
next_call(r) ==
    /\ run[r].pc = "calls"
    /\ IF r \in expired THEN Fail(r, "failure")
       ELSE IF r \in cancelled THEN Fail(r, "cancelled")
       ELSE Go(r, "tool")
    /\ quiet

(* PlanExecutionScope::allows_tool; a direct task has no scope.            *)
allows_tool(scope, name) == scope \in {None, name}

(* CapabilitySet::allows                                                   *)
allows(capabilities, required) == required \subseteq capabilities

(* ToolRegistry::execute_with_scope: what it refuses.                      *)
Allowed(e, name) ==
    /\ name \in Registered
    /\ allows_tool(e.scope, name)
    /\ allows(e.capabilities, Needs[name])

(* Mutant: a call that is refused is skipped instead of answered.          *)
RefusalSkipped(r, name, valid) ==
    /\ run[r].pc = "tool"
    /\ run' = [run EXCEPT ![r] =
         IF Allowed(envelope[r], name) /\ valid
         THEN [@ EXCEPT !.pc = "executing", !.started = @ + 1]
         ELSE [@ EXCEPT !.pc = IF run[r].pending = 1 THEN "loop" ELSE "calls",
                        !.pending = @ - 1, !.started = @ + 1]]
    /\ quiet

(* A refusal and a dry run give a result without running the tool.         *)
gate(r, name, valid) ==
    LET e == envelope[r]
        refused == ~(Allowed(e, name) /\ valid)
        dry == e.dry_run /\ name \notin ReadOnly
    IN
    /\ run[r].pc = "tool"
    /\ \/ /\ refused \/ dry
          /\ run' = [run EXCEPT ![r].pc = "tool_audit", ![r].started = @ + 1,
                                ![r].success = IF refused THEN FALSE ELSE TRUE]
       \/ /\ ~refused /\ ~dry
          /\ run' = [run EXCEPT ![r].pc = "executing", ![r].started = @ + 1,
                                ![r].late = IF r \in cancelled \cup expired THEN @ + 1 ELSE @]
    /\ quiet

(* tool.execute returns Ok or Err, or the timeout expires first.           *)
tool_returns(r, ok) ==
    /\ run[r].pc = "executing"
    /\ run' = [run EXCEPT ![r].pc = "tool_audit", ![r].success = ok]
    /\ quiet

tool_timeout(r) ==
    /\ run[r].pc = "executing"
    /\ r \in expired
    /\ run' = [run EXCEPT ![r].pc = "tool_audit", ![r].success = FALSE]
    /\ quiet

-----------------------------------------------------------------------------
(* Writes.  Each may fail; what happens then differs from place to place.  *)

Write(op) ==
    /\ op
    /\ UNCHANGED <<envelope, cancelled, expired, history>>

WriteFails(r) ==
    /\ history.faults < MaxFaults
    /\ history' = [history EXCEPT !.faults = @ + 1, !.damaged = @ \cup {r}]
    /\ UNCHANGED <<memory_vars, envelope, cancelled, expired>>

ToolOutcome(r) == IF run[r].success THEN "success" ELSE "failure"

(* tool.execute: on success the next call, or the next turn of the loop.   *)
tool_audit(r) ==
    /\ run[r].pc = "tool_audit"
    /\ Write(append_audit_event(envelope[r].tenant, r, "tool.execute", ToolOutcome(r)))
    /\ run' = [run EXCEPT ![r].pc = IF run[r].pending = 1 THEN "loop" ELSE "calls",
                          ![r].pending = @ - 1,
                          ![r].good = @ /\ run[r].success, ![r].success = TRUE]

(* `?': the run ends with the storage error, and nothing is recorded.      *)
tool_audit_fails(r) ==
    /\ run[r].pc = "tool_audit"
    /\ WriteFails(r)
    /\ Go(r, "ended")

(* Mutant: a failure is told in the log only.                              *)
FailureNotRecorded(r) ==
    /\ run[r].pc \in {"record_episode", "finish_episode"}
    /\ IF run[r].outcome = "failure"
       THEN Go(r, "ended") /\ quiet
       ELSE /\ Write(append_episode(envelope[r].tenant, r, run[r].outcome))
            /\ Go(r, "run_audit")

(* The episode of a finished run, and of record_failure, record_cancelled. *)
run_episode(r) ==
    /\ run[r].pc \in {"record_episode", "finish_episode"}
    /\ Write(append_episode(envelope[r].tenant, r, run[r].outcome))
    /\ Go(r, "run_audit")

(* Without the episode the event is not attempted.                         *)
run_episode_fails(r) ==
    /\ run[r].pc \in {"record_episode", "finish_episode"}
    /\ WriteFails(r)
    /\ Go(r, "ended")

run_audit(r) ==
    /\ run[r].pc = "run_audit"
    /\ Write(append_audit_event(envelope[r].tenant, r, "agent.run", run[r].outcome))
    /\ Go(r, "ended")

run_audit_fails(r) ==
    /\ run[r].pc = "run_audit"
    /\ WriteFails(r)
    /\ Go(r, "ended")

-----------------------------------------------------------------------------
(* The operator, the clock, the process and the administrator              *)

Running(r) == run[r].pc \notin {"new", "ended"}

cancel(r) ==
    /\ run[r].pc # "ended" /\ r \notin cancelled
    /\ cancelled' = cancelled \cup {r}
    /\ UNCHANGED <<memory_vars, envelope, run, expired, history>>

deadline(r) ==
    /\ Running(r) /\ r \notin expired
    /\ expired' = expired \cup {r}
    /\ UNCHANGED <<memory_vars, envelope, run, cancelled, history>>

(* The process dies, with every run in it.                                 *)
crash ==
    /\ \E r \in Run : Running(r)
    /\ history.faults < MaxFaults
    /\ run' = [r \in Run |-> IF Running(r) THEN [run[r] EXCEPT !.pc = "ended"] ELSE run[r]]
    /\ history' = [history EXCEPT !.faults = @ + 1,
                                  !.damaged = @ \cup {r \in Run : Running(r)}]
    /\ UNCHANGED <<memory_vars, envelope, cancelled, expired>>

Administer(op) ==
    /\ history.admin < MaxAdmin
    /\ op
    /\ UNCHANGED <<envelope, run, cancelled, expired>>

purge(t) ==
    \E cutoff \in 1..fresh :
      /\ Administer(purge_older_than(t, cutoff))
      /\ history' = [history EXCEPT !.admin = @ + 1,
                       !.purged = @ \cup {e.run : e \in episodes \ episodes'}]

(* Another process of the same tenant: the CLI's control events.           *)
control_event(t) ==
    /\ Administer(append_audit_event(t, None, "control", "success"))
    /\ history' = [history EXCEPT !.admin = @ + 1]

backup ==
    /\ Administer(backup_to)
    /\ history' = [history EXCEPT !.admin = @ + 1]

(* Every run that had begun may lose rows.                                 *)
restore ==
    /\ Administer(restore_from)
    /\ history' = [history EXCEPT !.admin = @ + 1,
                                  !.damaged = @ \cup {r \in Run : run[r].pc # "new"}]

-----------------------------------------------------------------------------
ModelStep(r) ==
    \/ model_error(r)
    \/ \E n \in 0..MaxProposed, c \in 0..1 : model_response(r, n, c)

ToolStep(r) == \E ok \in BOOLEAN : tool_returns(r, ok)

(* What the future does by itself once it is polled.                       *)
RuntimeStep(r) ==
    \/ loop(r) \/ cancel_branch(r) \/ model_timeout(r)
    \/ next_call(r) \/ tool_timeout(r)
    \/ \E name \in Name, valid \in BOOLEAN : gate(r, name, valid)
    \/ tool_audit(r) \/ tool_audit_fails(r)
    \/ run_episode(r) \/ run_episode_fails(r)
    \/ run_audit(r) \/ run_audit_fails(r)

Next ==
    \/ \E r \in Run :
         begin(r) \/ RuntimeStep(r) \/ ModelStep(r) \/ ToolStep(r) \/ cancel(r) \/ deadline(r)
    \/ crash
    \/ \E t \in Tenant : purge(t) \/ control_event(t)
    \/ backup \/ restore

Spec == Init /\ [][Next]_vars

(* The runtime is polled and time passes.  Neither the model nor a tool    *)
(* need ever answer.                                                       *)
FairSpec ==
    /\ Spec
    /\ \A r \in Run : WF_vars(RuntimeStep(r)) /\ WF_vars(deadline(r))

-----------------------------------------------------------------------------
(* Properties                                                              *)

RunState ==
    [pc : {"new", "loop", "model", "calls", "tool", "executing", "tool_audit",
           "record_episode", "finish_episode", "run_audit", "ended"},
     steps : Nat, calls : Nat, cost : Nat, pending : Nat, good : BOOLEAN,
     success : BOOLEAN, outcome : Outcome, started : Nat, late : Nat]

(* Types; and no row has the number of a row to come (the UUIDs).          *)
TypeOK ==
    /\ fresh \in Nat
    /\ \A e \in episodes : e \in EpisodicRecord /\ e.id < fresh
    /\ \A i \in 1..Len(audit) : audit[i] \in AuditEvent /\ audit[i].hash < fresh
    /\ run \in [Run -> RunState]
    /\ cancelled \subseteq Run /\ expired \subseteq Run
    /\ history.damaged \subseteq Run /\ history.purged \subseteq Run

(* verify_audit_chain succeeds for every tenant, on the database and on    *)
(* the backup, however runs of several tenants, the control events of      *)
(* another process, failed writes and restores interleave.                 *)
ChainValid ==
    \A t \in Tenant :
        /\ verify_audit_chain(audit, t)
        /\ snapshot # None => verify_audit_chain(snapshot.audit, t)

EventsOf(r, action) == {i \in 1..Len(audit) : audit[i].run = r /\ audit[i].action = action}

EpisodesOf(r) == {e \in episodes : e.run = r}

(* A run leaves exactly one episode and, after every other event of its    *)
(* own, one agent.run event, both with the outcome it returned, however it *)
(* ended (the answer, record_failure, record_cancelled): unless a write    *)
(* failed, the process died, a restore took rows away, or the episode was  *)
(* purged.                                                                 *)
RunsAccounted ==
    \A r \in Run : run[r].pc = "ended" /\ r \notin history.damaged =>
        /\ \E i \in 1..Len(audit) :
             /\ EventsOf(r, "agent.run") = {i}
             /\ audit[i].outcome = run[r].outcome
             /\ \A j \in EventsOf(r, "tool.execute") : j < i
        /\ r \notin history.purged =>
             \E e \in episodes : EpisodesOf(r) = {e} /\ e.outcome = run[r].outcome

Unaudited(r) == run[r].started - Cardinality(EventsOf(r, "tool.execute"))

(* A run owes at most one tool.execute event and writes it before it goes  *)
(* on; the debt is forgiven only to the cancellation that interrupts a     *)
(* call.  That one exception is the code's (the select! at                 *)
(* shaka-orchestrator lib.rs:738), not the documentation's: see            *)
(* EveryToolAudited.                                                       *)
ToolsAudited ==
    \A r \in Run \ history.damaged :
        CASE run[r].pc \in {"executing", "tool_audit"} -> Unaudited(r) = 1
          [] run[r].outcome = "cancelled" -> Unaudited(r) \in {0, 1}
          [] OTHER -> Unaudited(r) = 0

(* What API_CONTRACTS.md:174 says: every tool execution generates a        *)
(* tool.execute event.  The cancellation branch of the select! around      *)
(* execute_with_scope (lib.rs:738-744) records agent.run only, so a tool   *)
(* that was running, and whose effect may have happened, leaves none.      *)
EveryToolAudited ==
    \A r \in Run \ history.damaged : run[r].pc = "ended" => Unaudited(r) = 0

(* The limits of the envelope hold over the whole run: model calls, tool   *)
(* calls of all responses together, and no tool runs and no answer is      *)
(* accepted once the cost is above the limit.                              *)
BudgetHolds ==
    \A r \in Run :
        LET b == envelope[r].budget IN
        /\ run[r].steps <= b.max_steps
        /\ run[r].started <= b.max_tool_calls
        /\ run[r].pc \in {"calls", "tool", "executing", "tool_audit", "finish_episode"}
             => run[r].cost <= b.max_cost

(* After the token is set or the deadline has passed at most one more tool *)
(* starts: the one whose checks had been made.                             *)
StopsPromptly == \A r \in Run : run[r].late <= 1

(* Every run that began ends, although the model and the tools may never   *)
(* answer: by its deadline.                                                *)
RunEnds == \A r \in Run : Running(r) ~> run[r].pc = "ended"
=============================================================================
