----------------------------- MODULE WorkerPool -----------------------------
(***************************************************************************)
(* The server process of crates/shaka-api/src/lib.rs: workers that ask the *)
(* breaker, claim, execute and finish tasks in separate awaits, the        *)
(* registry of cancellation tokens, DELETE /v1/tasks, coordinated          *)
(* shutdown, crash and restart.                                            *)
(*                                                                         *)
(* The queue is QueueStore with time kept as flags: whether the backoff of *)
(* a queued task has passed and whether a lease has.  In one process a     *)
(* lease token is as good as the worker that holds it, because leases are  *)
(* recovered only when a process starts; a lease whose process is gone has *)
(* no holder.                                                              *)
(***************************************************************************)
EXTENDS CircuitBreaker

CONSTANTS
    Task, Worker,
    None,           \* not a task or worker
    MaxAttempts,    \* max_attempts of every task
    MaxRestarts     \* bound of the model: process starts after the first

ASSUME PoolAssumption ==
    /\ None \notin Task \cup Worker
    /\ MaxAttempts \in 1..10
    /\ MaxRestarts \in Nat

VARIABLES
    row,        \* api_tasks
    worker,     \* where each worker_loop is, its task and the run's outcome
    registry,   \* ApiState.cancellations: task -> worker whose token it is
    signalled,  \* workers whose CancellationToken was cancelled
    cancelling, \* DELETE requests between request_cancel and cancel_running
    phase,      \* of the process
    restarts

vars == <<breaker, row, worker, registry, signalled, cancelling, phase, restarts>>

-----------------------------------------------------------------------------
Outcome == {"ok", "retryable", "fatal", "cancelled"}

Row == [status: {"absent", "queued", "running", "cancel_requested",
                 "succeeded", "failed", "cancelled"},
        attempts: Nat, ready: BOOLEAN,
        lease: {"none", "valid", "expired"}, holder: Worker \cup {None}]

Absent == [status |-> "absent", attempts |-> 0, ready |-> FALSE,
           lease |-> "none", holder |-> None]

At(w, pc) == worker[w].pc = pc

Goto(w, pc) == worker' = [worker EXCEPT ![w].pc = pc]

Rest(w) == worker' = [worker EXCEPT ![w] = [pc |-> "top", task |-> None, outcome |-> None]]

Alive == phase \in {"up", "stopping", "draining"}

-----------------------------------------------------------------------------
(* worker_loop                                                             *)

(* The shutdown flag is read once, at the top of the loop.                 *)
check_shutdown(w) ==
    /\ Alive /\ At(w, "top")
    /\ Goto(w, IF phase = "up" THEN "checked" ELSE "exited")
    /\ UNCHANGED <<breaker, row, registry, signalled, cancelling, phase, restarts>>

allow(w) ==
    /\ Alive /\ At(w, "checked")
    /\ \/ (allow_closed \/ allow_probe) /\ Goto(w, "allowed")
       \/ allow_blocked /\ Goto(w, "top")
    /\ UNCHANGED <<row, registry, signalled, cancelling, phase, restarts>>

(* Mutant: an expired lease is up for grabs before any recovery.           *)
ClaimableOrExpired ==
    {t \in Task : (row[t].status = "queued" /\ row[t].ready) \/ row[t].lease = "expired"}

Claimable == {t \in Task : row[t].status = "queued" /\ row[t].ready}

claim_empty(w) ==
    /\ Alive /\ At(w, "allowed")
    /\ Claimable = {}
    /\ Goto(w, "top")
    /\ UNCHANGED <<breaker, row, registry, signalled, cancelling, phase, restarts>>

claim_next(w) ==
    /\ Alive /\ At(w, "allowed")
    /\ \E t \in Claimable :
          /\ row' = [row EXCEPT ![t] = [status |-> "running", attempts |-> @.attempts + 1,
                                        ready |-> FALSE, lease |-> "valid", holder |-> w]]
          /\ worker' = [worker EXCEPT ![w].pc = "claimed", ![w].task = t]
    /\ UNCHANGED <<breaker, registry, signalled, cancelling, phase, restarts>>

-----------------------------------------------------------------------------
(* execute_task                                                            *)

register_cancellation(w) ==
    /\ Alive /\ At(w, "claimed")
    /\ registry' = [registry EXCEPT ![worker[w].task] = w]
    /\ signalled' = signalled \ {w}
    /\ Goto(w, "running")
    /\ UNCHANGED <<breaker, row, cancelling, phase, restarts>>

(* The runtime returns: Cancelled only when the token was cancelled, but a *)
(* result or an error may win the race with the signal.                    *)
run_returns(w, outcome) ==
    /\ Alive /\ At(w, "running")
    /\ outcome = "cancelled" => w \in signalled
    /\ registry' = [registry EXCEPT ![worker[w].task] = None]   \* remove_cancellation
    /\ worker' = [worker EXCEPT ![w].pc = "ended", ![w].outcome = outcome]
    /\ UNCHANGED <<breaker, row, signalled, cancelling, phase, restarts>>

record_outcome(w) ==
    /\ Alive /\ At(w, "ended")
    /\ \/ worker[w].outcome = "ok" /\ record_success
       \/ worker[w].outcome = "retryable" /\ record_failure
       \/ worker[w].outcome \in {"fatal", "cancelled"} /\ UNCHANGED breaker
    (* a run cancelled by the shutdown: request_cancel on its own task     *)
    /\ LET t == worker[w].task IN
       row' = IF worker[w].outcome = "cancelled" /\ phase # "up" /\ row[t].status = "running"
              THEN [row EXCEPT ![t].status = "cancel_requested"]
              ELSE row
    /\ Goto(w, "recorded")
    /\ UNCHANGED <<registry, signalled, cancelling, phase, restarts>>

(* Mutant: a status that TaskStatus does not know.                         *)
ReleasedMisspelt(r, s) ==
    [r EXCEPT !.status = IF s = "cancelled" THEN "canceled" ELSE s,
              !.lease = "none", !.holder = None]

Released(r, s) == [r EXCEPT !.status = s, !.lease = "none", !.holder = None]

(* Mutant: the result of a cancelled run is kept.                          *)
FinishedUncancelled(r, outcome) == Released(r, IF outcome = "ok" THEN "succeeded" ELSE "failed")

Finished(r, outcome) ==
    IF r.status = "cancel_requested" THEN Released(r, "cancelled")
    ELSE IF outcome = "retryable" /\ r.attempts < MaxAttempts THEN Released(r, "queued")
    ELSE Released(r, IF outcome = "ok" THEN "succeeded" ELSE "failed")

(* Mutant: a worker that sees the shutdown does not finish its task.       *)
finish_task_unless_stopping(w) ==
    /\ Alive /\ At(w, "recorded")
    /\ LET t == worker[w].task IN
       row' = IF row[t].holder = w /\ row[t].lease = "valid" /\ phase = "up"
              THEN [row EXCEPT ![t] = Finished(@, worker[w].outcome)]
              ELSE row
    /\ Rest(w)
    /\ UNCHANGED <<breaker, registry, signalled, cancelling, phase, restarts>>

(* LeaseLost and a task already terminal are logged and forgotten.         *)
finish_task(w) ==
    /\ Alive /\ At(w, "recorded")
    /\ LET t == worker[w].task IN
       row' = IF row[t].holder = w /\ row[t].lease = "valid"
              THEN [row EXCEPT ![t] = Finished(@, worker[w].outcome)]
              ELSE row
    /\ Rest(w)
    /\ UNCHANGED <<breaker, registry, signalled, cancelling, phase, restarts>>

-----------------------------------------------------------------------------
(* The API, while the listener is open                                     *)

submit_task(t) ==
    /\ phase = "up"
    /\ row[t].status = "absent"
    /\ row' = [row EXCEPT ![t].status = "queued", ![t].ready = TRUE]
    /\ UNCHANGED <<breaker, worker, registry, signalled, cancelling, phase, restarts>>

(* cancel_task marks the row, then signals the token that is registered at *)
(* that moment, if any.                                                    *)
request_cancel(t) ==
    /\ phase = "up"
    /\ t \notin cancelling
    /\ row[t].status \in {"queued", "running", "cancel_requested"}
    /\ row' = [row EXCEPT ![t].status = IF @ = "queued" THEN "cancelled" ELSE "cancel_requested"]
    /\ cancelling' = cancelling \cup {t}
    /\ UNCHANGED <<breaker, worker, registry, signalled, phase, restarts>>

cancel_running(t) ==
    /\ Alive
    /\ t \in cancelling
    /\ cancelling' = cancelling \ {t}
    /\ signalled' = signalled \cup ({registry[t]} \ {None})
    /\ UNCHANGED <<breaker, row, worker, registry, phase, restarts>>

-----------------------------------------------------------------------------
(* serve: the listener drains its requests, then the workers are stopped   *)

shutdown ==
    /\ phase = "up" /\ cancelling = {}
    /\ phase' = "stopping"
    /\ UNCHANGED <<breaker, row, worker, registry, signalled, cancelling, restarts>>

cancel_all_running ==
    /\ phase = "stopping"
    /\ phase' = "draining"
    /\ signalled' = signalled \cup ({registry[t] : t \in Task} \ {None})
    /\ UNCHANGED <<breaker, row, worker, registry, cancelling, restarts>>

(* A worker that did not come back within five seconds is aborted.         *)
abort(w) ==
    /\ phase = "draining"
    /\ worker[w].pc \notin {"exited", "aborted"}
    /\ Goto(w, "aborted")
    /\ UNCHANGED <<breaker, row, registry, signalled, cancelling, phase, restarts>>

stop ==
    /\ phase = "draining"
    /\ \A w \in Worker : worker[w].pc \in {"exited", "aborted"}
    /\ phase' = "stopped"
    /\ UNCHANGED <<breaker, row, worker, registry, signalled, cancelling, restarts>>

(* The memory of a process that begins or is gone.                         *)
Forgotten ==
    /\ worker' = [w \in Worker |-> [pc |-> "top", task |-> None, outcome |-> None]]
    /\ registry' = [t \in Task |-> None]
    /\ signalled' = {}
    /\ cancelling' = {}

crash ==
    /\ Alive /\ restarts < MaxRestarts
    /\ phase' = "crashed"
    /\ row' = [t \in Task |-> [row[t] EXCEPT !.holder = None]]
    /\ Forgotten
    /\ UNCHANGED <<breaker, restarts>>

(* A new process: the breaker is loaded as it was left, the leases that    *)
(* have expired by now are recovered; whoever held the others is gone.     *)
start ==
    /\ ~Alive /\ restarts < MaxRestarts
    /\ restarts' = restarts + 1
    /\ phase' = "up"
    /\ row' = [t \in Task |->
                 IF row[t].lease = "expired"
                 THEN [Released(row[t], IF row[t].status = "cancel_requested"
                                        THEN "cancelled" ELSE "queued")
                       EXCEPT !.ready = TRUE]
                 ELSE [row[t] EXCEPT !.holder = None]]
    /\ Forgotten
    /\ UNCHANGED breaker

-----------------------------------------------------------------------------
(* Time                                                                    *)

window_elapses ==
    /\ WindowElapses
    /\ UNCHANGED <<row, worker, registry, signalled, cancelling, phase, restarts>>

backoff_elapses(t) ==
    /\ row[t].status = "queued" /\ ~row[t].ready
    /\ row' = [row EXCEPT ![t].ready = TRUE]
    /\ UNCHANGED <<breaker, worker, registry, signalled, cancelling, phase, restarts>>

lease_expires(t) ==
    /\ row[t].lease = "valid"
    /\ row' = [row EXCEPT ![t].lease = "expired"]
    /\ UNCHANGED <<breaker, worker, registry, signalled, cancelling, phase, restarts>>

-----------------------------------------------------------------------------
Init ==
    /\ InitBreaker
    /\ row = [t \in Task |-> Absent]
    /\ worker = [w \in Worker |-> [pc |-> "top", task |-> None, outcome |-> None]]
    /\ registry = [t \in Task |-> None]
    /\ signalled = {}
    /\ cancelling = {}
    /\ phase = "up"
    /\ restarts = 0

Step(w) ==
    \/ check_shutdown(w) \/ allow(w) \/ claim_empty(w) \/ claim_next(w)
    \/ register_cancellation(w)
    \/ \E outcome \in Outcome : run_returns(w, outcome)
    \/ record_outcome(w) \/ finish_task(w)

Next ==
    \/ \E w \in Worker : Step(w) \/ abort(w)
    \/ \E t \in Task : submit_task(t) \/ request_cancel(t) \/ cancel_running(t)
                       \/ backoff_elapses(t) \/ lease_expires(t)
    \/ shutdown \/ cancel_all_running \/ stop \/ crash \/ start \/ window_elapses

(* Every worker is a Tokio task that keeps being polled, and every run     *)
(* ends (execute bounds each await by the task's deadline); time passes;   *)
(* a request handler and serve run to their end.  Nobody has to submit,    *)
(* cancel, stop, crash or restart anything, and no lease has to expire.    *)
Fairness ==
    /\ \A w \in Worker : WF_vars(Step(w))
    /\ \A t \in Task : WF_vars(cancel_running(t)) /\ WF_vars(backoff_elapses(t))
    /\ WF_vars(window_elapses)
    /\ WF_vars(cancel_all_running)
    /\ WF_vars(stop)

Spec == Init /\ [][Next]_vars

FairSpec == Spec /\ Fairness

-----------------------------------------------------------------------------
(* Properties.                                                             *)

Executing == {w \in Worker : worker[w].pc \in {"claimed", "running", "ended", "recorded"}}

(* The breaker, the rows, the workers and the registry are of the shape    *)
(* the code gives them (CircuitState::parse, TaskStatus::parse, ApiState). *)
TypeOK ==
    /\ breaker \in Snapshot
    /\ row \in [Task -> Row]
    /\ worker \in [Worker -> [pc: {"top", "checked", "allowed", "claimed", "running", "ended",
                                   "recorded", "exited", "aborted"},
                              task: Task \cup {None}, outcome: Outcome \cup {None}]]
    /\ registry \in [Task -> Worker \cup {None}]
    /\ signalled \subseteq Worker
    /\ cancelling \subseteq Task
    /\ phase \in {"up", "stopping", "draining", "stopped", "crashed"}
    /\ restarts \in 0..MaxRestarts

(* No task is executed by two workers of the process at once, whatever     *)
(* leases expired and however the process was restarted, and the token     *)
(* that DELETE would cancel is the token of the worker that is running the *)
(* task (claim_next, register_cancellation, remove_cancellation,           *)
(* recover_expired_leases).                                                *)
ExclusiveExecution ==
    /\ \A v, w \in Executing : worker[v].task = worker[w].task => v = w
    /\ phase \in {"up", "stopping"} => \A t \in Task, w \in Worker :
          registry[t] = w <=> /\ worker[w].task = t
                              /\ At(w, "running")

(* When every worker came back within the shutdown window, no task of this *)
(* process is left running: what remains is a lease that had expired       *)
(* before the worker could finish, or the orphan of an earlier process     *)
(* (serve, ADR-025).                                                       *)
SettledStop ==
    (phase = "stopped" /\ \A w \in Worker : At(w, "exited")) =>
        \A t \in Task : row[t].lease = "valid" => row[t].holder = None

(* An open circuit is always probed after its window, or closed by a late  *)
(* success, as long as the process lives (allow).                          *)
OpenIsProbed ==
    breaker.state = "open" ~> (breaker.state # "open" \/ phase # "up")

(* A cancellation accepted for a running task takes effect even when the   *)
(* signal came before the token was registered: the task settles unless    *)
(* its lease expires first or the process stops (cancel_task,              *)
(* register_cancellation, finish_task).                                    *)
CancelSettles ==
    \A t \in Task :
        (row[t].status = "cancel_requested" /\ row[t].lease = "valid" /\ row[t].holder # None) ~>
            (row[t].status = "cancelled" \/ row[t].lease = "expired" \/ phase # "up")

(* V0.5_DESIGN.md, section 8: tasks stay queued while the circuit is open, *)
(* until the recovery window is over; then a probe decides.  So a queued   *)
(* task does not wait for ever in a process that lives.                    *)
QueuedIsServed ==
    \A t \in Task :
        row[t].status = "queued" ~> (row[t].status # "queued" \/ phase # "up")

(* ADR-025: the tasks that a coordinated stop interrupts end cancelled.    *)
(* Only a run that was asked to stop and did not may be cut off and leave  *)
(* its task running.                                                       *)
StopReachesEveryRun ==
    phase = "stopped" =>
        \A t \in Task : (registry[t] # None /\ row[t].status = "running")
                          => registry[t] \in signalled
=============================================================================
