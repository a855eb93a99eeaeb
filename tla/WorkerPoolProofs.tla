-------------------------- MODULE WorkerPoolProofs --------------------------
(* Proofs that the worker pool keeps its types, executes no task twice at  *)
(* once and leaves no task of its own running after a stop every worker    *)
(* answered, for any number of tasks, workers, attempts and restarts.      *)
EXTENDS WorkerPool, TLAPS

Busy == {"claimed", "running", "ended", "recorded"}

(* A worker that executes holds the lease of its task, and nobody executes *)
(* in a process that is gone.                                              *)
Held ==
    /\ \A w \in Worker : worker[w].pc \in Busy =>
          /\ Alive
          /\ worker[w].task \in Task
          /\ row[worker[w].task].holder = w
          /\ row[worker[w].task].status \in {"running", "cancel_requested"}

(* A lease that is valid and whose process lives is in the hands of the    *)
(* worker that executes the task, or of one that was aborted.              *)
Owned ==
    \A t \in Task : (row[t].lease = "valid" /\ row[t].holder # None) =>
        \/ worker[row[t].holder].pc = "aborted"
        \/ worker[row[t].holder].pc \in Busy /\ worker[row[t].holder].task = t

(* The token registered for a task is the token of the worker that runs    *)
(* it, as long as no worker is aborted.                                    *)
Registered ==
    phase \in {"up", "stopping"} => \A t \in Task, w \in Worker :
        registry[t] = w <=> worker[w].task = t /\ worker[w].pc = "running"

(* The inductive invariant.  ExclusiveExecution needs Held: two workers on *)
(* one task would both be the holder of its lease.  SettledStop needs      *)
(* Owned.                                                                  *)
IInv == TypeOK /\ Held /\ Owned /\ Registered

-----------------------------------------------------------------------------
(* The circuit breaker stays a snapshot, whatever it is told.              *)
LEMMA BreakerTyped ==
    ASSUME breaker \in Snapshot,
           \/ allow_closed \/ allow_probe \/ allow_blocked
           \/ record_success \/ record_failure \/ WindowElapses \/ UNCHANGED breaker
    PROVE  breaker' \in Snapshot
<1>1. CountFailure \in 0..Threshold
  BY ThresholdAssumption DEF Snapshot, CountFailure
<1>2. \A s \in {"closed", "open", "half_open"}, n \in 0..Threshold,
         q \in {"none", "waiting", "due"} :
         /\ [state |-> s, failures |-> n, probe |-> q] \in Snapshot
         /\ [breaker EXCEPT !.state = s, !.probe = q] \in Snapshot
         /\ [breaker EXCEPT !.probe = q] \in Snapshot
         /\ [breaker EXCEPT !.failures = n] \in Snapshot
  BY DEF Snapshot
<1>3. CASE allow_closed \/ allow_blocked \/ UNCHANGED breaker
  BY <1>3 DEF allow_closed, allow_blocked
<1>4. CASE allow_probe \/ WindowElapses
  BY <1>4, <1>2, <1>1 DEF allow_probe, WindowElapses
<1>5. CASE record_success
  <2>1. 0 \in 0..Threshold
    BY ThresholdAssumption
  <2> QED
    BY <1>5, <2>1 DEF record_success, Snapshot
<1>6. CASE record_failure
  BY <1>6, <1>2, <1>1 DEF record_failure
<1> QED
  BY <1>3, <1>4, <1>5, <1>6

(* The row that an ended execution leaves.                                 *)
LEMMA FinishedRow ==
    ASSUME NEW r \in Row, NEW outcome
    PROVE  Finished(r, outcome) \in Row /\ Finished(r, outcome).lease = "none"
BY DEF Finished, Released, Row

LEMMA InitInv == Init => IInv
<1> SUFFICES ASSUME Init PROVE IInv
  OBVIOUS
<1>1. breaker \in Snapshot
  BY ThresholdAssumption DEF Init, InitBreaker, Snapshot
<1>2. TypeOK
  BY <1>1, PoolAssumption DEF Init, TypeOK, Row, Absent, Outcome
<1>3. Held /\ Owned
  BY DEF Init, Held, Owned, Busy, Absent
<1>4. Registered
  BY PoolAssumption DEF Init, Registered
<1> QED
  BY <1>2, <1>3, <1>4 DEF IInv

-----------------------------------------------------------------------------
(* One lemma per action.                                                   *)

LEMMA CheckShutdownInv ==
    ASSUME IInv, NEW w \in Worker, check_shutdown(w)
    PROVE  IInv'
<1>1. TypeOK'
  <2>1. worker' = [worker EXCEPT ![w].pc = "checked"] \/ worker' = [worker EXCEPT ![w].pc = "exited"]
    BY DEF check_shutdown, Goto
  <2> QED
    BY <2>1 DEF IInv, TypeOK, check_shutdown
<1>2. Held' /\ Owned'
  BY DEF IInv, TypeOK, Held, Owned, check_shutdown, Goto, At, Alive, Busy, Row
<1>3. Registered'
  BY DEF IInv, TypeOK, Registered, check_shutdown, Goto, At
<1> QED
  BY <1>1, <1>2, <1>3 DEF IInv

LEMMA AllowInv ==
    ASSUME IInv, NEW w \in Worker, allow(w)
    PROVE  IInv'
<1>0. breaker' \in Snapshot
  BY BreakerTyped DEF IInv, TypeOK, allow
<1>1. TypeOK'
  <2>1. worker' = [worker EXCEPT ![w].pc = "allowed"] \/ worker' = [worker EXCEPT ![w].pc = "top"]
    BY DEF allow, Goto
  <2> QED
    BY <1>0, <2>1 DEF IInv, TypeOK, allow
<1>2. Held' /\ Owned'
  BY DEF IInv, TypeOK, Held, Owned, allow, Goto, At, Alive, Busy, Row
<1>3. Registered'
  BY DEF IInv, TypeOK, Registered, allow, Goto, At
<1> QED
  BY <1>1, <1>2, <1>3 DEF IInv

LEMMA ClaimEmptyInv ==
    ASSUME IInv, NEW w \in Worker, claim_empty(w)
    PROVE  IInv'
<1>1. TypeOK'
  BY DEF IInv, TypeOK, claim_empty, Goto
<1>2. Held' /\ Owned'
  BY DEF IInv, TypeOK, Held, Owned, claim_empty, Goto, At, Alive, Busy, Row
<1>3. Registered'
  BY DEF IInv, TypeOK, Registered, claim_empty, Goto, At
<1> QED
  BY <1>1, <1>2, <1>3 DEF IInv

LEMMA ClaimNextInv ==
    ASSUME IInv, NEW w \in Worker, claim_next(w)
    PROVE  IInv'
<1>1. PICK t \in Claimable :
         /\ row' = [row EXCEPT ![t] = [status |-> "running", attempts |-> @.attempts + 1,
                                       ready |-> FALSE, lease |-> "valid", holder |-> w]]
         /\ worker' = [worker EXCEPT ![w].pc = "claimed", ![w].task = t]
  BY DEF claim_next
<1>2. t \in Task /\ row[t] \in Row /\ row[t].status = "queued"
  BY DEF Claimable, IInv, TypeOK
<1>3. row'[t] = [status |-> "running", attempts |-> row[t].attempts + 1,
                 ready |-> FALSE, lease |-> "valid", holder |-> w]
  BY <1>1, <1>2 DEF IInv, TypeOK
<1>4. row'[t] \in Row /\ \A u \in Task : u # t => row'[u] = row[u]
  BY <1>1, <1>2, <1>3 DEF IInv, TypeOK, Row
<1>5. /\ worker'[w].pc = "claimed" /\ worker'[w].task = t
      /\ \A v \in Worker : v # w => worker'[v] = worker[v]
      /\ worker' \in [Worker -> [pc: {"top", "checked", "allowed", "claimed", "running", "ended",
                                      "recorded", "exited", "aborted"},
                                 task: Task \cup {None}, outcome: Outcome \cup {None}]]
  BY <1>1, <1>2 DEF IInv, TypeOK
<1>6. TypeOK'
  <2>1. row' \in [Task -> Row]
    BY <1>1, <1>2, <1>4 DEF IInv, TypeOK
  <2> QED
    BY <1>5, <2>1 DEF IInv, TypeOK, claim_next, Snapshot
<1>7. Held'
  <2>1. \A v \in Worker : v # w /\ worker[v].pc \in Busy => worker[v].task # t
    BY <1>2 DEF IInv, Held
  <2> QED
    BY <1>2, <1>3, <1>4, <1>5, <2>1 DEF IInv, Held, claim_next, Alive, Busy
<1>8. Owned'
  <2> SUFFICES ASSUME NEW u \in Task, row'[u].lease = "valid", row'[u].holder # None
               PROVE  \/ worker'[row'[u].holder].pc = "aborted"
                      \/ worker'[row'[u].holder].pc \in Busy /\ worker'[row'[u].holder].task = u
    BY DEF Owned
  <2>1. CASE u = t
    BY <2>1, <1>3, <1>5 DEF Busy
  <2>2. CASE u # t
    <3>1. row'[u] = row[u] /\ row[u].holder \in Worker
      BY <2>2, <1>4 DEF IInv, TypeOK, Row
    <3>2. row[u].holder # w
      BY <3>1 DEF IInv, Owned, claim_next, At, Busy
    <3> QED
      BY <3>1, <3>2, <1>5 DEF IInv, Owned
  <2> QED
    BY <2>1, <2>2
<1>9. Registered'
  BY <1>5 DEF IInv, TypeOK, Registered, claim_next, At
<1> QED
  BY <1>6, <1>7, <1>8, <1>9 DEF IInv

LEMMA RegisterInv ==
    ASSUME IInv, NEW w \in Worker, register_cancellation(w)
    PROVE  IInv'
<1>1. /\ worker[w].task \in Task /\ worker[w].pc = "claimed"
      /\ \A v \in Worker : v # w /\ worker[v].pc \in Busy => worker[v].task # worker[w].task
  BY DEF IInv, Held, register_cancellation, At, Busy
<1>2. TypeOK'
  BY <1>1 DEF IInv, TypeOK, register_cancellation, Goto
<1>3. Held' /\ Owned'
  BY DEF IInv, TypeOK, Held, Owned, register_cancellation, Goto, At, Alive, Busy, Row
<1>4. Registered'
  BY <1>1 DEF IInv, TypeOK, Registered, register_cancellation, Goto, Busy
<1> QED
  BY <1>2, <1>3, <1>4 DEF IInv

LEMMA RunReturnsInv ==
    ASSUME IInv, NEW w \in Worker, NEW outcome \in Outcome, run_returns(w, outcome)
    PROVE  IInv'
<1>1. /\ worker[w].task \in Task /\ worker[w].pc = "running"
      /\ \A v \in Worker : v # w /\ worker[v].pc \in Busy => worker[v].task # worker[w].task
  BY DEF IInv, Held, run_returns, At, Busy
<1>2. TypeOK'
  BY <1>1 DEF IInv, TypeOK, run_returns
<1>3. Held' /\ Owned'
  BY DEF IInv, TypeOK, Held, Owned, run_returns, At, Alive, Busy, Row
<1>4. Registered'
  BY <1>1, PoolAssumption DEF IInv, TypeOK, Registered, run_returns, Busy
<1> QED
  BY <1>2, <1>3, <1>4 DEF IInv

LEMMA RecordOutcomeInv ==
    ASSUME IInv, NEW w \in Worker, record_outcome(w)
    PROVE  IInv'
<1> DEFINE t == worker[w].task
<1>1. breaker' \in Snapshot
  BY BreakerTyped DEF IInv, TypeOK, record_outcome
<1>2. t \in Task /\ row[t] \in Row
  BY DEF IInv, TypeOK, Held, record_outcome, At, Busy
<1>3. /\ row' \in [Task -> Row]
      /\ \A u \in Task : /\ row'[u].lease = row[u].lease /\ row'[u].holder = row[u].holder
                         /\ \/ row'[u].status = row[u].status
                            \/ row[u].status = "running" /\ row'[u].status = "cancel_requested"
  <2>1. CASE row' = row
    BY <2>1 DEF IInv, TypeOK
  <2>2. CASE row[t].status = "running" /\ row' = [row EXCEPT ![t].status = "cancel_requested"]
    <3>1. row'[t] = [row[t] EXCEPT !.status = "cancel_requested"]
          /\ \A u \in Task : u # t => row'[u] = row[u]
      BY <2>2, <1>2 DEF IInv, TypeOK
    <3>2. row'[t] \in Row
      BY <3>1, <1>2 DEF Row
    <3>3. row' \in [Task -> Row]
      BY <3>1, <3>2, <2>2 DEF IInv, TypeOK
    <3>4. /\ row'[t].lease = row[t].lease /\ row'[t].holder = row[t].holder
          /\ row'[t].status = "cancel_requested"
      BY <3>1, <1>2 DEF Row
    <3> QED
      BY <3>1, <3>3, <3>4, <2>2
  <2> QED
    BY <2>1, <2>2 DEF record_outcome
<1>4. TypeOK'
  BY <1>1, <1>3 DEF IInv, TypeOK, record_outcome, Goto
<1>5. /\ worker'[w].pc = "recorded" /\ worker[w].pc = "ended"
      /\ \A v \in Worker : worker'[v].task = worker[v].task
      /\ \A v \in Worker : v # w => worker'[v] = worker[v]
  BY DEF IInv, TypeOK, record_outcome, Goto, At
<1>5a. Held'
  BY <1>3, <1>5 DEF IInv, Held, record_outcome, Alive, Busy
<1>5b. Owned'
  <2> SUFFICES ASSUME NEW u \in Task, row'[u].lease = "valid", row'[u].holder # None
               PROVE  \/ worker'[row'[u].holder].pc = "aborted"
                      \/ worker'[row'[u].holder].pc \in Busy /\ worker'[row'[u].holder].task = u
    BY DEF Owned
  <2>1. row'[u].holder = row[u].holder /\ row[u].lease = "valid" /\ row[u].holder \in Worker
    BY <1>3 DEF IInv, TypeOK, Row
  <2> QED
    BY <2>1, <1>5 DEF IInv, Owned, Busy
<1>6. Registered'
  BY DEF IInv, TypeOK, Registered, record_outcome, Goto, At
<1> QED
  BY <1>4, <1>5a, <1>5b, <1>6 DEF IInv

LEMMA FinishTaskInv ==
    ASSUME IInv, NEW w \in Worker, finish_task(w)
    PROVE  IInv'
<1> DEFINE t == worker[w].task
<1>1. /\ t \in Task /\ row[t] \in Row /\ row[t].holder = w
      /\ \A v \in Worker : v # w /\ worker[v].pc \in Busy => worker[v].task # t
  BY DEF IInv, TypeOK, Held, finish_task, At, Busy
<1>2. /\ row' \in [Task -> Row]
      /\ \A u \in Task : u # t => row'[u] = row[u]
      /\ row'[t].lease # "valid"
  <2>1. CASE row[t].lease = "valid"
    <3>1. row' = [row EXCEPT ![t] = Finished(@, worker[w].outcome)]
      BY <2>1, <1>1 DEF finish_task
    <3>2. Finished(row[t], worker[w].outcome) \in Row
          /\ Finished(row[t], worker[w].outcome).lease = "none"
      BY <1>1, FinishedRow
    <3> QED
      BY <1>1, <3>1, <3>2 DEF IInv, TypeOK
  <2>2. CASE row[t].lease # "valid"
    BY <2>2, <1>1 DEF finish_task, IInv, TypeOK
  <2> QED
    BY <2>1, <2>2
<1>3. /\ worker'[w].pc = "top" /\ worker'[w].task = None
      /\ \A v \in Worker : v # w => worker'[v] = worker[v]
      /\ worker' \in [Worker -> [pc: {"top", "checked", "allowed", "claimed", "running", "ended",
                                      "recorded", "exited", "aborted"},
                                 task: Task \cup {None}, outcome: Outcome \cup {None}]]
  BY DEF IInv, TypeOK, finish_task, Rest
<1>4. TypeOK'
  BY <1>2, <1>3 DEF IInv, TypeOK, finish_task, Snapshot
<1>5. Held'
  BY <1>1, <1>2, <1>3 DEF IInv, Held, finish_task, Alive, Busy
<1>6. Owned'
  <2> SUFFICES ASSUME NEW u \in Task, row'[u].lease = "valid", row'[u].holder # None
               PROVE  \/ worker'[row'[u].holder].pc = "aborted"
                      \/ worker'[row'[u].holder].pc \in Busy /\ worker'[row'[u].holder].task = u
    BY DEF Owned
  <2>1. u # t /\ row'[u] = row[u] /\ row[u].holder \in Worker
    BY <1>2 DEF IInv, TypeOK, Row
  <2>2. row[u].holder # w
    BY <2>1 DEF IInv, Owned, finish_task, At, Busy
  <2> QED
    BY <2>1, <2>2, <1>3 DEF IInv, Owned
<1>7. Registered'
  BY <1>3, PoolAssumption DEF IInv, TypeOK, Registered, finish_task, At
<1> QED
  BY <1>4, <1>5, <1>6, <1>7 DEF IInv

LEMMA AbortInv ==
    ASSUME IInv, NEW w \in Worker, abort(w)
    PROVE  IInv'
<1>1. TypeOK'
  BY DEF IInv, TypeOK, abort, Goto
<1>2. Held' /\ Owned'
  BY DEF IInv, TypeOK, Held, Owned, abort, Goto, Alive, Busy, Row
<1>3. Registered'
  BY DEF Registered, abort
<1> QED
  BY <1>1, <1>2, <1>3 DEF IInv

(* What an operation on one row leaves alone.                              *)
LEMMA RowInv ==
    ASSUME IInv, NEW t \in Task, row' \in [Task -> Row],
           \A u \in Task : u # t => row'[u] = row[u],
           row'[t].holder = row[t].holder,
           row'[t].lease = "valid" => row[t].lease = "valid",
           row[t].status \in {"running", "cancel_requested"} =>
               row'[t].status \in {"running", "cancel_requested"},
           UNCHANGED <<breaker, worker, registry, signalled, phase, restarts>>,
           cancelling' \subseteq Task
    PROVE  IInv'
<1>1. TypeOK'
  BY DEF IInv, TypeOK
<1>2. Held'
  BY DEF IInv, Held, Alive
<1>3. Owned'
  BY DEF IInv, Owned
<1>4. Registered'
  BY DEF IInv, Registered
<1> QED
  BY <1>1, <1>2, <1>3, <1>4 DEF IInv

LEMMA RequestInv ==
    ASSUME IInv, NEW t \in Task,
           \/ submit_task(t) \/ request_cancel(t) \/ backoff_elapses(t) \/ lease_expires(t)
    PROVE  IInv'
<1>1. CASE submit_task(t)
  <2>1. row[t] \in Row /\ row'[t] = [row[t] EXCEPT !.status = "queued", !.ready = TRUE]
        /\ \A u \in Task : u # t => row'[u] = row[u]
    BY <1>1 DEF submit_task, IInv, TypeOK
  <2>2. row'[t] \in Row /\ row'[t].holder = row[t].holder /\ row'[t].lease = row[t].lease
    BY <2>1 DEF Row
  <2>3. row' \in [Task -> Row]
    BY <1>1, <2>1, <2>2 DEF submit_task, IInv, TypeOK
  <2> QED
    BY <1>1, <2>1, <2>2, <2>3, RowInv DEF IInv, TypeOK, submit_task
<1>2. CASE request_cancel(t)
  BY <1>2, RowInv DEF IInv, TypeOK, Row, request_cancel
<1>3. CASE backoff_elapses(t)
  BY <1>3, RowInv DEF IInv, TypeOK, Row, backoff_elapses
<1>4. CASE lease_expires(t)
  BY <1>4, RowInv DEF IInv, TypeOK, Row, lease_expires
<1> QED
  BY <1>1, <1>2, <1>3, <1>4

LEMMA CancelRunningInv ==
    ASSUME IInv, NEW t \in Task, cancel_running(t)
    PROVE  IInv'
<1>1. TypeOK'
  BY DEF IInv, TypeOK, cancel_running
<1> QED
  BY <1>1 DEF IInv, Held, Owned, Registered, cancel_running, Alive

LEMMA ShutdownInv ==
    ASSUME IInv, shutdown \/ cancel_all_running \/ stop \/ window_elapses
    PROVE  IInv'
<1>1. breaker' \in Snapshot
  BY BreakerTyped DEF IInv, TypeOK, shutdown, cancel_all_running, stop, window_elapses
<1>2. TypeOK'
  BY <1>1 DEF IInv, TypeOK, shutdown, cancel_all_running, stop, window_elapses
<1>3. Held'
  BY DEF IInv, Held, shutdown, cancel_all_running, stop, window_elapses, Alive, Busy
<1>4. Owned' /\ Registered'
  BY DEF IInv, Owned, Registered, shutdown, cancel_all_running, stop, window_elapses
<1> QED
  BY <1>2, <1>3, <1>4 DEF IInv

(* A new memory holds no lease and no token.                               *)
LEMMA ForgottenInv ==
    ASSUME IInv, Forgotten, row' \in [Task -> Row], breaker' \in Snapshot,
           \A t \in Task : row'[t].lease = "valid" => row'[t].holder = None,
           phase' \in {"up", "crashed"}, restarts' \in 0..MaxRestarts
    PROVE  IInv'
<1>1. TypeOK'
  BY DEF Forgotten, TypeOK, Outcome
<1>2. Held' /\ Owned'
  BY DEF Held, Owned, Forgotten, Busy
<1>3. Registered'
  BY PoolAssumption DEF Registered, Forgotten
<1> QED
  BY <1>1, <1>2, <1>3 DEF IInv

LEMMA RestartInv ==
    ASSUME IInv, crash \/ start
    PROVE  IInv'
<1>1. CASE crash
  <2>1. row' \in [Task -> Row] /\ \A t \in Task : row'[t].holder = None
    <3>1. ASSUME NEW t \in Task PROVE row'[t] \in Row /\ row'[t].holder = None
      BY <1>1 DEF crash, IInv, TypeOK, Row
    <3> QED
      BY <1>1, <3>1 DEF crash
  <2> QED
    BY <1>1, <2>1, ForgottenInv DEF crash, IInv, TypeOK
<1>2. CASE start
  <2>1. row' \in [Task -> Row] /\ \A t \in Task : row'[t].holder = None
    <3>1. ASSUME NEW t \in Task PROVE row'[t] \in Row /\ row'[t].holder = None
      <4>1. row[t] \in Row
        BY DEF IInv, TypeOK
      <4>2. \A s \in {"cancelled", "queued"} :
               /\ [Released(row[t], s) EXCEPT !.ready = TRUE] \in Row
               /\ [Released(row[t], s) EXCEPT !.ready = TRUE].holder = None
        BY <4>1 DEF Row, Released
      <4>3. /\ [row[t] EXCEPT !.holder = None] \in Row
            /\ [row[t] EXCEPT !.holder = None].holder = None
        BY <4>1 DEF Row
      <4> QED
        BY <1>2, <4>2, <4>3 DEF start
    <3> QED
      BY <1>2, <3>1 DEF start
  <2>2. restarts' \in 0..MaxRestarts
    BY <1>2, PoolAssumption DEF start, IInv, TypeOK
  <2> QED
    BY <1>2, <2>1, <2>2, ForgottenInv DEF start, IInv, TypeOK
<1> QED
  BY <1>1, <1>2

-----------------------------------------------------------------------------
LEMMA StepInv ==
    ASSUME IInv, [Next]_vars
    PROVE  IInv'
<1>1. CASE UNCHANGED vars
  BY <1>1 DEF vars, IInv, TypeOK, Held, Owned, Registered, Alive
<1>2. ASSUME NEW w \in Worker, Step(w) PROVE IInv'
  BY <1>2, CheckShutdownInv, AllowInv, ClaimEmptyInv, ClaimNextInv, RegisterInv,
     RunReturnsInv, RecordOutcomeInv, FinishTaskInv DEF Step
<1>3. ASSUME NEW w \in Worker, abort(w) PROVE IInv'
  BY <1>3, AbortInv
<1>4. ASSUME NEW t \in Task,
             submit_task(t) \/ request_cancel(t) \/ cancel_running(t)
             \/ backoff_elapses(t) \/ lease_expires(t)
      PROVE  IInv'
  BY <1>4, RequestInv, CancelRunningInv
<1>5. CASE shutdown \/ cancel_all_running \/ stop \/ window_elapses
  BY <1>5, ShutdownInv
<1>6. CASE crash \/ start
  BY <1>6, RestartInv
<1> QED
  BY <1>1, <1>2, <1>3, <1>4, <1>5, <1>6 DEF Next

LEMMA Invariance == Spec => []IInv
BY InitInv, StepInv, PTL DEF Spec

(* The breaker, the rows, the workers and the registry keep the shape the  *)
(* code gives them, through crashes and restarts.                          *)
THEOREM TypeCorrect == Spec => []TypeOK
BY Invariance, PTL DEF IInv

(* worker_loop and execute_task: no two workers execute one task, and a    *)
(* registered token is the token of the worker that runs the task.         *)
THEOREM ExecutionIsExclusive == Spec => []ExclusiveExecution
<1>1. IInv => ExclusiveExecution
  BY DEF IInv, Held, Registered, ExclusiveExecution, Executing, At, Busy
<1> QED
  BY <1>1, Invariance, PTL

(* serve: when every worker came back, no lease of this process is left.   *)
THEOREM StopSettles == Spec => []SettledStop
<1>1. IInv => SettledStop
  BY DEF IInv, TypeOK, Row, Owned, SettledStop, At, Busy
<1> QED
  BY <1>1, Invariance, PTL
=============================================================================
