----------------------------- MODULE QueueStore -----------------------------
(***************************************************************************)
(* The SQLite task queue of crates/shaka-queue/src/lib.rs, for tasks       *)
(* without a plan.  Every public operation of QueueStore takes the         *)
(* connection mutex and runs one IMMEDIATE transaction, so it is one       *)
(* action here.  An error return drops the transaction: the outcomes that  *)
(* write nothing are actions that leave vars unchanged.                    *)
(*                                                                         *)
(* Callers read the wall clock BEFORE they wait for the mutex              *)
(* (worker_loop, execute_task, submit), so an operation runs with a `now'  *)
(* that may be behind the clock.  A worker keeps the lease it was given    *)
(* for ever: every lease ever issued may come back, late or twice, in a    *)
(* call of finish_task.                                                    *)
(***************************************************************************)
EXTENDS Integers, FiniteSets, FiniteSetsExt

CONSTANTS
    Task,              \* task ids that submissions may create
    Tenant, Operator,  \* principals; an operator belongs to one tenant
    Key, Fingerprint,  \* Idempotency-Key values, fingerprints of the request
    Cost,              \* budget.max_cost_microunits of an envelope
    Priority,          \* priorities a submission may ask for
    MaxAttempts,       \* max_attempts a submission may ask for
    LeaseFor, BaseDelay, MaxDelay,            \* ApiConfig
    MaxActive, MaxDaily, MaxDailyCost,        \* TenantLimits
    RequestsPerWindow, WindowLen, DayLen,
    MaxClock, MaxLag, MaxTokens               \* bounds of the model

CONSTANT TenantOf(_)

ASSUME ConstantsAssumption ==
    /\ Cost \subseteq Nat
    /\ Priority \subseteq Int
    /\ MaxAttempts \subseteq 1..10
    /\ LeaseFor \in Nat \ {0}
    /\ BaseDelay \in Nat
    /\ MaxDelay \in Nat
    /\ {MaxActive, MaxDaily, MaxDailyCost, RequestsPerWindow} \subseteq Nat
    /\ {WindowLen, DayLen} \subseteq Nat \ {0}
    /\ {MaxClock, MaxLag, MaxTokens} \subseteq Nat
    /\ \A o \in Operator : TenantOf(o) \in Tenant

VARIABLES
    task,       \* api_tasks: one row per task id, "absent" when there is none
    rate,       \* api_rate_windows: admissions per scope and window
    clock,      \* the wall clock
    nextToken,  \* LeaseToken::new() gives a token never given before
    leases,     \* leases handed to workers, kept by them (not in the store)
    recovered   \* history: how often the lease of a task was recovered

vars == <<task, rate, clock, nextToken, leases, recovered>>

-----------------------------------------------------------------------------
(* Task rows.                                                              *)

Active   == {"queued", "running", "cancel_requested"}
Terminal == {"succeeded", "failed", "cancelled"}
Status   == Active \cup Terminal

NoToken  == 0   \* lease_token IS NULL
NoLease  == 0   \* lease_until IS NULL
NoResult == 0   \* result_json IS NULL; otherwise the lease that produced it

Row == [status: Status, operator: Operator, key: Key, fingerprint: Fingerprint,
        cost: Cost, priority: Priority, max_attempts: MaxAttempts,
        attempts: Nat, next_attempt_at: Nat, created_at: Nat,
        cancel_requested: BOOLEAN, lease_until: Nat, lease_token: Nat,
        result: Nat]

Absent == [status |-> "absent"]

Stored == {t \in Task : task[t].status # "absent"}

Of(tn) == {t \in Stored : TenantOf(task[t].operator) = tn}

ActiveOf(tn) == {t \in Of(tn) : task[t].status \in Active}

(* `now' of an operation that starts waiting at most MaxLag before it runs *)
Now == {n \in 0..clock : clock - n <= MaxLag}

-----------------------------------------------------------------------------
(* Admission: submit_task_governed_with_plan_and_provenance, no plan.      *)

(* fixed_window_start: the window is named by its first instant            *)
fixed_window_start(now) == now - (now % WindowLen)

day_start(now) == now - (now % DayLen)

Scope == Tenant \cup Operator

ScopesOf(op) == {TenantOf(op), op}

(* Tasks created since the start of the day `now' falls in                 *)
Today(tn, now) == {t \in Of(tn) : task[t].created_at >= day_start(now)}

(* SUM(max_cost_microunits) over a set of rows *)
CostOf(S) == SumFunction([t \in S |-> task[t].cost])

daily_cost(tn, now) == CostOf(Today(tn, now))

(* Mutant: the key is looked up per operator, not per tenant.              *)
SameKeyOfOperator(op, k) == {t \in Stored : task[t].operator = op /\ task[t].key = k}

SameKey(op, k) == {t \in Of(TenantOf(op)) : task[t].key = k}

RateFull(op, now) ==
    \E s \in ScopesOf(op) : rate[s][fixed_window_start(now)] >= RequestsPerWindow

(* Mutant: one active task too many.                                       *)
QuotaFullOffByOne(op, c, now) ==
    LET tn == TenantOf(op) IN
    \/ Cardinality(ActiveOf(tn)) > MaxActive
    \/ Cardinality(Today(tn, now)) >= MaxDaily
    \/ daily_cost(tn, now) + c > MaxDailyCost

QuotaFull(op, c, now) ==
    LET tn == TenantOf(op) IN
    \/ Cardinality(ActiveOf(tn)) >= MaxActive
    \/ Cardinality(Today(tn, now)) >= MaxDaily
    \/ daily_cost(tn, now) + c > MaxDailyCost

NewRow(op, k, fp, c, p, m, now) ==
    [status |-> "queued", operator |-> op, key |-> k, fingerprint |-> fp,
     cost |-> c, priority |-> p, max_attempts |-> m,
     attempts |-> 0, next_attempt_at |-> now, created_at |-> now,
     cancel_requested |-> FALSE, lease_until |-> NoLease,
     lease_token |-> NoToken, result |-> NoResult]

Charge(op, now) ==
    [s \in Scope |-> IF s \in ScopesOf(op)
                     THEN [rate[s] EXCEPT ![fixed_window_start(now)] = @ + 1]
                     ELSE rate[s]]

(* The session of the request belongs to another operator.                 *)
submit_forbidden(op, owner) ==
    /\ owner # op
    /\ UNCHANGED vars

(* The idempotency key is known: looked up before any limit is, the rate   *)
(* limit included (API_CONTRACTS.md:215 says otherwise of the latter).     *)
submit_replay(op, k, fp) ==
    \E t \in SameKey(op, k) :
        /\ task[t].fingerprint = fp
        /\ UNCHANGED vars

submit_conflict(op, k, fp) ==
    \E t \in SameKey(op, k) :
        /\ task[t].fingerprint # fp
        /\ UNCHANGED vars

submit_rate_limited(op, k, now) ==
    /\ SameKey(op, k) = {}
    /\ RateFull(op, now)
    /\ UNCHANGED vars

(* Mutant: the rejection commits the counters.                             *)
submit_over_quota_committed(op, k, c, now) ==
    /\ SameKey(op, k) = {}
    /\ ~RateFull(op, now)
    /\ QuotaFull(op, c, now)
    /\ rate' = Charge(op, now)
    /\ UNCHANGED <<task, clock, nextToken, leases, recovered>>

(* The rate counters were incremented by then; the rollback undoes that.   *)
submit_over_quota(op, k, c, now) ==
    /\ SameKey(op, k) = {}
    /\ ~RateFull(op, now)
    /\ QuotaFull(op, c, now)
    /\ UNCHANGED vars

submit_created(op, k, fp, c, p, m, now) ==
    /\ SameKey(op, k) = {}
    /\ ~RateFull(op, now)
    /\ ~QuotaFull(op, c, now)
    /\ \E t \in Task \ Stored :
          task' = [task EXCEPT ![t] = NewRow(op, k, fp, c, p, m, now)]
    /\ rate' = Charge(op, now)
    /\ UNCHANGED <<clock, nextToken, leases, recovered>>

submit_task(op, now) ==
    \/ \E owner \in Operator : submit_forbidden(op, owner)
    \/ \E k \in Key :
          \/ \E fp \in Fingerprint : submit_replay(op, k, fp) \/ submit_conflict(op, k, fp)
          \/ submit_rate_limited(op, k, now)
          \/ \E c \in Cost : submit_over_quota(op, k, c, now)
          \/ \E fp \in Fingerprint, c \in Cost, p \in Priority, m \in MaxAttempts :
                submit_created(op, k, fp, c, p, m, now)

-----------------------------------------------------------------------------
(* Claim.                                                                  *)

Claimable(now) ==
    {t \in Stored : /\ task[t].status = "queued"
                    /\ ~task[t].cancel_requested
                    /\ task[t].next_attempt_at <= now}

(* ORDER BY priority DESC, created_at ASC *)
Before(a, b) ==
    \/ task[a].priority > task[b].priority
    \/ /\ task[a].priority = task[b].priority
       /\ task[a].created_at < task[b].created_at

claim_empty(now) ==
    /\ Claimable(now) = {}
    /\ UNCHANGED vars

(* Mutant: two claims may be given the same token.                         *)
claim_task_same_token(t, now) ==
    /\ t \in Claimable(now)
    /\ task' = [task EXCEPT ![t].status = "running", ![t].attempts = @ + 1,
                            ![t].lease_until = now + LeaseFor, ![t].lease_token = nextToken]
    /\ leases' = leases \cup {[task |-> t, token |-> nextToken]}
    /\ UNCHANGED <<rate, clock, nextToken, recovered>>

claim_task(t, now) ==
    /\ t \in Claimable(now)
    /\ \A u \in Claimable(now) : ~Before(u, t)
    /\ nextToken <= MaxTokens
    /\ task' = [task EXCEPT ![t].status = "running",
                            ![t].attempts = @ + 1,
                            ![t].lease_until = now + LeaseFor,
                            ![t].lease_token = nextToken]
    /\ nextToken' = nextToken + 1
    /\ leases' = leases \cup {[task |-> t, token |-> nextToken]}
    /\ UNCHANGED <<rate, clock, recovered>>

claim_next(now) == claim_empty(now) \/ \E t \in Task : claim_task(t, now)

-----------------------------------------------------------------------------
(* Cancellation and completion.                                            *)

(* Mutant: no early return for a task that has ended.                      *)
request_cancel_ended(t) ==
    /\ t \in Stored
    /\ task' = [task EXCEPT ![t].status = IF @ \in {"running", "cancel_requested"}
                                          THEN "cancel_requested" ELSE "cancelled",
                            ![t].cancel_requested = TRUE]
    /\ UNCHANGED <<rate, clock, nextToken, leases, recovered>>

request_cancel(t) ==
    /\ t \in Stored
    /\ task' = CASE task[t].status = "queued" ->
                      [task EXCEPT ![t].status = "cancelled",
                                   ![t].cancel_requested = TRUE]
                 [] task[t].status \in {"running", "cancel_requested"} ->
                      [task EXCEPT ![t].status = "cancel_requested",
                                   ![t].cancel_requested = TRUE]
                 [] OTHER -> task
    /\ UNCHANGED <<rate, clock, nextToken, leases, recovered>>

(* min(base * 2^min(attempts - 1, 10), max), with the shift as a table     *)
Multiplier == <<1, 2, 4, 8, 16, 32, 64, 128, 256, 512, 1024>>

Backoff(attempts) ==
    LET exponent == IF attempts = 0 THEN 0
                    ELSE IF attempts - 1 < 10 THEN attempts - 1 ELSE 10
        delay == BaseDelay * Multiplier[exponent + 1]
    IN  IF delay < MaxDelay THEN delay ELSE MaxDelay

(* Mutant: a status that TaskStatus does not know.                         *)
ReleaseMisspelt(t, s) ==
    [task[t] EXCEPT !.status = IF s = "cancelled" THEN "canceled" ELSE s,
                    !.lease_until = NoLease, !.lease_token = NoToken]

Release(t, s) ==
    [task[t] EXCEPT !.status = s, !.lease_until = NoLease, !.lease_token = NoToken]

(* Mutant: the deadline is checked, the token is not.                      *)
LeaseLostByTime(l, now) ==
    task[l.task].lease_until = NoLease \/ task[l.task].lease_until <= now

LeaseLost(l, now) ==
    \/ task[l.task].lease_token # l.token
    \/ task[l.task].lease_until = NoLease
    \/ task[l.task].lease_until <= now

(* Mutants: the result of a cancelled run is kept; one retry too many.     *)
FinishedUncancelled(l, outcome, now) ==
    IF outcome = "ok" THEN [Release(l.task, "succeeded") EXCEPT !.result = l.token]
                      ELSE Release(l.task, "failed")

FinishedOnceMore(l, outcome, now) ==
    LET r == task[l.task] IN
    IF r.cancel_requested THEN Release(l.task, "cancelled")
    ELSE IF outcome = "retryable" /\ r.attempts <= r.max_attempts
    THEN [Release(l.task, "queued") EXCEPT !.next_attempt_at = now + Backoff(r.attempts)]
    ELSE Release(l.task, "failed")

(* The row after the holder of l finished with `outcome': "ok",            *)
(* "error" (final) or "retryable".                                         *)
Finished(l, outcome, now) ==
    LET t == l.task
        r == task[t]
    IN  IF r.cancel_requested \/ r.status = "cancel_requested"
        THEN [Release(t, "cancelled") EXCEPT !.cancel_requested = TRUE]
        ELSE IF outcome = "retryable" /\ r.attempts < r.max_attempts
        THEN [Release(t, "queued") EXCEPT !.next_attempt_at = now + Backoff(r.attempts),
                                          !.result = NoResult]
        ELSE IF outcome = "ok"
        THEN [Release(t, "succeeded") EXCEPT !.result = l.token]
        ELSE [Release(t, "failed") EXCEPT !.result = NoResult]

finish_terminal(l) ==
    /\ task[l.task].status \in Terminal
    /\ UNCHANGED vars

finish_lease_lost(l, now) ==
    /\ task[l.task].status \notin Terminal
    /\ LeaseLost(l, now)
    /\ UNCHANGED vars

finish_held(l, outcome, now) ==
    /\ task[l.task].status \notin Terminal
    /\ ~LeaseLost(l, now)
    /\ task' = [task EXCEPT ![l.task] = Finished(l, outcome, now)]
    /\ UNCHANGED <<rate, clock, nextToken, leases, recovered>>

finish_task(l, now) ==
    \/ finish_terminal(l)
    \/ finish_lease_lost(l, now)
    \/ \E outcome \in {"ok", "error", "retryable"} : finish_held(l, outcome, now)

-----------------------------------------------------------------------------
(* Recovery of expired leases, one transaction for all of them (the batch  *)
(* of 128 rows is larger than any instance here).                          *)

Expired(now) ==
    {t \in Stored : /\ task[t].status \in {"running", "cancel_requested"}
                    /\ task[t].lease_until # NoLease
                    /\ task[t].lease_until <= now}

recover_expired_leases(now) ==
    /\ task' = [t \in Task |->
                  IF t \in Expired(now)
                  THEN Release(t, IF task[t].cancel_requested THEN "cancelled"
                                  ELSE "queued")
                  ELSE task[t]]
    /\ recovered' = [t \in Task |-> IF t \in Expired(now) THEN recovered[t] + 1
                                    ELSE recovered[t]]
    /\ UNCHANGED <<rate, clock, nextToken, leases>>

Tick ==
    /\ clock < MaxClock
    /\ clock' = clock + 1
    /\ UNCHANGED <<task, rate, nextToken, leases, recovered>>

-----------------------------------------------------------------------------
Init ==
    /\ task = [t \in Task |-> Absent]
    /\ rate = [s \in Scope |-> [w \in 0..MaxClock |-> 0]]
    /\ clock = 0
    /\ nextToken = 1
    /\ leases = {}
    /\ recovered = [t \in Task |-> 0]

Next ==
    \/ \E op \in Operator, now \in Now : submit_task(op, now)
    \/ \E now \in Now : claim_next(now)
    \/ \E t \in Task : request_cancel(t)
    \/ \E l \in leases, now \in Now : finish_task(l, now)
    \/ \E now \in Now : recover_expired_leases(now)
    \/ Tick

Spec == Init /\ [][Next]_vars

-----------------------------------------------------------------------------
(* Properties.                                                             *)

(* Every row, counter and lease is of the shape the schema gives it.       *)
TypeOK ==
    /\ task \in [Task -> Row \cup {Absent}]
    /\ rate \in [Scope -> [0..MaxClock -> Nat]]
    /\ clock \in 0..MaxClock
    /\ nextToken \in Nat \ {0}
    /\ leases \subseteq [task: Task, token: Nat \ {0}]
    /\ recovered \in [Task -> Nat]

(* Fencing (ADR-024): a row carries a lease exactly while it is running or *)
(* cancel_requested, the lease is the NEWEST one issued for that task, and *)
(* a stored result was produced by the newest lease.  So a worker that     *)
(* lost its lease to recovery and a new claim can never write, whatever it *)
(* reports and however late (claim_next, finish_task,                      *)
(* recover_expired_leases).                                                *)
Newest(t, k) ==
    /\ [task |-> t, token |-> k] \in leases
    /\ \A l \in leases : l.task = t => l.token <= k

Fencing ==
    \A t \in Stored :
        /\ task[t].status \in {"running", "cancel_requested"}
              <=> task[t].lease_token # NoToken
        /\ task[t].lease_token # NoToken <=> task[t].lease_until # NoLease
        /\ task[t].lease_token # NoToken => Newest(t, task[t].lease_token)
        /\ task[t].result # NoResult => /\ task[t].status = "succeeded"
                                        /\ Newest(t, task[t].result)

(* An accepted cancellation is never undone: a task whose cancellation was *)
(* recorded is on its way to cancelled or there, through retry, late       *)
(* success, expiry and recovery (request_cancel, finish_task,              *)
(* recover_expired_leases).                                                *)
CancelSticks ==
    \A t \in Stored :
        task[t].cancel_requested <=> task[t].status \in {"cancel_requested", "cancelled"}

(* Retries stop: a task is executed at most max_attempts times plus once   *)
(* for every time its lease was recovered, because recovery requeues a     *)
(* row without looking at its attempts (finish_task,                       *)
(* recover_expired_leases).                                                *)
AttemptsBounded ==
    \A t \in Stored :
        /\ task[t].attempts <= task[t].max_attempts + recovered[t]
        /\ task[t].status = "queued" => task[t].attempts < task[t].max_attempts + recovered[t]

(* Idempotent admission: an idempotency key stands for at most one task of *)
(* its tenant (submit_task).                                               *)
OneTaskPerKey ==
    \A t, u \in Stored :
        (/\ TenantOf(task[t].operator) = TenantOf(task[u].operator)
         /\ task[t].key = task[u].key) => t = u

(* The counters of the limiter are the admissions: in every window the     *)
(* counter of a scope is the number of tasks it created in that window; a  *)
(* submission rejected by a quota after the counters were incremented      *)
(* leaves no trace (rollback in submit_task).  A repetition with a known   *)
(* key leaves none either, and is not limited: it returns (lib.rs:1358)    *)
(* before any window is read (lib.rs:1372) and is answered however full    *)
(* the window is, where API_CONTRACTS.md:215 says that repetitions stay    *)
(* subject to the rate limit of requests.  So this counts what the code    *)
(* limits, and says nothing in favour of that sentence.                    *)
RateIsAdmissions ==
    \A s \in Scope, w \in 0..MaxClock :
        rate[s][w] = Cardinality({t \in Stored : /\ s \in ScopesOf(task[t].operator)
                                                 /\ fixed_window_start(task[t].created_at) = w})

(* The quotas of a tenant hold in every state, not only at admission: no   *)
(* retry, recovery or cancellation brings a task back over the limits      *)
(* (submit_task, finish_task, recover_expired_leases).                     *)
WithinQuotas ==
    \A tn \in Tenant :
        /\ Cardinality(ActiveOf(tn)) <= MaxActive
        /\ \A d \in {day_start(n) : n \in 0..MaxClock} :
              LET made == {t \in Of(tn) : day_start(task[t].created_at) = d} IN
              /\ Cardinality(made) <= MaxDaily
              /\ CostOf(made) <= MaxDailyCost

(* A terminal task never changes again, and no row is ever deleted or      *)
(* re-created (TaskStatus::is_terminal).                                   *)
TerminalIsFinal ==
    [][\A t \in Stored : /\ task'[t].status # "absent"
                         /\ task[t].status \in Terminal => task'[t] = task[t]]_vars
=============================================================================
