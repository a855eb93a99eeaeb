# TLA+ verification of Shaka

Shaka (`src/crates/*`, Rust) is an agent server: an HTTP API admits tasks into
a SQLite queue, worker tasks of the same process claim and run them through an
agent runtime, and a plan engine executes multi-step plans one step per claim,
with human approvals, compensations and resolutions.  This directory models the
parts whose correctness depends on the order in which things happen, checks
them with TLC on small instances, and proves their safety properties with TLAPS
for every value of the constants.

## 1. Inventory

| Component | State it keeps | Operations | Talks to |
|---|---|---|---|
| Task queue (`shaka-queue/src/lib.rs`) | `api_tasks` rows (status, attempts, lease, token), `api_rate_windows` | `submit_task_*`, `claim_next*`, `request_cancel`, `finish_task*`, `recover_expired_leases` | called by the API handlers and the workers; calls the plan engine inside its transactions |
| Circuit breaker (same file) | one snapshot, in memory and in SQLite | `allow`, `record_success`, `record_failure`, `load_circuit` | asked by every worker before a claim, told the outcome of every run |
| Workers and server (`shaka-api/src/lib.rs`) | the position of each `worker_loop`, the registry of cancellation tokens, the shutdown flag | `worker_loop`, `execute_task`, `cancel_task`, `serve`, `start_workers` | queue, breaker, runtime |
| Plan engine (`plan_store.rs`, `shaka-core`) | plan, step states, attempts, an append-only chain of transitions with unique keys, checkpoints, approvals | `save_plan`, `approve_plan`, admission, `prepare_planned_claim_tx`, `finish_planned_step_tx`, cancellation, recovery, `resolve_plan_unknown`, `record_plan_transition`, `append_plan_checkpoint`, `resume_plan`, `inspect_plan` | runs inside the queue's transactions |
| Plan verifier (`shaka-core/src/plan_verifier.rs`) | none | `verify` in three phases | plan engine, at admission and at every claim |
| Agent runtime (`shaka-orchestrator`) | budget, step and tool counters of one run | the step loop with deadline and cancellation, the tool gate | called by workers; calls model, tools, memory |
| Memory and audit (`shaka-memory`) | episodes, a hash chain of events per tenant, working and semantic memory | append, verify, purge, backup, restore | runtime, CLI |
| Skills (`shaka-skills`) | the registry and the trust store, two JSON files | candidate, approve, revoke, add and revoke keys, verify | CLI writes them, the server's tools read them before every run |
| Identity, sessions, limits (`shaka-queue/src/lib.rs`) | tenants, users, tokens, limits, sessions | create, issue, revoke, authenticate, `set_limits` | API handlers |
| Sandbox, observability, configuration, probes | no protocol state of their own | | |

What is hard here: workers do one job in five awaits while requests, time and
shutdown act between any two of them; leases expire and their holders come
back; a process dies between two transactions; cancellation races with
everything; a plan, its steps and its task row are three records that several
functions update; every transition of a plan carries a key that must be new;
the rows a reducer reads are not one snapshot; the evidence of a run is written
row by row while it runs; and the skill files are shared without a lock.  `PROJECT.json` lists these hazards at their lines.

What makes each part correct:

- queue: only the newest lease writes; a cancellation is not undone; a terminal
  task is final; retries stop; admission is idempotent and never exceeds a
  quota; the whole implements the documented lifecycle;
- breaker: an open circuit is probed, and tasks are served again;
- workers: a task is run by one worker at a time, a cancellation takes effect,
  a coordinated stop settles what it interrupts;
- plan engine: one step at a time, never before its dependencies; task and plan
  agree; `unknown` is left by a human decision only; retries stop; the keys the
  workers make up never collide; a queued plan can make progress; the chain
  explains the snapshot, and what has ended stays ended;
- verifier: a plan is executable exactly when nothing stands against it,
  whatever the report has room for; the search for a cycle misses none, takes
  nothing else for one, and ends;
- runtime and memory: budgets hold over the whole run, a stop is prompt, every
  run ends and leaves its evidence, every tenant's chain verifies;
- skills: what runs is what was approved, and it has not been revoked.

## 2. Modules

| Module | Models |
|---|---|
| `QueueStore` | the queue for tasks without a plan: admission, claim, cancel, finish, recovery, the wall clock |
| `TaskLifecycle` | abstract: what V0.5_DESIGN.md section 5 and ADR-024 promise of a task |
| `QueueRefinement` | the mapping: `QueueStore` implements `TaskLifecycle` |
| `CircuitBreaker` | the breaker; no specification of its own, `WorkerPool` extends it |
| `WorkerPool` | composition of workers, breaker, queue, registry and the life of the process |
| `PlanStates` | the transition tables of plans and steps, used by the next three |
| `PlanEngine` | one plan and the task that executes it |
| `PlanHistory` | the chain, the snapshot and the checkpoints of one plan, their writers outside the engine, and the readers that rebuild the plan |
| `PlanVerifier` | the verifier as a function, with the checks of `PlanSpec` and `PlanApproval` it calls |
| `StepGraph` | `ensure_acyclic`, the search for a cycle that a plan must pass, call by call |
| `MemoryStore` | episodes and audit chain; no specification of its own, `AgentRuntime` extends it |
| `AgentRuntime` | executions of the agent, composed with the memory they write to and the administrator's commands |
| `SkillCatalogue` | registry, trust store, the CLI processes that write them, the server that loads and runs skills |
| `QueueStoreProofs`, `PlanEngineProofs`, `PlanHistoryProofs`, `PlanVerifierProofs`, `WorkerPoolProofs`, `AgentRuntimeProofs`, `SkillCatalogueProofs` | the theorems |
| `InductionLemmas` | induction, sums and enumerations of finite sets, used by the proofs |
| `MCQueueStore`, `MCWorkerPool`, `MCPlanEngine`, `MCPlanHistory`, `MCPlanVerifier`, `MCAgentRuntime`, `MCSkillCatalogue` | instances and symmetry for TLC |

Definitions whose comment starts with "Mutant" are faulty variants of the
definition that follows them.  Nothing uses them except the check that each
property fails when the variant takes the place of the original.

### How they correspond to the code

**QueueStore.**  Every public operation of the Rust `QueueStore` locks the
connection and runs one IMMEDIATE transaction: one action each.  `task` is the
table, `rate` the counters, `leases` every lease a worker was ever given, so
that any of them can come back late or twice.  `now` is a parameter of each
action and lags behind `clock` by at most `MaxLag`, because the callers read it
before they wait for the mutex.  Errors roll back; the outcomes without effect
are actions that change nothing, so that their guards are exercised.  A result
is represented by the token of the lease that produced it.  `recovered` is a
history variable.

**WorkerPool.**  A worker's `pc` is the await it is at: `top` (shutdown flag),
`checked` (breaker), `allowed` (claim), `claimed` (register the token),
`running`, `ended` (breaker told, cancellation by shutdown), `recorded`
(finish).  `cancelling` holds the DELETE requests between `request_cancel` and
`cancel_running`.  `phase` is the process: `up`, `stopping` (flag set),
`draining` (tokens cancelled), `stopped`, `crashed`.  Time is abstracted to
whether a backoff, a lease or the breaker's window has passed; any of them may
pass at any moment.  The token check of `finish_task` becomes "the row's holder
is this worker": within one process a lease is recovered only by `start`, when
no worker of an earlier process exists.

**PlanEngine.**  `plan`, `step`, `attempts` are the columns, `keys` the
idempotency keys of the chain, `task` the row of the task, with its lease as a
flag and `locked` for `plan_step_id`.  A `UNIQUE` violation fails the
transaction, so every action has `Chain(K)`, whose guard is that the keys are
new.  Walks through intermediate states inside one transaction
(`draft -> proposed -> validated -> approved`) are one step.  The verifier is
kept as its verdict: the global approval must be valid, and a step with
preconditions (`Conditional`) may be passed over.  The keys of
`mark_plan_unknown_tx` contain the instant of the recovery and are left out.
`Compensate` is offered by the store and reached by its tests; the HTTP
endpoint only offers `Resume`.  The module has the engine's own callers; what
moves the plan and not its task (`mark_plan_unknown` called from outside the engine, `resume_plan`,
`record_plan_transition`) is in `PlanHistory`, and what `PlanEngine` shows of
plan and task together does not extend to it.

**PlanHistory.**  The columns (`plan`, `step`), the chain and the checkpoints
start where the engine leaves them after the first claim; before that the
checkpoints may also be empty, as after `record_plan_transition` alone.  A
writer holds a transition it built earlier and submits it at any later moment,
or again, or gives up.  `load_reducer_rows` is four steps, because another
process may write between its SELECTs (the mutex only stops threads of its
own); what `resume_plan` then does is one transaction.  A transition's hash is
the position it was built for: the chain is append-only, so a position has one
hash.  `history.raw` records that a column was written that no transition
accounts for (`mark_plan_unknown_tx` where the table has no such transition,
`force_unknown`), `history.gap` that a caller's first checkpoint was not
number 1, `moved` that the database changed between two reads.

**PlanVerifier.**  A behaviour is one call.  The checks produce their
violations in the order of the code; `push` keeps the first
`max(max_violations, 1)`, and the status is computed from what was kept, twice,
as in the code.  Levels and risks are numbers because the Rust enums are
ordered.  `validate_structure` and `validate_step` have every check of the
code; those that read the text of a step (`validate_plan_key`,
`validate_sha256`) are one bit, `well_written`, and the comparison of the
plan's digest is another.  `depends_on` is a list, as in the code: nothing
refuses a step that is listed twice, `verify_step_shape` counts it twice and
`verify_dependencies` reports it twice.  `Expected` in the properties is written
without any report.

**StepGraph.**  `PlanVerifier` says what an acyclic plan is; `ensure_acyclic`
decides it by a recursive search, and `StepGraph` is that search.  `stack` has
the calls of `visit` that have not returned, each with the dependencies it has
not looked at; the set `visiting` of the code is the ids on it.  A call that
returns false makes all of them return at once, so one step empties the stack.
The sets of the code are ordered; the model visits in any order.

**AgentRuntime** and **MemoryStore.**  A run's `pc` is the await or the write
it is at.  `cancel_branch` is the cancellation arm of both `select!`s.  Elapsed
time is one bit per run.  The model proposes any number of calls up to
`MaxProposed`, at a cost of 0 or 1, with any tool name and valid or invalid
input, or fails; it need not answer, nor need a tool.  Each write is a step and
may fail; the code answers differently from place to place (`?` ends the run
without a record, a failing `record_failure` is logged), and so does the model.
Hashes are numbers that are never used twice; an event stores the hash of its
predecessor and `verify_audit_chain` follows these links.  `restore` replaces
the tables by the backup.

**SkillCatalogue.**  A CLI command is load, save, audit: three steps, any of
which may be the last.  `save` writes the copy it loaded, so two commands may
overwrite each other (`history.lost`).  The server's start reads both files,
then for each skill hashes the artifact (`from_approved_artifact`) and reads it
(`register`), two steps; `execute` reads the registry, `verify_current` the
trust store and the artifacts.  A hash is the contents, an authority digest the
permissions, a signature the binding and the key pair.  Artifacts are rebuilt
and the skills file edited by hand at any moment.

## 3. Runs

| Run | Checks | Instance |
|---|---|---|
| `queue_store` | `TypeOK`, `Fencing`, `CancelSticks`, `AttemptsBounded`, `OneTaskPerKey`, `RateIsAdmissions`, `WithinQuotas`, `TerminalIsFinal`, `ImplementsLifecycle` | 3 operators in 2 tenants, 2 tasks, 2 keys, 2 fingerprints, limits of 1 to 3, days of 2, 2 attempts, leases of 1, clock to 2, lag 1, 3 tokens |
| `worker_pool` | `TypeOK`, `ExclusiveExecution`, `SettledStop`, `OpenIsProbed`, `CancelSettles` | 2 workers, 1 task, 2 attempts, threshold 2, two restarts |
| `plan_engine` | `TypeOK`, `OneBoundary`, `TaskAgrees`, `DependenciesFirst`, `StepAttemptsBounded`, `WorkerKeysFresh`, `QueuedCanRun`, `UnknownWaits`, `FollowsTables` | 4 steps, one dependency, two compensations, three resolutions |
| `plan_history` | `TypeOK`, `SnapshotRebuilds`, `InspectionSound`, `EndedStays` | 1 step, 2 writers, 1 reader, chain up to 9, checkpoints up to 3 |
| `plan_verifier` | `VerdictSound` | 40564 calls in four families |
| `agent_runtime` | `TypeOK`, `ChainValid`, `RunsAccounted`, `ToolsAudited`, `BudgetHolds`, `StopsPromptly`, `RunEnds` | 1 run, 2 tenants, 3 tool names, 3 envelopes, one fault, two administrator operations |
| `skill_catalogue` | `TypeOK`, `RevokedNeverRuns`, `RunsApproved`, `BytesApproved`, `AuditBacked` | 1 skill, 1 key, 2 artifact contents, 2 permission sets, 2 CLI processes, 4 saved commands, one outside edit |

**Bounds.**  In `queue_store` `o1` and `o2` share a tenant and `o3` is alone in
the other.  One active task and one admission per window are allowed to each
tenant, so every further submission meets the active quota, the cost quota, the
rate limit or a known key, while the clock crosses windows and a day; `MaxDaily`
is never the limit that decides, and stands on the theorem.  Two tasks of two
tenants hold leases at the same time; with leases of 1 and three tokens a task
is claimed, expires, is recovered and claimed by another worker up to three
times, retried or cancelled, while every old lease reports at each of those
moments.  The theorems hold for any numbers.  In `worker_pool` two workers are what a race for a task needs; two
restarts give a crash, an orphan, its recovery and a second one; the theorems
cover more tasks and workers.  The plan has a step that is retried (`StepMax`
2), a step that depends on a compensated one, and targets with smaller and
larger ids than other candidates; three resolutions allow unknown, resume,
unknown, compensate, unknown, compensate.  In `plan_history` the chain starts
with six transitions, so three more fit: enough for the plan to be recovered,
to end, or to be marked unknown while a transition built earlier and a reader
that has read some of the rows are still on their way.  `plan_verifier` takes
every list of up to two conditions of every kind with every fact met, unmet and
absent, a report that keeps 0, 1 or 2 violations, every limit just met and just
exceeded, every combination of declared risk, level, scope and role, and every
field `validate_structure` looks at, at its limits and beyond them, with
dependencies listed twice and one plan of 129 steps.  A well-formed plan of 128
steps is out of TLC's reach (`acyclic` looks at every set of steps) and left to
the theorem.  In
`agent_runtime` two steps with two calls are what an accumulated budget needs;
the rows that interleave with the run's are the control events of another
process for both tenants, and the theorems cover any number of runs.  In
`skill_catalogue` four commands are the shortest life that ends in a
revocation of something that is loaded.

**Deadlock** is checked for the queue, whose operations are always possible.  A
process may stop for good and a plan ends, so the other runs do not check it.

**Fairness** (`FairSpec` of `WorkerPool`).  Each worker is a Tokio task that is
polled whenever it can move, and a run returns because the runtime bounds each
await by the deadline of the task (which `RunEnds` of `agent_runtime` shows);
time passes; a request handler and `serve` run to their end.  Nothing obliges anyone to submit, cancel, stop, crash or restart,
and no lease has to expire.  `FairSpec` of `AgentRuntime` asks only that the
future of a run is polled and that time passes: neither the model nor a tool
has to answer.  `FairSearch` of `StepGraph` says that a function runs until it
returns.

### Runs that show a disagreement

Each of these checks one sentence of the documentation, and TLC finds a
behaviour of the code that contradicts it (the quotations are in
`PROJECT.json`, "findings").

- `tool_unaudited`: a cancellation that comes while a tool executes ends the run
  with its `agent.run` event and no `tool.execute` event for that tool, where
  `API_CONTRACTS.md:174` says that each execution has one.  `ToolsAudited` of
  `agent_runtime` states what does hold: this is the only call without its
  event.
- `breaker_wedge`: the probe that `allow` lets through must report, or the
  circuit stays half-open.  It does not report when it finds no task, fails
  with an error that is not retryable, is cancelled, or dies.  After that no
  worker is ever allowed again, also after a restart.
- `stop_race`: a worker that had read the shutdown flag registers its token
  after `cancel_all_running`; its task is aborted and stays `running`.
- `compensation_stuck`: a compensation step that has already run (it is an
  ordinary step) or depends on its source leaves the plan `compensating` with
  nothing to claim, and neither cancel nor resolve is accepted.
- `cancel_twice`: the fixed key `cancel:plan:requested` allows one cancellation
  per plan; after cancel, unknown and Resume a second one fails.

One more disagreement has no run, because it is the guard of one action:
`API_CONTRACTS.md:215` says that idempotent repetitions, which consume no quota,
stay subject to the rate limit of requests.  The code looks the key up first and
returns (`shaka-queue/src/lib.rs:1358-1371`) before it reads the window (1372),
and `shaka-api` has no other limiter, so repetitions are answered however full
the window is.  `submit_replay` has no rate in its guard for that reason, and
`RateIsAdmissions` counts what the code limits: admissions.

## 4. Proofs

Every invariant and every action property of the passing runs is a theorem for
all values of the constants; the list is in `PROJECT.json`, "theorems".

**Assumptions.**  `ConstantsAssumption` (types and signs of the constants,
`max_attempts` in 1..10 as the API validates) for the queue, `PlanAssumption`
(what `validate_structure` checks, acyclicity included) for plans,
`HistoryAssumption` (a plan has finitely many numbered steps; the bound on the
chain leaves room for the six transitions it starts with), `SkillAssumption`
(skill names are not key ids, `None` is no record), `InputsAssumption` (the
arguments of `verify` are of the Rust types: lists, natural numbers, members of
the enums) for the verifier, and the typing of their constants for the worker pool
and the runtime.  All are evaluated by TLC in the passing runs.  The bounds of
the models (`MaxClock`, `MaxTokens`, `MaxTransitions`, ...) are constants too:
the theorems hold for every value of them.

**Queue** (`QueueStoreProofs`).  `Fencing`, `CancelSticks` and
`AttemptsBounded` are not inductive alone: that a new token is newer than every
other needs that all issued tokens are below `nextToken`, and that the newest
lease of a task is the one in its row needs the same of `leases`.  The
invariant `IInv` adds this to the type invariant and the three properties;
`Invariance` proves it action by action, and `TypeCorrect`, `FencingHolds`,
`CancelHolds`, `AttemptsHold` follow.  `TerminalHolds` is the action property
`TerminalIsFinal`.

Admission is a second invariant, `AdmissionInv`, with `IInv` as hypothesis.
`OneTaskPerKey`, `RateIsAdmissions` and `WithinQuotas` compare counters and
limits with cardinalities and sums over the table, so it adds that the table is
finite.  Two kinds of step are enough: `submit_task` adds one row to every set
counted, and all others leave what is counted alone or make the set of active
tasks smaller (`AdmitsNothing`).

**Refinement** (same module).  `Refinement` is `Spec => Lifecycle!Spec`: each
action maps to one abstract action or a stutter; a claim is `Start` with grant
`nextToken`, a finish is `Succeed`, `Fail` or `GiveBack({t})`, recovery is
`GiveBack` of the expired tasks.  It uses `IInv`: a finish that passes the
token check belongs to a task that is running.

**Plans** (`PlanEngineProofs`).  `OneBoundary`, `TaskAgrees` and
`DependenciesFirst` need each other (a finish may only touch the locked step;
what a task's status allows the plan to be decides which actions are possible),
so they are proved together with the types as `PlanInvariance`.  `UnknownHolds`
is the action property `UnknownWaits`: it needs `OneBoundary`, to know that the
step a finish touches is not unknown, and `TaskAgrees`, to know that no step but
a resolution is possible while the plan is unknown.

`ChainInvariance` is a second invariant on top of it.  `KeysInv`: a key that
names an attempt of a step names one that was started, and one that has ended
if the key is that of an end; so the keys of the next claim and of the running
attempt are new (`WorkerKeysHold`).  `BudgetInv`: the chain has finitely many
resolutions, and a step that waits has a run left; so attempts are bounded
(`StepAttemptsHold`).  `ProgressInv`: before any compensation the steps of a
plan that goes on wait, run or have succeeded, and not all have succeeded.
With it `QueuedRuns` shows that a step can be claimed: among the steps that
have not succeeded there is, by acyclicity, one whose dependencies all have.
`TablesFollowed` is the action property `FollowsTables`.

**Plan history** (`PlanHistoryProofs`).  `SnapshotRebuilds` speaks of a
recursion over the chain.  The proof first derives its equations (`Replay` of a
chain that grew by one row is one `reduce` more; `Replay` of a prefix does not
depend on the rest), then shows that each kind of writer adds rows that `reduce`
turns into the columns it writes; a recovery, which adds one row for the plan
and one for each active step, goes through the increasing enumeration of those
steps.  The invariant `HInv` adds that checkpoints increase and have no gap a
caller did not make (`Numbered`), that a transition in a writer's hands was
built for a position the chain has or for the next one (`WritersFollow`), and
that a reader that nobody disturbed holds what the tables hold
(`ReadersSound`), which is what `InspectionHolds` needs.  `EndedHolds` follows
because a terminal state has no successor in the table: whoever moves the plan
all the same writes past the chain.

**Verifier** (`PlanVerifierProofs`).  `VerdictHolds` relates a status computed
from a truncated list to a statement without any list.  The lemmas say what
each check pushes (`StepShape`, `ShapeList`, `ConditionList`,
`DependencyList`), that a report keeps a first violation whatever its limit
(`Pushed`), and that in each phase a blocking violation is the first or comes
within as many as a step may have conditions (`PhaseSound`): dependencies are
pushed before conditions, and the approval of the step after them.  For the
approvals, `OneStepPerId` shows by counting that a valid structure names each
step once, and `PlanCoversSteps` that an approval of the plan reaches the level
of each step.

For the search, `SearchHolds` needs to know why a visited step is safe: the
visited steps wait only for visited steps and never in a circle
(`VisitedSettled`), the open calls are a path of different steps, and what a
call no longer has to look at is visited or is the next call (`OnePath`).  A
step met again on that path closes a circle (`CircleFound`); a call that
returns adds a step that waits only for visited ones.  `DepthHolds` counts the
steps of the path, and `SearchDecides` joins the two modules: for steps with
different ids, the search answers the question `acyclic` asks.  That the plan
has finitely many steps is a hypothesis of `DepthHolds`, which needs it.  These
theorems are what the project claims of the search; no run of `PROJECT.json`
covers it.  `tlc -config MCStepGraph.cfg StepGraph` checks the same formulas and
`SearchEnds` on every plan of four steps, by hand.

**Workers** (`WorkerPoolProofs`).  That no two workers execute one task is not
inductive: it needs that whoever is between claim and finish is the holder in
the row (`Held`), that a row with a holder is running (`Owned`), and that the
registry only has tokens of such runs (`Registered`).  `IInv` adds them to the
types; `TypeCorrect`, `ExecutionIsExclusive` and `StopSettles` follow.

**Runtime and memory** (`AgentRuntimeProofs`).  The chain of a tenant stays
valid because a new event links to the tenant's last one and its hash is new:
the invariant has the validity of both the tables and the backup, and that
every stored number is below the next (`MemoryInv`).  The budget needs that
calls counted are calls started or still pending (`RunsInv`), which also gives
that at most one tool starts late.  From them follow `TypeCorrect`,
`ChainAlwaysValid`, `BudgetAlwaysHolds` and `StopIsPrompt`.  `EvidenceInv` says
of each run which rows it has left at each point of its life, and how many tool
events it still owes; a run that is damaged (a write failed, the process died,
a restore) is exempt, and a run that has not begun has no rows in the tables or
the backup.  `RunsAreAccounted` and `ToolsAreAudited` follow.

**Skills** (`SkillCatalogueProofs`).  What runs was read from a registry that
may be old by then, so the invariant `IInv` says of every copy of the files,
those in the hands of the CLI processes and of a call included, what it says of
the files: an approval in it was recorded, and a revocation that was saved and
not overwritten is still there (`KeptInv`).  `RevocationHolds`,
`OnlyApprovedRuns`, `BytesAreApproved`, `AuditIsBacked` and `TypeCorrect`
follow.

**Induction** (`InductionLemmas`).  The induction theorems of the library take
a predicate as a parameter, which the provers cannot instantiate.  The lemmas
here put a set in its place (`NatSetInduction`, `SizeInduction`), and derive
from that what the other modules need: sums over finite sets, the greatest
element, the increasing enumeration of a finite set of numbers.

**Only model-checked.**  The liveness properties `OpenIsProbed`,
`CancelSettles`, `RunEnds` and (outside the runs) `SearchEnds`: temporal reasoning under fairness
and `ENABLED` are out of this prover's reach.

## 5. Not modelled

- Storage errors of the queue (a failing `save_circuit`, a full database in a
  worker's transaction), the 128-row batch of recovery and the 64-row window of
  a claim: errors roll back, and instances of more than 64 rows are out of
  TLC's reach.
- Identity, tokens, sessions and `set_limits`: each operation is one
  transaction on rows that no other operation changes, so nothing interleaves.
- Working and semantic memory: key-value rows that no modelled part reads.
- The Wasmtime limits of the sandbox, the HTTP surface, observability,
  configuration, argument parsing and the probes: pure I/O or code of a
  library.
- The window between the breaker's `allow` and the claim
  (`shaka-api/src/lib.rs:1311`): `WorkerPool` has the two steps, and the
  circuit may open between them, so that an attempt is consumed while it is
  open, which V0.5_DESIGN.md:77 excludes.  No run is kept for it: at most one
  claim per worker is affected.
- The facts `artifacts` and `used_idempotency_keys` of a verification are never
  filled by the claim (`plan_store.rs:1983`), so a plan with an
  `ArtifactDigestMatches` precondition is never claimed; `PlanVerifier` covers
  the verdict, `PlanEngine` has it as a step that may be passed over for ever.

## 6. Plan

1. *Done*: queue, lifecycle, refinement, breaker, workers, plan engine, plan
   history, verifier, runtime with memory, skills; proofs of every safety
   property of the runs.
2. A second abstract specification: what a client of the worker pool may rely
   on, with `WorkerPool` shown to implement it.
3. `set_limits` in `QueueStore`, after which `WithinQuotas` holds of admissions
   only; a failing `save_circuit` in `CircuitBreaker`.
