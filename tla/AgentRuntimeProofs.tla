------------------------- MODULE AgentRuntimeProofs -------------------------
(* Proofs that the agent runtime and its memory keep their types, a valid  *)
(* audit chain for every tenant, the budget of every run and the bound on  *)
(* tools that start after a stop, and that the evidence of a run is what   *)
(* it did, for any number of runs, tenants, tools, faults and operations   *)
(* of the administrator.                                                   *)
EXTENDS AgentRuntime, FiniteSetTheorems, TLAPS

(* Some row of t is the last one, if t has rows.  Carried along with the   *)
(* chain, because that a finite chain has a last row is an induction.      *)
HasLast(rows, t) ==
    \/ \A j \in 1..Len(rows) : rows[j].tenant # t
    \/ \E j \in 1..Len(rows) : IsLast(rows, t, Len(rows), j)

(* What a database, or a backup of one, satisfies.                         *)
Stored(eps, rows, next) ==
    /\ \A e \in eps : e \in EpisodicRecord /\ e.id < next
    /\ rows \in Seq(AuditEvent)
    /\ \A i \in 1..Len(rows) : rows[i].hash < next
    /\ \A t \in Tenant : verify_audit_chain(rows, t) /\ HasLast(rows, t)

MemoryInv ==
    /\ fresh \in Nat
    /\ Stored(episodes, audit, fresh)
    /\ snapshot # None => Stored(snapshot.episodes, snapshot.audit, fresh)

Busy == {"calls", "tool", "executing", "tool_audit"}

(* The local variables x of a run with budget b; stop: its token is set or *)
(* its deadline has passed.  The calls of a response are counted before    *)
(* they start, so what has started and what is pending add up to them.     *)
RunGood(x, b, stop) ==
    /\ x.steps <= b.max_steps
    /\ x.pc = "model" => x.steps < b.max_steps
    /\ x.started <= b.max_tool_calls
    /\ x.pc \in {"new", "loop", "model"} => x.started <= x.calls
    /\ x.pc \in {"calls", "tool"} => x.pending >= 1 /\ x.started + x.pending <= x.calls
    /\ x.pc \in {"executing", "tool_audit"} => x.pending >= 1 /\ x.started + x.pending <= x.calls + 1
    /\ x.pc \in {"new", "loop", "model"} \cup Busy => x.calls <= b.max_tool_calls
    /\ x.pc \in Busy \cup {"finish_episode"} => x.cost <= b.max_cost
    /\ x.late <= 1
    /\ x.late > 0 => stop /\ x.pc \notin {"new", "tool", "model"}

RunsInv ==
    /\ run \in [Run -> RunState]
    /\ envelope \in [Run -> Envelopes]
    /\ cancelled \subseteq Run /\ expired \subseteq Run
    /\ history \in [damaged : SUBSET Run, purged : SUBSET Run, faults : Nat, admin : Nat]
    /\ \A r \in Run : RunGood(run[r], envelope[r].budget, r \in cancelled \cup expired)

IInv == MemoryInv /\ RunsInv

-----------------------------------------------------------------------------
(* The memory                                                              *)

(* Appending the event append_audit_event builds keeps the chain of every  *)
(* tenant valid.                                                           *)
LEMMA AppendKeepsChain ==
    ASSUME NEW rows \in Seq(AuditEvent), NEW e \in AuditEvent, NEW t,
           verify_audit_chain(rows, t), HasLast(rows, t),
           e.previous = previous_hash(rows, e.tenant, Len(rows))
    PROVE  verify_audit_chain(Append(rows, e), t) /\ HasLast(Append(rows, e), t)
<1> DEFINE n == Len(rows)
           all == Append(rows, e)
<1>1. /\ n \in Nat /\ Len(all) = n + 1 /\ all[n + 1] = e
      /\ \A i \in 1..n : all[i] = rows[i]
  OBVIOUS
<1>2. \A m, j \in Nat : m <= n => (IsLast(all, t, m, j) <=> IsLast(rows, t, m, j))
  BY <1>1 DEF IsLast
<1>3. HasLast(all, t)
  <2>1. CASE e.tenant = t
    <3>1. IsLast(all, t, n + 1, n + 1)
      BY <1>1, <2>1 DEF IsLast
    <3> QED
      BY <1>1, <3>1 DEF HasLast
  <2>2. CASE e.tenant # t
    <3>1. CASE \A j \in 1..n : rows[j].tenant # t
      BY <1>1, <2>2, <3>1 DEF HasLast
    <3>2. CASE \E j \in 1..n : IsLast(rows, t, n, j)
      <4>1. PICK j \in 1..n : IsLast(rows, t, n, j)
        BY <3>2
      <4>2. IsLast(all, t, n + 1, j)
        BY <4>1, <1>1, <2>2 DEF IsLast
      <4> QED
        BY <1>1, <4>2 DEF HasLast
    <3> QED
      BY <3>1, <3>2 DEF HasLast
  <2> QED
    BY <2>1, <2>2
<1>4. verify_audit_chain(all, t)
  <2> SUFFICES ASSUME NEW i \in 1..(n + 1), all[i].tenant = t
               PROVE  \/ /\ all[i].previous = None
                         /\ \A j \in 1..(i - 1) : all[j].tenant # t
                      \/ \E j \in 1..(i - 1) : /\ IsLast(all, t, i - 1, j)
                                               /\ all[i].previous = all[j].hash
    BY <1>1 DEF verify_audit_chain
  <2>1. CASE i \in 1..n
    <3>1. all[i] = rows[i] /\ i - 1 \in Nat /\ i - 1 <= n
      BY <1>1, <2>1
    <3>2. CASE rows[i].previous = None /\ \A j \in 1..(i - 1) : rows[j].tenant # t
      BY <3>1, <3>2, <1>1
    <3>3. CASE \E j \in 1..(i - 1) : IsLast(rows, t, i - 1, j) /\ rows[i].previous = rows[j].hash
      <4>1. PICK j \in 1..(i - 1) : IsLast(rows, t, i - 1, j) /\ rows[i].previous = rows[j].hash
        BY <3>3
      <4>2. IsLast(all, t, i - 1, j) /\ all[j] = rows[j]
        BY <4>1, <3>1, <1>1, <1>2
      <4> QED
        BY <4>1, <4>2, <3>1
    <3> QED
      BY <2>1, <3>1, <3>2, <3>3 DEF verify_audit_chain
  <2>2. CASE i = n + 1
    <3>1. all[i] = e /\ i - 1 = n /\ e.tenant = t
      BY <2>2, <1>1
    <3>2. CASE \E j \in 1..n : IsLast(rows, t, n, j)
      <4> DEFINE j == CHOOSE k \in 1..n : IsLast(rows, t, n, k)
      <4>1. j \in 1..n /\ IsLast(rows, t, n, j)
        BY <3>2
      <4>2. e.previous = rows[j].hash
        BY <3>1, <3>2 DEF previous_hash
      <4> HIDE DEF j
      <4>3. IsLast(all, t, n, j) /\ all[j] = rows[j]
        BY <4>1, <1>1, <1>2
      <4> QED
        BY <3>1, <4>1, <4>2, <4>3
    <3>3. CASE ~ \E j \in 1..n : IsLast(rows, t, n, j)
      <4>1. e.previous = None
        BY <3>1, <3>3 DEF previous_hash
      <4>2. \A j \in 1..n : rows[j].tenant # t
        BY <3>3 DEF HasLast
      <4> QED
        BY <3>1, <4>1, <4>2, <1>1
    <3> QED
      BY <3>2, <3>3
  <2> QED
    BY <2>1, <2>2
<1> QED
  BY <1>3, <1>4

(* The hash the next event of a tenant points to.                          *)
LEMMA PreviousTyped ==
    ASSUME NEW rows \in Seq(AuditEvent), NEW t
    PROVE  previous_hash(rows, t, Len(rows)) \in Nat \cup {None}
<1>1. ASSUME NEW i \in 1..Len(rows) PROVE rows[i].hash \in Nat
  <2>1. rows[i] \in AuditEvent
    OBVIOUS
  <2> QED
    BY <2>1 DEF AuditEvent
<1>2. CASE \E i \in 1..Len(rows) : IsLast(rows, t, Len(rows), i)
  <2> DEFINE j == CHOOSE i \in 1..Len(rows) : IsLast(rows, t, Len(rows), i)
  <2>1. j \in 1..Len(rows)
    BY <1>2
  <2>2. previous_hash(rows, t, Len(rows)) = rows[j].hash
    BY <1>2 DEF previous_hash
  <2> QED
    BY <2>1, <2>2, <1>1
<1>3. CASE ~ \E i \in 1..Len(rows) : IsLast(rows, t, Len(rows), i)
  BY <1>3 DEF previous_hash
<1> QED
  BY <1>2, <1>3

(* A later row number changes nothing about the rows that are stored.      *)
LEMMA StoredLater ==
    ASSUME NEW eps, NEW rows, NEW n \in Nat, Stored(eps, rows, n)
    PROVE  Stored(eps, rows, n + 1)
<1>1. \A e \in eps : e \in EpisodicRecord /\ e.id < n + 1
  BY DEF Stored, EpisodicRecord
<1>2. \A i \in 1..Len(rows) : rows[i].hash < n + 1
  <2>1. ASSUME NEW i \in 1..Len(rows) PROVE rows[i].hash \in Nat
    <3>1. rows[i] \in AuditEvent
      BY DEF Stored
    <3> QED
      BY <3>1 DEF AuditEvent
  <2> QED
    BY <2>1 DEF Stored
<1> QED
  BY <1>1, <1>2 DEF Stored

LEMMA AppendEpisodeMemory ==
    ASSUME MemoryInv, NEW t \in Tenant, NEW r \in Run, NEW outcome \in Outcome,
           append_episode(t, r, outcome)
    PROVE  MemoryInv'
<1> DEFINE new == [id |-> fresh, tenant |-> t, run |-> r, outcome |-> outcome]
<1>1. fresh \in Nat /\ fresh' = fresh + 1 /\ new \in EpisodicRecord /\ new.id < fresh'
  BY DEF MemoryInv, append_episode, EpisodicRecord
<1>2. /\ Stored(episodes, audit, fresh')
      /\ snapshot # None => Stored(snapshot.episodes, snapshot.audit, fresh')
  BY <1>1, StoredLater DEF MemoryInv
<1>3. Stored(episodes', audit, fresh')
  BY <1>1, <1>2 DEF Stored, append_episode
<1> QED
  BY <1>1, <1>2, <1>3 DEF MemoryInv, append_episode

LEMMA AppendAuditMemory ==
    ASSUME MemoryInv, NEW t \in Tenant, NEW r \in Run \cup {None},
           NEW action \in {"tool.execute", "agent.run", "control"}, NEW outcome \in Outcome,
           append_audit_event(t, r, action, outcome)
    PROVE  MemoryInv'
<1> DEFINE new == [hash |-> fresh, previous |-> previous_hash(audit, t, Len(audit)),
                   tenant |-> t, run |-> r, action |-> action, outcome |-> outcome]
<1>1. fresh \in Nat /\ fresh' = fresh + 1 /\ audit \in Seq(AuditEvent) /\ audit' = Append(audit, new)
  BY DEF MemoryInv, Stored, append_audit_event
<1>2. previous_hash(audit, t, Len(audit)) \in Nat \cup {None}
  BY <1>1, PreviousTyped
<1>3. new \in AuditEvent /\ new.hash < fresh' /\ new.tenant = t
      /\ new.previous = previous_hash(audit, new.tenant, Len(audit))
  BY <1>1, <1>2 DEF AuditEvent
<1> HIDE DEF new
<1>4. /\ Stored(episodes, audit, fresh')
      /\ snapshot # None => Stored(snapshot.episodes, snapshot.audit, fresh')
  BY <1>1, StoredLater DEF MemoryInv
<1>5. Stored(episodes, audit', fresh')
  <2>1. audit' \in Seq(AuditEvent) /\ \A i \in 1..Len(audit') : audit'[i].hash < fresh'
    BY <1>1, <1>3, <1>4 DEF Stored
  <2>2. \A u \in Tenant : verify_audit_chain(audit', u) /\ HasLast(audit', u)
    BY <1>1, <1>3, <1>4, AppendKeepsChain DEF Stored
  <2> QED
    BY <1>4, <2>1, <2>2 DEF Stored
<1> QED
  BY <1>1, <1>4, <1>5 DEF MemoryInv, append_audit_event

(* The administrator's operations.                                         *)
LEMMA AdminMemory ==
    ASSUME MemoryInv,
           \/ \E t \in Tenant, cutoff \in 1..fresh : purge_older_than(t, cutoff)
           \/ backup_to \/ restore_from \/ UNCHANGED memory_vars
    PROVE  MemoryInv'
<1>1. CASE \E t \in Tenant, cutoff \in 1..fresh : purge_older_than(t, cutoff)
  <2>1. episodes' \subseteq episodes /\ UNCHANGED <<audit, snapshot, fresh>>
    BY <1>1 DEF purge_older_than
  <2>2. Stored(episodes', audit, fresh)
    BY <2>1 DEF MemoryInv, Stored
  <2> QED
    BY <2>1, <2>2 DEF MemoryInv
<1>2. CASE backup_to
  BY <1>2 DEF MemoryInv, backup_to
<1>3. CASE restore_from
  BY <1>3 DEF MemoryInv, restore_from
<1>4. CASE UNCHANGED memory_vars
  BY <1>4 DEF MemoryInv, memory_vars
<1> QED
  BY <1>1, <1>2, <1>3, <1>4

-----------------------------------------------------------------------------
(* The runs                                                                *)

(* The counters and the sets of runs that lost evidence.                   *)
LEMMA HistoryTyped ==
    ASSUME RunsInv, NEW lost \in SUBSET Run,
           \/ history' = [history EXCEPT !.faults = @ + 1, !.damaged = @ \cup lost]
           \/ history' = [history EXCEPT !.admin = @ + 1]
           \/ history' = [history EXCEPT !.admin = @ + 1, !.damaged = @ \cup lost]
           \/ history' = [history EXCEPT !.admin = @ + 1, !.purged = @ \cup lost]
    PROVE  history' \in [damaged : SUBSET Run, purged : SUBSET Run, faults : Nat, admin : Nat]
<1>1. /\ history \in [damaged : SUBSET Run, purged : SUBSET Run, faults : Nat, admin : Nat]
      /\ history.faults + 1 \in Nat /\ history.admin + 1 \in Nat
      /\ history.damaged \cup lost \in SUBSET Run /\ history.purged \cup lost \in SUBSET Run
  BY DEF RunsInv
<1> QED
  BY <1>1

(* A step that gives run r the local variables x and sets no other run.    *)
LEMMA RunStep ==
    ASSUME RunsInv, NEW r \in Run, NEW x \in RunState,
           run' = [run EXCEPT ![r] = x],
           UNCHANGED <<envelope, cancelled, expired>>,
           history' \in [damaged : SUBSET Run, purged : SUBSET Run, faults : Nat, admin : Nat],
           RunGood(x, envelope[r].budget, r \in cancelled \cup expired)
    PROVE  RunsInv'
<1>1. /\ run' \in [Run -> RunState] /\ run'[r] = x
      /\ \A q \in Run : q # r => run'[q] = run[q]
  BY DEF RunsInv
<1>2. ASSUME NEW q \in Run
      PROVE  RunGood(run'[q], envelope'[q].budget, q \in cancelled' \cup expired')
  BY <1>1 DEF RunsInv
<1> QED
  BY <1>1, <1>2 DEF RunsInv

LEMMA InitInv == Init => IInv
<1> SUFFICES ASSUME Init PROVE IInv
  OBVIOUS
<1>1. MemoryInv
  <2>1. Stored({}, << >>, 0)
    BY DEF Stored, verify_audit_chain, HasLast
  <2> QED
    BY <2>1 DEF Init, memory_init, MemoryInv
<1>2. Fresh \in RunState
  BY DEF Fresh, RunState, Outcome
<1>3. ASSUME NEW r \in Run PROVE RunGood(Fresh, envelope[r].budget, r \in cancelled \cup expired)
  <2>1. envelope[r] \in Envelopes
    BY DEF Init
  <2>2. /\ envelope[r].budget.max_steps \in Nat /\ envelope[r].budget.max_tool_calls \in Nat
        /\ envelope[r].budget.max_cost \in Nat
    BY <2>1, RuntimeAssumption
  <2> QED
    BY <2>2 DEF Fresh, RunGood, Busy
<1>4. RunsInv
  BY <1>2, <1>3 DEF Init, RunsInv
<1> QED
  BY <1>1, <1>4 DEF IInv

(* The numbers of a run and of its budget.                                 *)
LEMMA RunTyped ==
    ASSUME RunsInv, NEW r \in Run
    PROVE  /\ run[r] \in RunState
           /\ envelope[r] \in Envelopes /\ envelope[r].tenant \in Tenant
           /\ envelope[r].budget.max_steps \in Nat
           /\ envelope[r].budget.max_tool_calls \in Nat
           /\ envelope[r].budget.max_cost \in Nat
           /\ RunGood(run[r], envelope[r].budget, r \in cancelled \cup expired)
<1>1. run[r] \in RunState /\ envelope[r] \in Envelopes
  BY DEF RunsInv
<1> QED
  BY <1>1, RuntimeAssumption DEF RunsInv

(* A step of run r that only moves its program counter, to a place where   *)
(* less is required of it.                                                 *)
LEMMA MoveGood ==
    ASSUME RunsInv, NEW r \in Run,
           NEW pc \in {"loop", "record_episode", "run_audit", "ended"},
           NEW outcome \in Outcome,
           pc = "loop" => run[r].pc = "new"
    PROVE  /\ [run[r] EXCEPT !.pc = pc, !.outcome = outcome] \in RunState
           /\ [run[r] EXCEPT !.pc = pc] \in RunState
           /\ RunGood([run[r] EXCEPT !.pc = pc, !.outcome = outcome], envelope[r].budget,
                      r \in cancelled \cup expired)
           /\ RunGood([run[r] EXCEPT !.pc = pc], envelope[r].budget, r \in cancelled \cup expired)
<1>1. run[r] \in RunState /\ RunGood(run[r], envelope[r].budget, r \in cancelled \cup expired)
  BY RunTyped
<1>2. /\ [run[r] EXCEPT !.pc = pc, !.outcome = outcome] \in RunState
      /\ [run[r] EXCEPT !.pc = pc] \in RunState
  BY <1>1 DEF RunState
<1> QED
  BY <1>1, <1>2 DEF RunGood, RunState, Busy

LEMMA FailRuns ==
    ASSUME RunsInv, NEW r \in Run, NEW outcome \in Outcome, Fail(r, outcome),
           UNCHANGED <<envelope, cancelled, expired, history>>
    PROVE  RunsInv'
<1> DEFINE x == [run[r] EXCEPT !.pc = "record_episode", !.outcome = outcome]
<1>1. x \in RunState /\ RunGood(x, envelope[r].budget, r \in cancelled \cup expired)
  BY MoveGood
<1>2. run' = [run EXCEPT ![r] = x]
  BY DEF Fail
<1>3. history' \in [damaged : SUBSET Run, purged : SUBSET Run, faults : Nat, admin : Nat]
  BY DEF RunsInv
<1> QED
  BY <1>1, <1>2, <1>3, RunStep

(* What changes only the run.                                              *)
LEMMA QuietRuns ==
    ASSUME RunsInv, quiet, NEW r \in Run, NEW x \in RunState, run' = [run EXCEPT ![r] = x],
           RunGood(x, envelope[r].budget, r \in cancelled \cup expired)
    PROVE  RunsInv'
<1>1. UNCHANGED <<envelope, cancelled, expired, history>>
  BY DEF quiet
<1>2. history' \in [damaged : SUBSET Run, purged : SUBSET Run, faults : Nat, admin : Nat]
  BY <1>1 DEF RunsInv
<1> QED
  BY <1>1, <1>2, RunStep

(* begin, the top of the loop and the checks before a call.                *)
LEMMA CheckRuns ==
    ASSUME RunsInv, NEW r \in Run, begin(r) \/ loop(r) \/ next_call(r)
    PROVE  RunsInv'
<1> DEFINE Moved(pc) == [run[r] EXCEPT !.pc = pc]
<1>1. quiet /\ UNCHANGED <<envelope, cancelled, expired, history>>
  BY DEF begin, loop, next_call, quiet
<1>2. /\ run[r] \in RunState /\ RunGood(run[r], envelope[r].budget, r \in cancelled \cup expired)
      /\ envelope[r].budget.max_steps \in Nat /\ envelope[r].budget.max_tool_calls \in Nat
  BY RunTyped
<1>3. CASE \E outcome \in Outcome : Fail(r, outcome)
  BY <1>1, <1>3, FailRuns
<1>4. CASE begin(r) /\ Go(r, "loop")
  <2>1. Moved("loop") \in RunState
        /\ RunGood(Moved("loop"), envelope[r].budget, r \in cancelled \cup expired)
    BY <1>4, <1>2 DEF begin, RunState, RunGood, Busy
  <2>2. run' = [run EXCEPT ![r] = Moved("loop")]
    BY <1>4 DEF Go
  <2> QED
    BY <1>1, <2>1, <2>2, QuietRuns
<1>5. CASE loop(r) /\ r \notin cancelled \cup expired /\ StepsLeft(r) /\ Go(r, "model")
  <2>1. Moved("model") \in RunState
        /\ RunGood(Moved("model"), envelope[r].budget, r \in cancelled \cup expired)
    BY <1>5, <1>2 DEF loop, StepsLeft, RunState, RunGood, Busy
  <2>2. run' = [run EXCEPT ![r] = Moved("model")]
    BY <1>5 DEF Go
  <2> QED
    BY <1>1, <2>1, <2>2, QuietRuns
<1>6. CASE next_call(r) /\ r \notin cancelled \cup expired /\ Go(r, "tool")
  <2>1. Moved("tool") \in RunState
        /\ RunGood(Moved("tool"), envelope[r].budget, r \in cancelled \cup expired)
    BY <1>6, <1>2 DEF next_call, RunState, RunGood, Busy
  <2>2. run' = [run EXCEPT ![r] = Moved("tool")]
    BY <1>6 DEF Go
  <2> QED
    BY <1>1, <2>1, <2>2, QuietRuns
<1> QED
  BY <1>3, <1>4, <1>5, <1>6 DEF begin, loop, next_call, Outcome

LEMMA ErrorRuns ==
    ASSUME RunsInv, NEW r \in Run, cancel_branch(r) \/ model_timeout(r) \/ model_error(r)
    PROVE  RunsInv'
<1>1. UNCHANGED <<envelope, cancelled, expired, history>>
      /\ \E outcome \in Outcome : Fail(r, outcome)
  BY DEF cancel_branch, model_timeout, model_error, quiet, Outcome
<1> QED
  BY <1>1, FailRuns

LEMMA ResponseRuns ==
    ASSUME RunsInv, NEW r \in Run, NEW n \in Nat, NEW c \in Nat, model_response(r, n, c)
    PROVE  RunsInv'
<1> DEFINE b == envelope[r].budget
           stop == r \in cancelled \cup expired
           cost == run[r].cost + c
           counted == [run[r] EXCEPT !.steps = @ + 1, !.cost = cost]
           failed == [counted EXCEPT !.pc = "record_episode", !.outcome = "failure"]
           answered(o) == [counted EXCEPT !.pc = "finish_episode", !.outcome = o]
           refused == [failed EXCEPT !.calls = @ + n]
           called == [counted EXCEPT !.pc = "calls", !.calls = @ + n, !.pending = n]
<1>1. /\ run[r] \in RunState /\ RunGood(run[r], b, stop) /\ run[r].pc = "model"
      /\ b.max_steps \in Nat /\ b.max_tool_calls \in Nat /\ b.max_cost \in Nat
  BY RunTyped DEF model_response
<1>1a. /\ run[r].steps \in Nat /\ run[r].calls \in Nat /\ run[r].cost \in Nat
       /\ run[r].pending \in Nat /\ run[r].started \in Nat /\ run[r].late \in Nat
  BY <1>1 DEF RunState
<1>1b. /\ run[r].steps < b.max_steps /\ run[r].started <= run[r].calls
       /\ run[r].calls <= b.max_tool_calls /\ run[r].late = 0
  BY <1>1, <1>1a DEF RunGood
<1>6. cost \in Nat /\ run[r].steps + 1 \in Nat /\ run[r].calls + n \in Nat
  BY <1>1a
<1>1c. /\ counted \in RunState /\ counted.steps = run[r].steps + 1 /\ counted.cost = cost
       /\ counted.calls = run[r].calls /\ counted.started = run[r].started
       /\ counted.late = run[r].late
  BY <1>1, <1>1a, <1>6 DEF RunState
<1> HIDE DEF counted, cost
<1>2. failed \in RunState /\ RunGood(failed, b, stop)
  <2>1. /\ failed \in RunState /\ failed.pc = "record_episode" /\ failed.steps = counted.steps
        /\ failed.started = counted.started /\ failed.late = counted.late
    BY <1>1c DEF RunState, Outcome
  <2> QED
    BY <2>1, <1>1, <1>1a, <1>1b, <1>1c DEF RunGood, Busy
<1>3. refused \in RunState /\ RunGood(refused, b, stop)
  <2>0. failed \in RunState /\ failed.calls = run[r].calls
    BY <1>1c DEF RunState, Outcome
  <2>1. /\ refused \in RunState /\ refused.pc = "record_episode" /\ refused.steps = counted.steps
        /\ refused.started = counted.started /\ refused.late = counted.late
    BY <2>0, <1>1c, <1>6 DEF RunState, Outcome
  <2> QED
    BY <2>1, <1>1, <1>1a, <1>1b, <1>1c DEF RunGood, Busy
<1>4. ASSUME NEW o \in Outcome, cost <= b.max_cost
      PROVE  answered(o) \in RunState /\ RunGood(answered(o), b, stop)
  <2>1. /\ answered(o) \in RunState /\ answered(o).pc = "finish_episode"
        /\ answered(o).steps = counted.steps /\ answered(o).cost = counted.cost
        /\ answered(o).started = counted.started /\ answered(o).late = counted.late
    BY <1>1c DEF RunState
  <2> QED
    BY <2>1, <1>1, <1>1a, <1>1b, <1>1c, <1>4 DEF RunGood, Busy
<1>5. ASSUME cost <= b.max_cost, n # 0, CallsLeft(r, n)
      PROVE  called \in RunState /\ RunGood(called, b, stop)
  <2>1. /\ called \in RunState /\ called.pc = "calls"
        /\ called.steps = counted.steps /\ called.cost = counted.cost
        /\ called.calls = run[r].calls + n /\ called.pending = n
        /\ called.started = counted.started /\ called.late = counted.late
    BY <1>1c, <1>1a, <1>6 DEF RunState
  <2>2. run[r].calls + n <= b.max_tool_calls
    BY <1>5 DEF CallsLeft
  <2> QED
    BY <2>1, <2>2, <1>1, <1>1a, <1>1b, <1>1c, <1>5 DEF RunGood, Busy
<1>7. \/ run' = [run EXCEPT ![r] = failed]
      \/ run' = [run EXCEPT ![r] = refused]
      \/ cost <= b.max_cost /\ \E o \in Outcome : run' = [run EXCEPT ![r] = answered(o)]
      \/ cost <= b.max_cost /\ n # 0 /\ CallsLeft(r, n) /\ run' = [run EXCEPT ![r] = called]
  <2>1. CASE cost > b.max_cost
    BY <2>1 DEF model_response, cost, counted
  <2>2. CASE ~(cost > b.max_cost) /\ n = 0
    <3>1. run' = [run EXCEPT ![r] = answered(IF run[r].good THEN "success" ELSE "partial_failure")]
      BY <2>2 DEF model_response, cost, counted
    <3>2. (IF run[r].good THEN "success" ELSE "partial_failure") \in Outcome /\ cost <= b.max_cost
      BY <2>2, <1>1, <1>6 DEF Outcome
    <3> QED
      BY <3>1, <3>2
  <2>3. CASE ~(cost > b.max_cost) /\ n # 0 /\ ~CallsLeft(r, n)
    BY <2>3 DEF model_response, cost, counted
  <2>4. CASE ~(cost > b.max_cost) /\ n # 0 /\ CallsLeft(r, n)
    <3>1. run' = [run EXCEPT ![r] = called]
      BY <2>4 DEF model_response, cost, counted
    <3>2. cost <= b.max_cost
      BY <2>4, <1>1, <1>6
    <3> HIDE DEF called
    <3> QED
      BY <3>1, <3>2, <2>4
  <2> QED
    BY <2>1, <2>2, <2>3, <2>4
<1> HIDE DEF failed, refused, answered, called
<1> QED
  BY <1>2, <1>3, <1>4, <1>5, <1>7, QuietRuns DEF model_response

LEMMA GateRuns ==
    ASSUME RunsInv, NEW r \in Run, NEW name, NEW valid \in BOOLEAN, gate(r, name, valid)
    PROVE  RunsInv'
<1> DEFINE b == envelope[r].budget
           stop == r \in cancelled \cup expired
           answered(ok) == [run[r] EXCEPT !.pc = "tool_audit", !.started = @ + 1, !.success = ok]
           entered(n) == [run[r] EXCEPT !.pc = "executing", !.started = @ + 1, !.late = n]
<1>1. /\ run[r] \in RunState /\ RunGood(run[r], b, stop) /\ run[r].pc = "tool"
      /\ b.max_steps \in Nat /\ b.max_tool_calls \in Nat /\ b.max_cost \in Nat
  BY RunTyped DEF gate
<1>2. run[r].late = 0
  BY <1>1 DEF RunGood, RunState
<1>2a. /\ run[r].steps \in Nat /\ run[r].calls \in Nat /\ run[r].cost \in Nat
       /\ run[r].pending \in Nat /\ run[r].started \in Nat /\ run[r].started + 1 \in Nat
  BY <1>1 DEF RunState
<1>2b. /\ run[r].steps <= b.max_steps /\ run[r].cost <= b.max_cost /\ run[r].pending >= 1
       /\ run[r].started + run[r].pending <= run[r].calls /\ run[r].calls <= b.max_tool_calls
  BY <1>1, <1>2a DEF RunGood, Busy
<1>3. ASSUME NEW ok \in BOOLEAN PROVE answered(ok) \in RunState /\ RunGood(answered(ok), b, stop)
  <2>1. /\ answered(ok) \in RunState /\ answered(ok).pc = "tool_audit"
        /\ answered(ok).steps = run[r].steps /\ answered(ok).cost = run[r].cost
        /\ answered(ok).calls = run[r].calls /\ answered(ok).pending = run[r].pending
        /\ answered(ok).started = run[r].started + 1 /\ answered(ok).late = run[r].late
    BY <1>1, <1>2a DEF RunState
  <2> QED
    BY <2>1, <1>1, <1>2, <1>2a, <1>2b DEF RunGood, Busy
<1>4. ASSUME NEW n \in {0, 1}, n = 1 => stop
      PROVE  entered(n) \in RunState /\ RunGood(entered(n), b, stop)
  <2>1. /\ entered(n) \in RunState /\ entered(n).pc = "executing"
        /\ entered(n).steps = run[r].steps /\ entered(n).cost = run[r].cost
        /\ entered(n).calls = run[r].calls /\ entered(n).pending = run[r].pending
        /\ entered(n).started = run[r].started + 1 /\ entered(n).late = n
    <3>1. n \in Nat
      BY <1>4
    <3> QED
      BY <3>1, <1>1, <1>2a DEF RunState
  <2> QED
    BY <2>1, <1>4, <1>1, <1>2a, <1>2b DEF RunGood, Busy
<1>5. \/ \E ok \in BOOLEAN : run' = [run EXCEPT ![r] = answered(ok)]
      \/ \E n \in {0, 1} : (n = 1 => stop) /\ run' = [run EXCEPT ![r] = entered(n)]
  <2>1. CASE \/ run' = [run EXCEPT ![r] = answered(FALSE)]
             \/ run' = [run EXCEPT ![r] = answered(TRUE)]
    <3> HIDE DEF answered
    <3> QED
      BY <2>1
  <2>2. CASE stop /\ run' = [run EXCEPT ![r] = entered(run[r].late + 1)]
    <3>1. run[r].late + 1 = 1
      BY <1>2
    <3> HIDE DEF entered
    <3> QED
      BY <2>2, <3>1
  <2>3. CASE ~stop /\ run' = [run EXCEPT ![r] = entered(run[r].late)]
    <3> HIDE DEF entered
    <3> QED
      BY <2>3, <1>2
  <2> QED
    BY <2>1, <2>2, <2>3 DEF gate
<1> HIDE DEF answered, entered
<1> QED
  BY <1>3, <1>4, <1>5, QuietRuns DEF gate

LEMMA ToolRuns ==
    ASSUME RunsInv, NEW r \in Run, (\E ok \in BOOLEAN : tool_returns(r, ok)) \/ tool_timeout(r)
    PROVE  RunsInv'
<1> DEFINE x(ok) == [run[r] EXCEPT !.pc = "tool_audit", !.success = ok]
<1>1. PICK ok \in BOOLEAN : run' = [run EXCEPT ![r] = x(ok)]
  BY DEF tool_returns, tool_timeout
<1>2. /\ run[r] \in RunState /\ RunGood(run[r], envelope[r].budget, r \in cancelled \cup expired)
      /\ run[r].pc = "executing" /\ quiet
  BY RunTyped DEF tool_returns, tool_timeout
<1>3. x(ok) \in RunState /\ RunGood(x(ok), envelope[r].budget, r \in cancelled \cup expired)
  BY <1>2 DEF RunState, RunGood, Busy
<1> QED
  BY <1>1, <1>2, <1>3, QuietRuns

-----------------------------------------------------------------------------
(* Writes: the memory and the run together                                 *)

LEMMA ToolAuditInv ==
    ASSUME IInv, NEW r \in Run, tool_audit(r)
    PROVE  IInv'
<1> DEFINE b == envelope[r].budget
           stop == r \in cancelled \cup expired
           next == IF run[r].pending = 1 THEN "loop" ELSE "calls"
           x == [run[r] EXCEPT !.pc = next, !.pending = @ - 1,
                               !.good = @ /\ run[r].success, !.success = TRUE]
<1>1. /\ run[r] \in RunState /\ RunGood(run[r], b, stop) /\ run[r].pc = "tool_audit"
      /\ b.max_steps \in Nat /\ b.max_tool_calls \in Nat /\ b.max_cost \in Nat
      /\ envelope[r].tenant \in Tenant
  BY RunTyped DEF tool_audit, IInv
<1>2. ToolOutcome(r) \in Outcome
  BY DEF ToolOutcome, Outcome
<1>3. MemoryInv'
  BY <1>1, <1>2, AppendAuditMemory DEF tool_audit, Write, IInv
<1>4. /\ run[r].steps \in Nat /\ run[r].calls \in Nat /\ run[r].cost \in Nat
      /\ run[r].pending \in Nat /\ run[r].started \in Nat /\ run[r].late \in Nat
      /\ run[r].good \in BOOLEAN /\ run[r].success \in BOOLEAN
  BY <1>1 DEF RunState
<1>5. /\ run[r].steps <= b.max_steps /\ run[r].cost <= b.max_cost /\ run[r].pending >= 1
      /\ run[r].started + run[r].pending <= run[r].calls + 1 /\ run[r].calls <= b.max_tool_calls
      /\ run[r].late <= 1 /\ (run[r].late > 0 => stop) /\ run[r].started <= b.max_tool_calls
  BY <1>1, <1>4 DEF RunGood, Busy
<1>6. run[r].pending - 1 \in Nat /\ (run[r].good /\ run[r].success) \in BOOLEAN
      /\ next \in {"loop", "calls"}
  BY <1>4, <1>5
<1>7. /\ x \in RunState /\ x.pc = next /\ x.steps = run[r].steps /\ x.cost = run[r].cost
      /\ x.calls = run[r].calls /\ x.pending = run[r].pending - 1
      /\ x.started = run[r].started /\ x.late = run[r].late
  BY <1>1, <1>6 DEF RunState
<1>8. run' = [run EXCEPT ![r] = x]
  BY DEF tool_audit
<1> HIDE DEF x
<1>9. RunGood(x, b, stop)
  BY <1>1, <1>4, <1>5, <1>7 DEF RunGood, Busy
<1>10. RunsInv'
  <2>1. UNCHANGED <<envelope, cancelled, expired, history>>
    BY DEF tool_audit, Write
  <2>2. history' \in [damaged : SUBSET Run, purged : SUBSET Run, faults : Nat, admin : Nat]
    BY <2>1 DEF IInv, RunsInv
  <2> QED
    BY <1>7, <1>8, <1>9, <2>1, <2>2, RunStep DEF IInv
<1> QED
  BY <1>3, <1>10 DEF IInv

(* The program counter moves on, whatever the write did.                   *)
LEMMA GoRuns ==
    ASSUME RunsInv, NEW r \in Run, NEW pc \in {"run_audit", "ended"}, Go(r, pc),
           UNCHANGED <<envelope, cancelled, expired>>,
           history' \in [damaged : SUBSET Run, purged : SUBSET Run, faults : Nat, admin : Nat]
    PROVE  RunsInv'
<1> DEFINE x == [run[r] EXCEPT !.pc = pc]
<1>1. x \in RunState /\ RunGood(x, envelope[r].budget, r \in cancelled \cup expired)
  BY MoveGood DEF Outcome
<1>2. run' = [run EXCEPT ![r] = x]
  BY DEF Go
<1> HIDE DEF x
<1> QED
  BY <1>1, <1>2, RunStep

LEMMA WriteInv ==
    ASSUME IInv, NEW r \in Run, run_episode(r) \/ run_audit(r)
    PROVE  IInv'
<1>1. envelope[r].tenant \in Tenant /\ run[r] \in RunState
  BY RunTyped DEF IInv
<1>2. run[r].outcome \in Outcome
  BY <1>1 DEF RunState
<1>3. history' \in [damaged : SUBSET Run, purged : SUBSET Run, faults : Nat, admin : Nat]
      /\ UNCHANGED <<envelope, cancelled, expired>>
  BY DEF run_episode, run_audit, Write, IInv, RunsInv
<1>4. CASE run_episode(r)
  BY <1>1, <1>2, <1>3, <1>4, AppendEpisodeMemory, GoRuns DEF run_episode, Write, IInv
<1>5. CASE run_audit(r)
  BY <1>1, <1>2, <1>3, <1>5, AppendAuditMemory, GoRuns DEF run_audit, Write, IInv
<1> QED
  BY <1>4, <1>5

LEMMA WriteFailsInv ==
    ASSUME IInv, NEW r \in Run, tool_audit_fails(r) \/ run_episode_fails(r) \/ run_audit_fails(r)
    PROVE  IInv'
<1>1. WriteFails(r) /\ Go(r, "ended")
  BY DEF tool_audit_fails, run_episode_fails, run_audit_fails
<1>2. history' \in [damaged : SUBSET Run, purged : SUBSET Run, faults : Nat, admin : Nat]
  <2>1. {r} \in SUBSET Run
    OBVIOUS
  <2> QED
    BY <1>1, <2>1, HistoryTyped DEF WriteFails, IInv
<1>3. MemoryInv'
  BY <1>1, AdminMemory DEF WriteFails, IInv
<1>4. RunsInv'
  BY <1>1, <1>2, GoRuns DEF WriteFails, IInv
<1> QED
  BY <1>3, <1>4 DEF IInv

-----------------------------------------------------------------------------
(* The operator, the clock, the process and the administrator              *)

LEMMA SignalInv ==
    ASSUME IInv, NEW r \in Run, cancel(r) \/ deadline(r)
    PROVE  IInv'
<1>1. /\ UNCHANGED <<memory_vars, envelope, run, history>>
      /\ cancelled \subseteq cancelled' /\ expired \subseteq expired'
      /\ cancelled' \subseteq Run /\ expired' \subseteq Run
  BY DEF cancel, deadline, IInv, RunsInv
<1>2. MemoryInv'
  BY <1>1, AdminMemory DEF IInv
<1>3. ASSUME NEW q \in Run
      PROVE  RunGood(run'[q], envelope'[q].budget, q \in cancelled' \cup expired')
  BY <1>1 DEF IInv, RunsInv, RunGood
<1> QED
  BY <1>1, <1>2, <1>3 DEF IInv, RunsInv

LEMMA CrashInv ==
    ASSUME IInv, crash
    PROVE  IInv'
<1>1. MemoryInv'
  BY AdminMemory DEF crash, IInv
<1>2. history' \in [damaged : SUBSET Run, purged : SUBSET Run, faults : Nat, admin : Nat]
  BY HistoryTyped DEF crash, IInv
<1>3. ASSUME NEW q \in Run
      PROVE  /\ run'[q] \in RunState
             /\ RunGood(run'[q], envelope[q].budget, q \in cancelled \cup expired)
  <2>1. run'[q] = [run[q] EXCEPT !.pc = "ended"] \/ run'[q] = run[q]
    BY DEF crash
  <2>2. /\ [run[q] EXCEPT !.pc = "ended"] \in RunState
        /\ RunGood([run[q] EXCEPT !.pc = "ended"], envelope[q].budget, q \in cancelled \cup expired)
    BY MoveGood DEF IInv, Outcome
  <2>3. run[q] \in RunState /\ RunGood(run[q], envelope[q].budget, q \in cancelled \cup expired)
    BY RunTyped DEF IInv
  <2> QED
    BY <2>1, <2>2, <2>3
<1>4. RunsInv'
  BY <1>2, <1>3 DEF crash, IInv, RunsInv
<1> QED
  BY <1>1, <1>4 DEF IInv

LEMMA AdminInv ==
    ASSUME IInv, (\E t \in Tenant : purge(t) \/ control_event(t)) \/ backup \/ restore
    PROVE  IInv'
<1>1. MemoryInv'
  <2>1. CASE \E t \in Tenant : purge(t)
    BY <2>1, AdminMemory DEF purge, Administer, IInv
  <2>2. ASSUME NEW t \in Tenant, control_event(t) PROVE MemoryInv'
    BY <2>2, AppendAuditMemory DEF control_event, Administer, IInv, Outcome
  <2>3. CASE backup \/ restore
    BY <2>3, AdminMemory DEF backup, restore, Administer, IInv
  <2> QED
    BY <2>1, <2>2, <2>3
<1>2. history' \in [damaged : SUBSET Run, purged : SUBSET Run, faults : Nat, admin : Nat]
  <2>1. \A e \in episodes : e.run \in Run
    BY DEF IInv, MemoryInv, Stored, EpisodicRecord
  <2>2. {e.run : e \in episodes \ episodes'} \subseteq Run
    BY <2>1
  <2> QED
    BY <2>2, HistoryTyped DEF purge, control_event, backup, restore, IInv
<1>3. UNCHANGED <<envelope, run, cancelled, expired>>
  BY DEF purge, control_event, backup, restore, Administer
<1>4. RunsInv'
  BY <1>2, <1>3 DEF IInv, RunsInv
<1> QED
  BY <1>1, <1>4 DEF IInv

-----------------------------------------------------------------------------
(* A step that leaves the memory alone and keeps the runs.                 *)
LEMMA QuietInv ==
    ASSUME IInv, quiet, RunsInv'
    PROVE  IInv'
BY AdminMemory DEF IInv, quiet

LEMMA StepInv ==
    ASSUME IInv, [Next]_vars
    PROVE  IInv'
<1>1. CASE UNCHANGED vars
  <2>1. MemoryInv'
    BY <1>1, AdminMemory DEF vars, IInv
  <2> QED
    BY <1>1, <2>1 DEF vars, IInv, RunsInv
<1>2. ASSUME NEW r \in Run, begin(r) \/ loop(r) \/ next_call(r) PROVE IInv'
  BY <1>2, CheckRuns, QuietInv DEF begin, loop, next_call, IInv
<1>3. ASSUME NEW r \in Run, cancel_branch(r) \/ model_timeout(r) \/ model_error(r) PROVE IInv'
  BY <1>3, ErrorRuns, QuietInv DEF cancel_branch, model_timeout, model_error, IInv
<1>4. ASSUME NEW r \in Run, NEW n \in 0..MaxProposed, NEW c \in 0..1, model_response(r, n, c)
      PROVE  IInv'
  <2>1. n \in Nat /\ c \in Nat
    OBVIOUS
  <2> QED
    BY <1>4, <2>1, ResponseRuns, QuietInv DEF model_response, IInv
<1>5. ASSUME NEW r \in Run, NEW name \in Name, NEW valid \in BOOLEAN, gate(r, name, valid)
      PROVE  IInv'
  BY <1>5, GateRuns, QuietInv DEF gate, IInv
<1>6. ASSUME NEW r \in Run, (\E ok \in BOOLEAN : tool_returns(r, ok)) \/ tool_timeout(r)
      PROVE  IInv'
  BY <1>6, ToolRuns, QuietInv DEF tool_returns, tool_timeout, IInv
<1>7. ASSUME NEW r \in Run, RuntimeStep(r) PROVE IInv'
  BY <1>7, <1>2, <1>3, <1>5, <1>6, ToolAuditInv, WriteInv, WriteFailsInv DEF RuntimeStep
<1>8. ASSUME NEW r \in Run, ModelStep(r) \/ ToolStep(r) PROVE IInv'
  BY <1>8, <1>3, <1>4, <1>6 DEF ModelStep, ToolStep
<1>9. ASSUME NEW r \in Run, cancel(r) \/ deadline(r) PROVE IInv'
  BY <1>9, SignalInv
<1>10. CASE crash
  BY <1>10, CrashInv
<1>11. CASE (\E t \in Tenant : purge(t) \/ control_event(t)) \/ backup \/ restore
  BY <1>11, AdminInv
<1> QED
  BY <1>1, <1>2, <1>7, <1>8, <1>9, <1>10, <1>11 DEF Next

LEMMA Invariance == Spec => []IInv
BY InitInv, StepInv, PTL DEF Spec

(* The rows of the memory and the local variables of every run keep their  *)
(* shape, and no row takes the number of a row to come.                    *)
THEOREM TypeCorrect == Spec => []TypeOK
<1>1. IInv => TypeOK
  BY DEF IInv, MemoryInv, RunsInv, Stored, TypeOK
<1> QED
  BY <1>1, Invariance, PTL

(* append_audit_event: the chain of every tenant verifies, in the database *)
(* and in the backup, whatever runs, faults, purges and restores there     *)
(* were.                                                                   *)
THEOREM ChainAlwaysValid == Spec => []ChainValid
<1>1. IInv => ChainValid
  BY DEF IInv, MemoryInv, Stored, ChainValid
<1> QED
  BY <1>1, Invariance, PTL

(* run_with_cancellation_and_scope: no run exceeds its budget.             *)
THEOREM BudgetAlwaysHolds == Spec => []BudgetHolds
<1>1. IInv => BudgetHolds
  BY DEF IInv, RunsInv, RunGood, Busy, BudgetHolds
<1> QED
  BY <1>1, Invariance, PTL

(* At most one tool starts after the token was set or the deadline passed. *)
THEOREM StopIsPrompt == Spec => []StopsPromptly
<1>1. IInv => StopsPromptly
  BY DEF IInv, RunsInv, RunGood, StopsPromptly
<1> QED
  BY <1>1, Invariance, PTL

-----------------------------------------------------------------------------
(* The evidence a run leaves                                               *)

Going == {"new", "loop", "model", "calls", "tool", "executing", "tool_audit"}

Clean(rows, eps, r) ==
    /\ \A i \in 1..Len(rows) : rows[i].run # r
    /\ \A e \in eps : e.run # r

EpisodeKept(r) == \E e \in episodes : EpisodesOf(r) = {e} /\ e.outcome = run[r].outcome

EventKept(r) ==
    \E i \in 1..Len(audit) :
        /\ EventsOf(r, "agent.run") = {i}
        /\ audit[i].outcome = run[r].outcome
        /\ \A j \in EventsOf(r, "tool.execute") : j < i

(* Calls that have started and have no event.                              *)
Due(x) == IF x.pc \in {"executing", "tool_audit"} THEN 1 ELSE 0

(* The rows of one run, by how far it is.  A run that has not begun has no *)
(* row in the backup either, so that a restore cannot bring one.           *)
Evidence(r) ==
    /\ run[r].pc = "new" =>
         /\ run[r].started = 0
         /\ Clean(audit, episodes, r)
         /\ snapshot # None => Clean(snapshot.audit, snapshot.episodes, r)
    /\ run[r].pc \in Going => run[r].outcome # "cancelled"
    /\ r \notin history.damaged =>
         /\ run[r].pc \notin {"run_audit", "ended"} => EpisodesOf(r) = {}
         /\ run[r].pc \in {"run_audit", "ended"} /\ r \notin history.purged => EpisodeKept(r)
         /\ run[r].pc # "ended" => EventsOf(r, "agent.run") = {}
         /\ run[r].pc = "ended" => EventKept(r)
         /\ Unaudited(r) = Due(run[r]) \/ (run[r].outcome = "cancelled" /\ Unaudited(r) = 1)

EvidenceInv == \A r \in Run : Evidence(r)

LEMMA EventsFinite ==
    ASSUME MemoryInv, NEW r, NEW action
    PROVE  /\ IsFiniteSet(EventsOf(r, action))
           /\ Cardinality(EventsOf(r, action)) \in Nat
           /\ Len(audit) + 1 \notin EventsOf(r, action)
<1>1. Len(audit) \in Nat
  BY DEF MemoryInv, Stored
<1>2. EventsOf(r, action) \subseteq 1..Len(audit)
  BY DEF EventsOf
<1>3. IsFiniteSet(EventsOf(r, action))
  <2>1. IsFiniteSet(1..Len(audit))
    BY <1>1, FS_Interval
  <2> QED
    BY <1>2, <2>1, FS_Subset
<1> QED
  BY <1>1, <1>2, <1>3, FS_CardinalityType

(* Adding an event adds its row to the events it counts for, and nothing   *)
(* else.                                                                   *)
LEMMA EventAdded ==
    ASSUME MemoryInv, NEW t, NEW r, NEW action, NEW outcome,
           append_audit_event(t, r, action, outcome)
    PROVE  /\ Len(audit) \in Nat /\ Len(audit') = Len(audit) + 1
           /\ \A i \in 1..Len(audit) : audit'[i] = audit[i]
           /\ audit'[Len(audit) + 1].run = r /\ audit'[Len(audit) + 1].outcome = outcome
           /\ \A q, a : EventsOf(q, a)' = IF q = r /\ a = action
                                          THEN EventsOf(q, a) \cup {Len(audit) + 1}
                                          ELSE EventsOf(q, a)
           /\ UNCHANGED <<episodes, snapshot>>
<1> DEFINE n == Len(audit)
           e == [hash |-> fresh, previous |-> previous_hash(audit, t, Len(audit)), tenant |-> t,
                 run |-> r, action |-> action, outcome |-> outcome]
<1>1. audit' = Append(audit, e) /\ audit \in Seq(AuditEvent) /\ UNCHANGED <<episodes, snapshot>>
  BY DEF append_audit_event, MemoryInv, Stored
<1>2. e.run = r /\ e.action = action /\ e.outcome = outcome
  OBVIOUS
<1> HIDE DEF e
<1>3. /\ n \in Nat /\ Len(audit') = n + 1 /\ audit'[n + 1] = e
      /\ \A i \in 1..n : audit'[i] = audit[i]
  BY <1>1
<1>4. ASSUME NEW q, NEW a
      PROVE  EventsOf(q, a)' = IF q = r /\ a = action THEN EventsOf(q, a) \cup {n + 1}
                                                      ELSE EventsOf(q, a)
  <2>1. \A i \in 1..(n + 1) : i \in 1..n \/ i = n + 1
    BY <1>3
  <2> QED
    BY <1>2, <1>3, <2>1 DEF EventsOf
<1> QED
  BY <1>1, <1>2, <1>3, <1>4

(* A step that moves neither the run q nor its rows, except that its       *)
(* episodes may be purged or some of its evidence declared lost.           *)
LEMMA OtherEvidence ==
    ASSUME MemoryInv, NEW q \in Run, Evidence(q), run'[q] = run[q],
           history.damaged \subseteq history'.damaged,
           history.purged \subseteq history'.purged,
           run[q].pc = "new" =>
             /\ Clean(audit', episodes', q)
             /\ snapshot' # None => Clean(snapshot'.audit, snapshot'.episodes, q),
           q \notin history'.damaged =>
             /\ EpisodesOf(q)' \subseteq EpisodesOf(q)
             /\ q \notin history'.purged => EpisodesOf(q)' = EpisodesOf(q)
             /\ \A a : EventsOf(q, a)' = EventsOf(q, a)
             /\ \A i \in 1..Len(audit) : i \in 1..Len(audit') /\ audit'[i] = audit[i]
    PROVE  Evidence(q)'
<1>1. run[q].pc = "new" =>
        /\ run'[q].started = 0
        /\ Clean(audit', episodes', q)
        /\ snapshot' # None => Clean(snapshot'.audit, snapshot'.episodes, q)
  BY DEF Evidence
<1>2. run'[q].pc \in Going => run'[q].outcome # "cancelled"
  BY DEF Evidence
<1>3. ASSUME q \notin history'.damaged
      PROVE  /\ run'[q].pc \notin {"run_audit", "ended"} => EpisodesOf(q)' = {}
             /\ run'[q].pc \in {"run_audit", "ended"} /\ q \notin history'.purged => EpisodeKept(q)'
             /\ run'[q].pc # "ended" => EventsOf(q, "agent.run")' = {}
             /\ run'[q].pc = "ended" => EventKept(q)'
             /\ Unaudited(q)' = Unaudited(q)
  <2>1. q \notin history.damaged
    BY <1>3
  <2>2. run'[q].pc \notin {"run_audit", "ended"} => EpisodesOf(q)' = {}
    BY <1>3, <2>1 DEF Evidence
  <2>3. run'[q].pc # "ended" => EventsOf(q, "agent.run")' = {}
    BY <1>3, <2>1 DEF Evidence
  <2>4. ASSUME run'[q].pc \in {"run_audit", "ended"}, q \notin history'.purged
        PROVE  EpisodeKept(q)'
    <3>1. PICK e \in episodes : EpisodesOf(q) = {e} /\ e.outcome = run[q].outcome
      BY <2>1, <2>4 DEF Evidence, EpisodeKept
    <3>2. EpisodesOf(q)' = {e}
      BY <1>3, <2>4, <3>1
    <3>3. e \in episodes'
      BY <3>2 DEF EpisodesOf
    <3> QED
      BY <3>1, <3>2, <3>3 DEF EpisodeKept
  <2>5. ASSUME run'[q].pc = "ended" PROVE EventKept(q)'
    <3>1. PICK i \in 1..Len(audit) :
             /\ EventsOf(q, "agent.run") = {i}
             /\ audit[i].outcome = run[q].outcome
             /\ \A j \in EventsOf(q, "tool.execute") : j < i
      BY <2>1, <2>5 DEF Evidence, EventKept
    <3> QED
      BY <1>3, <3>1 DEF EventKept
  <2>6. Unaudited(q)' = Unaudited(q)
    BY <1>3 DEF Unaudited
  <2> QED
    BY <2>2, <2>3, <2>4, <2>5, <2>6
<1>4. q \notin history'.damaged =>
        Unaudited(q)' = Due(run'[q]) \/ (run'[q].outcome = "cancelled" /\ Unaudited(q)' = 1)
  BY <1>3 DEF Evidence
<1> QED
  BY <1>1, <1>2, <1>3, <1>4 DEF Evidence

(* A step of r that leaves memory and history alone.                       *)
LEMMA QuietEvidence ==
    ASSUME IInv, EvidenceInv, quiet, NEW r \in Run, NEW x \in RunState,
           run' = [run EXCEPT ![r] = x],
           run[r].pc \in Going,
           x.pc \in Going \cup {"record_episode", "finish_episode"}, x.pc # "new",
           x.pc \in Going => /\ x.outcome # "cancelled"
                             /\ x.started = run[r].started + Due(x) - Due(run[r]),
           x.pc \notin Going => /\ x.started = run[r].started
                                /\ Due(run[r]) = 0 \/ x.outcome = "cancelled"
    PROVE  EvidenceInv'
<1>1. /\ UNCHANGED <<episodes, audit, snapshot, history>>
      /\ run'[r] = x /\ \A q \in Run : q # r => run'[q] = run[q]
  BY DEF quiet, memory_vars, IInv, RunsInv
<1>2. ASSUME NEW q \in Run, q # r PROVE Evidence(q)'
  <2>1. Evidence(q)
    BY DEF EvidenceInv
  <2>2. EpisodesOf(q)' = EpisodesOf(q) /\ \A a : EventsOf(q, a)' = EventsOf(q, a)
    BY <1>1 DEF EpisodesOf, EventsOf
  <2>3. run[q].pc = "new" =>
             /\ Clean(audit', episodes', q)
             /\ snapshot' # None => Clean(snapshot'.audit, snapshot'.episodes, q)
    BY <1>1, <2>1 DEF Evidence
  <2> QED
    BY <1>1, <1>2, <2>1, <2>2, <2>3, OtherEvidence DEF IInv
<1>3. Evidence(r)'
  <2>1. Evidence(r) /\ run[r] \in RunState
    BY DEF EvidenceInv, IInv, RunsInv
  <2>2. EpisodesOf(r)' = EpisodesOf(r) /\ \A a : EventsOf(r, a)' = EventsOf(r, a)
    BY <1>1 DEF EpisodesOf, EventsOf
  <2>3. x.pc \notin {"new", "run_audit", "ended"} /\ run[r].pc \notin {"run_audit", "ended"}
    BY DEF Going
  <2>4. ASSUME r \notin history.damaged
        PROVE  Unaudited(r)' = Due(x) \/ (x.outcome = "cancelled" /\ Unaudited(r)' = 1)
    <3> DEFINE C == Cardinality(EventsOf(r, "tool.execute"))
    <3>1. C \in Nat /\ run[r].started \in Nat /\ x.started \in Nat
      BY <2>1, EventsFinite DEF IInv, RunState
    <3>2. run[r].started - C = Due(run[r])
      BY <2>1, <2>4 DEF Evidence, Unaudited
    <3>3. Unaudited(r)' = x.started - C
      BY <1>1, <2>2 DEF Unaudited
    <3>4. Due(x) \in {0, 1} /\ Due(run[r]) \in {0, 1}
      BY DEF Due
    <3>5. x.pc \notin Going => Due(x) = 0
      BY DEF Due, Going
    <3> HIDE DEF C
    <3> QED
      BY <3>1, <3>2, <3>3, <3>4, <3>5
  <2> QED
    BY <1>1, <2>1, <2>2, <2>3, <2>4 DEF Evidence
<1> QED
  BY <1>2, <1>3 DEF EvidenceInv

(* Checks, errors, the answer of the model, and the calls up to their      *)
(* result.                                                                 *)
LEMMA CheckEvidence ==
    ASSUME IInv, EvidenceInv, NEW r \in Run, begin(r) \/ loop(r) \/ next_call(r)
    PROVE  EvidenceInv'
<1>1. run[r] \in RunState /\ Evidence(r) /\ quiet /\ run[r].pc \in {"new", "loop", "calls"}
  BY DEF begin, loop, next_call, IInv, RunsInv, EvidenceInv
<1>2. CASE \E outcome \in {"failure", "cancelled"} : Fail(r, outcome)
  <2>1. PICK outcome \in {"failure", "cancelled"} : Fail(r, outcome)
    BY <1>2
  <2> DEFINE x == [run[r] EXCEPT !.pc = "record_episode", !.outcome = outcome]
  <2>2. x \in RunState /\ x.pc = "record_episode" /\ x.started = run[r].started
    BY <1>1 DEF RunState, Outcome
  <2>3. run' = [run EXCEPT ![r] = x]
    BY <2>1 DEF Fail
  <2>4. Due(run[r]) = 0 /\ run[r].pc \in Going /\ x.pc \notin Going
    BY <1>1, <2>2 DEF Due, Going
  <2> HIDE DEF x
  <2> QED
    BY <1>1, <2>2, <2>3, <2>4, QuietEvidence
<1>3. CASE \E pc \in {"loop", "model", "tool"} : Go(r, pc)
  <2>1. PICK pc \in {"loop", "model", "tool"} : Go(r, pc)
    BY <1>3
  <2> DEFINE x == [run[r] EXCEPT !.pc = pc]
  <2>2. x \in RunState /\ x.pc = pc /\ x.started = run[r].started /\ x.outcome = run[r].outcome
    BY <1>1 DEF RunState
  <2>3. run' = [run EXCEPT ![r] = x]
    BY <2>1 DEF Go
  <2>4. Due(run[r]) = 0 /\ Due(x) = 0 /\ run[r].pc \in Going /\ x.pc \in Going
    BY <1>1, <2>2 DEF Due, Going
  <2>5. x.outcome # "cancelled" /\ x.started = run[r].started + Due(x) - Due(run[r])
    BY <1>1, <2>2, <2>4 DEF Evidence, RunState
  <2> HIDE DEF x
  <2> QED
    BY <1>1, <2>2, <2>3, <2>4, <2>5, QuietEvidence
<1> QED
  BY <1>2, <1>3 DEF begin, loop, next_call

LEMMA ErrorEvidence ==
    ASSUME IInv, EvidenceInv, NEW r \in Run, cancel_branch(r) \/ model_timeout(r) \/ model_error(r)
    PROVE  EvidenceInv'
<1>1. /\ run[r] \in RunState /\ quiet
      /\ \E outcome \in {"failure", "cancelled"} :
           Fail(r, outcome) /\ (outcome = "cancelled" \/ run[r].pc = "model")
      /\ run[r].pc \in {"model", "tool", "executing"}
  BY DEF cancel_branch, model_timeout, model_error, IInv, RunsInv
<1>2. PICK outcome \in {"failure", "cancelled"} :
         Fail(r, outcome) /\ (outcome = "cancelled" \/ run[r].pc = "model")
  BY <1>1
<1> DEFINE x == [run[r] EXCEPT !.pc = "record_episode", !.outcome = outcome]
<1>3. /\ x \in RunState /\ x.pc = "record_episode" /\ x.started = run[r].started
      /\ x.outcome = outcome
  BY <1>1 DEF RunState, Outcome
<1>4. run' = [run EXCEPT ![r] = x]
  BY <1>2 DEF Fail
<1>5. /\ run[r].pc \in Going /\ x.pc \notin Going
      /\ Due(run[r]) = 0 \/ x.outcome = "cancelled"
  BY <1>1, <1>2, <1>3 DEF Due, Going
<1> HIDE DEF x
<1> QED
  BY <1>1, <1>3, <1>4, <1>5, QuietEvidence

(* Whatever the model answers, no call has started when the answer has     *)
(* been dealt with, and only an error or the end of the run sets the       *)
(* outcome.                                                                *)
LEMMA ResponseEffect ==
    ASSUME RunsInv, NEW r \in Run, NEW n \in Nat, NEW c \in Nat, model_response(r, n, c)
    PROVE  \E x \in RunState :
             /\ run' = [run EXCEPT ![r] = x]
             /\ x.pc \in {"record_episode", "finish_episode", "calls"}
             /\ x.started = run[r].started
             /\ x.pc = "calls" => x.outcome = run[r].outcome
<1> DEFINE y == run[r]
           cost == y.cost + c
           counted == [y EXCEPT !.steps = @ + 1, !.cost = cost]
           failed == [counted EXCEPT !.pc = "record_episode", !.outcome = "failure"]
           answered(o) == [counted EXCEPT !.pc = "finish_episode", !.outcome = o]
           refused == [failed EXCEPT !.calls = @ + n]
           called == [counted EXCEPT !.pc = "calls", !.calls = @ + n, !.pending = n]
<1>1. y \in RunState /\ y.steps + 1 \in Nat /\ cost \in Nat /\ y.calls + n \in Nat
  BY DEF RunsInv, RunState
<1>2. /\ counted \in RunState /\ counted.started = y.started /\ counted.outcome = y.outcome
      /\ counted.calls = y.calls
  BY <1>1 DEF RunState
<1>3. \/ run' = [run EXCEPT ![r] = failed]
      \/ run' = [run EXCEPT ![r] = answered("success")]
      \/ run' = [run EXCEPT ![r] = answered("partial_failure")]
      \/ run' = [run EXCEPT ![r] = refused]
      \/ run' = [run EXCEPT ![r] = called]
  BY DEF model_response
<1> HIDE DEF counted
<1>4. /\ failed \in RunState /\ failed.pc = "record_episode" /\ failed.started = y.started
      /\ failed.calls = y.calls
  BY <1>2 DEF RunState, Outcome
<1>5. /\ answered("success") \in RunState /\ answered("success").pc = "finish_episode"
      /\ answered("success").started = y.started
      /\ answered("partial_failure") \in RunState
      /\ answered("partial_failure").pc = "finish_episode"
      /\ answered("partial_failure").started = y.started
  BY <1>2 DEF RunState, Outcome
<1>6. /\ called \in RunState /\ called.pc = "calls" /\ called.started = y.started
      /\ called.outcome = y.outcome
  BY <1>1, <1>2 DEF RunState
<1> HIDE DEF failed, answered, called
<1>7. refused \in RunState /\ refused.pc = "record_episode" /\ refused.started = y.started
  BY <1>1, <1>4 DEF RunState
<1> HIDE DEF refused
<1> QED
  BY <1>3, <1>4, <1>5, <1>6, <1>7

LEMMA ResponseEvidence ==
    ASSUME IInv, EvidenceInv, NEW r \in Run, NEW n \in Nat, NEW c \in Nat, model_response(r, n, c)
    PROVE  EvidenceInv'
<1>1. /\ run[r] \in RunState /\ run[r].pc = "model" /\ run[r].outcome # "cancelled" /\ quiet
      /\ run[r].started \in Nat
  BY DEF model_response, IInv, RunsInv, EvidenceInv, Evidence, RunState, Going
<1>2. PICK x \in RunState :
         /\ run' = [run EXCEPT ![r] = x]
         /\ x.pc \in {"record_episode", "finish_episode", "calls"}
         /\ x.started = run[r].started
         /\ x.pc = "calls" => x.outcome = run[r].outcome
  BY ResponseEffect DEF IInv
<1>3. Due(run[r]) = 0 /\ Due(x) = 0 /\ run[r].pc \in Going /\ (x.pc \in Going <=> x.pc = "calls")
  BY <1>1, <1>2 DEF Due, Going
<1>4. /\ x.pc \in Going \cup {"record_episode", "finish_episode"} /\ x.pc # "new"
      /\ x.pc \in Going => /\ x.outcome # "cancelled"
                           /\ x.started = run[r].started + Due(x) - Due(run[r])
  BY <1>1, <1>2, <1>3
<1> QED
  BY <1>1, <1>2, <1>3, <1>4, QuietEvidence

LEMMA GateEvidence ==
    ASSUME IInv, EvidenceInv, NEW r \in Run, NEW name, NEW valid \in BOOLEAN, gate(r, name, valid)
    PROVE  EvidenceInv'
<1> DEFINE y == run[r]
           answered(ok) == [run[r] EXCEPT !.pc = "tool_audit", !.started = @ + 1, !.success = ok]
           entered(n) == [run[r] EXCEPT !.pc = "executing", !.started = @ + 1, !.late = n]
<1>1. y \in RunState /\ y.pc = "tool" /\ y.outcome # "cancelled" /\ quiet
  BY DEF gate, IInv, RunsInv, EvidenceInv, Evidence, Going
<1>2. y.started \in Nat /\ y.started + 1 \in Nat /\ y.late \in Nat /\ y.late + 1 \in Nat
  BY <1>1 DEF RunState
<1>3. ASSUME NEW x \in RunState, x.pc \in {"tool_audit", "executing"},
             x.started = y.started + 1, x.outcome = y.outcome, run' = [run EXCEPT ![r] = x]
      PROVE  EvidenceInv'
  <2>1. Due(y) = 0 /\ Due(x) = 1 /\ y.pc \in Going /\ x.pc \in Going /\ x.pc # "new"
    BY <1>1, <1>3 DEF Due, Going
  <2>2. x.started = y.started + Due(x) - Due(y)
    BY <1>2, <1>3, <2>1
  <2> QED
    BY <1>1, <1>3, <2>1, <2>2, QuietEvidence
<1>4. \A ok \in BOOLEAN :
         /\ answered(ok) \in RunState /\ answered(ok).pc = "tool_audit"
         /\ answered(ok).started = y.started + 1 /\ answered(ok).outcome = y.outcome
  BY <1>1, <1>2 DEF RunState
<1>5. \A n \in Nat :
         /\ entered(n) \in RunState /\ entered(n).pc = "executing"
         /\ entered(n).started = y.started + 1 /\ entered(n).outcome = y.outcome
  BY <1>1, <1>2 DEF RunState
<1>6. \/ run' = [run EXCEPT ![r] = answered(FALSE)]
      \/ run' = [run EXCEPT ![r] = answered(TRUE)]
      \/ run' = [run EXCEPT ![r] = entered(run[r].late + 1)]
      \/ run' = [run EXCEPT ![r] = entered(run[r].late)]
  BY DEF gate
<1> HIDE DEF answered, entered
<1>7. CASE run' = [run EXCEPT ![r] = answered(FALSE)] \/ run' = [run EXCEPT ![r] = answered(TRUE)]
  <2>1. PICK ok \in BOOLEAN : run' = [run EXCEPT ![r] = answered(ok)]
    BY <1>7
  <2> QED
    BY <1>3, <1>4, <2>1
<1>8. CASE \/ run' = [run EXCEPT ![r] = entered(run[r].late + 1)]
           \/ run' = [run EXCEPT ![r] = entered(run[r].late)]
  <2>1. PICK n \in Nat : run' = [run EXCEPT ![r] = entered(n)]
    BY <1>2, <1>8
  <2> QED
    BY <1>3, <1>5, <2>1
<1> QED
  BY <1>6, <1>7, <1>8

LEMMA ToolEvidence ==
    ASSUME IInv, EvidenceInv, NEW r \in Run,
           (\E ok \in BOOLEAN : tool_returns(r, ok)) \/ tool_timeout(r)
    PROVE  EvidenceInv'
<1> DEFINE x(ok) == [run[r] EXCEPT !.pc = "tool_audit", !.success = ok]
<1>1. PICK ok \in BOOLEAN : run' = [run EXCEPT ![r] = x(ok)]
  BY DEF tool_returns, tool_timeout
<1>2. run[r] \in RunState /\ run[r].pc = "executing" /\ run[r].outcome # "cancelled" /\ quiet
  BY DEF tool_returns, tool_timeout, IInv, RunsInv, EvidenceInv, Evidence, Going
<1>3. /\ x(ok) \in RunState /\ x(ok).pc = "tool_audit" /\ x(ok).started = run[r].started
      /\ x(ok).outcome = run[r].outcome /\ run[r].started \in Nat
  BY <1>2 DEF RunState
<1> HIDE DEF x
<1>4. Due(run[r]) = 1 /\ Due(x(ok)) = 1 /\ run[r].pc \in Going /\ x(ok).pc \in Going
      /\ x(ok).pc # "new"
  BY <1>2, <1>3 DEF Due, Going
<1>5. x(ok).started = run[r].started + Due(x(ok)) - Due(run[r]) /\ x(ok).outcome # "cancelled"
  BY <1>2, <1>3, <1>4
<1> QED
  BY <1>1, <1>2, <1>3, <1>4, <1>5, QuietEvidence

(* A row that another run, or the control, adds.                           *)
LEMMA OthersAfterEvent ==
    ASSUME IInv, EvidenceInv, NEW t, NEW r, NEW action, NEW outcome,
           append_audit_event(t, r, action, outcome),
           history'.damaged = history.damaged, history'.purged = history.purged,
           NEW q \in Run, q # r, run'[q] = run[q]
    PROVE  Evidence(q)'
<1>1. /\ Len(audit) \in Nat /\ Len(audit') = Len(audit) + 1
      /\ \A i \in 1..Len(audit) : audit'[i] = audit[i]
      /\ audit'[Len(audit) + 1].run = r
      /\ \A a : EventsOf(q, a)' = EventsOf(q, a)
      /\ UNCHANGED <<episodes, snapshot>>
  BY EventAdded DEF IInv
<1>2. Evidence(q)
  BY DEF EvidenceInv
<1>3. run[q].pc = "new" => Clean(audit', episodes', q)
  <2>1. \A i \in 1..Len(audit') : i \in 1..Len(audit) \/ i = Len(audit) + 1
    BY <1>1
  <2> QED
    BY <1>1, <1>2, <2>1 DEF Evidence, Clean
<1>4. run[q].pc = "new" => (snapshot' # None => Clean(snapshot'.audit, snapshot'.episodes, q))
  BY <1>1, <1>2 DEF Evidence
<1>5. EpisodesOf(q)' = EpisodesOf(q)
  BY <1>1 DEF EpisodesOf
<1>6. \A i \in 1..Len(audit) : i \in 1..Len(audit') /\ audit'[i] = audit[i]
  BY <1>1
<1> QED
  BY <1>1, <1>2, <1>3, <1>4, <1>5, <1>6, OtherEvidence DEF IInv

LEMMA ToolAuditEvidence ==
    ASSUME IInv, EvidenceInv, NEW r \in Run, tool_audit(r)
    PROVE  EvidenceInv'
<1> DEFINE next == IF run[r].pending = 1 THEN "loop" ELSE "calls"
           n == Len(audit) + 1
<1>1. /\ append_audit_event(envelope[r].tenant, r, "tool.execute", ToolOutcome(r))
      /\ UNCHANGED history /\ run[r] \in RunState /\ run[r].pc = "tool_audit"
      /\ Evidence(r)
  BY DEF tool_audit, Write, IInv, RunsInv, EvidenceInv
<1>2. /\ run'[r].pc \in {"loop", "calls"} /\ run'[r].started = run[r].started
      /\ run'[r].outcome = run[r].outcome
      /\ \A q \in Run : q # r => run'[q] = run[q]
  BY <1>1 DEF tool_audit, IInv, RunsInv, RunState
<1>3. \A q \in Run : q # r => Evidence(q)'
  BY <1>1, <1>2, OthersAfterEvent
<1>4. /\ EventsOf(r, "tool.execute")' = EventsOf(r, "tool.execute") \cup {n}
      /\ EventsOf(r, "agent.run")' = EventsOf(r, "agent.run")
      /\ UNCHANGED episodes
  BY <1>1, EventAdded DEF IInv
<1>5. /\ Cardinality(EventsOf(r, "tool.execute")) \in Nat
      /\ Cardinality(EventsOf(r, "tool.execute"))' = Cardinality(EventsOf(r, "tool.execute")) + 1
  <2>1. /\ IsFiniteSet(EventsOf(r, "tool.execute")) /\ n \notin EventsOf(r, "tool.execute")
        /\ Cardinality(EventsOf(r, "tool.execute")) \in Nat
    BY EventsFinite DEF IInv
  <2> QED
    BY <1>4, <2>1, FS_AddElement
<1>6. ASSUME r \notin history.damaged PROVE Unaudited(r)' = 0
  <2>1. run[r].started - Cardinality(EventsOf(r, "tool.execute")) = 1 /\ run[r].started \in Nat
    BY <1>1, <1>6 DEF Evidence, Unaudited, Due, RunState
  <2> QED
    BY <1>2, <1>5, <2>1 DEF Unaudited
<1>7. Evidence(r)'
  <2>1. EpisodesOf(r)' = EpisodesOf(r)
    BY <1>4 DEF EpisodesOf
  <2>2. Due(run'[r]) = 0
    BY <1>2 DEF Due
  <2>3. run'[r].pc \in Going /\ run[r].pc \in Going
    BY <1>1, <1>2 DEF Going
  <2> QED
    BY <1>1, <1>2, <1>4, <1>6, <2>1, <2>2, <2>3 DEF Evidence
<1> QED
  BY <1>3, <1>7 DEF EvidenceInv

LEMMA EpisodeEvidence ==
    ASSUME IInv, EvidenceInv, NEW r \in Run, run_episode(r)
    PROVE  EvidenceInv'
<1> DEFINE new == [id |-> fresh, tenant |-> envelope[r].tenant, run |-> r, outcome |-> run[r].outcome]
<1>1. /\ episodes' = episodes \cup {new} /\ UNCHANGED <<audit, snapshot, history>>
      /\ run[r] \in RunState /\ run[r].pc \in {"record_episode", "finish_episode"} /\ Evidence(r)
  BY DEF run_episode, Write, append_episode, IInv, RunsInv, EvidenceInv
<1>2. /\ run'[r].pc = "run_audit" /\ run'[r].started = run[r].started
      /\ run'[r].outcome = run[r].outcome
      /\ \A q \in Run : q # r => run'[q] = run[q]
  BY <1>1 DEF run_episode, Go, IInv, RunsInv, RunState
<1>3. \A q, a : EventsOf(q, a)' = EventsOf(q, a)
  BY <1>1 DEF EventsOf
<1>4. ASSUME NEW q \in Run, q # r PROVE Evidence(q)'
  <2>1. Evidence(q)
    BY DEF EvidenceInv
  <2>2. new.run = r
    OBVIOUS
  <2> HIDE DEF new
  <2>3. EpisodesOf(q)' = EpisodesOf(q)
    BY <1>1, <1>4, <2>2 DEF EpisodesOf
  <2>4. run[q].pc = "new" =>
          /\ Clean(audit', episodes', q)
          /\ snapshot' # None => Clean(snapshot'.audit, snapshot'.episodes, q)
    BY <1>1, <1>4, <2>1, <2>2 DEF Evidence, Clean
  <2>5. \A i \in 1..Len(audit) : i \in 1..Len(audit') /\ audit'[i] = audit[i]
    BY <1>1
  <2> QED
    BY <1>1, <1>2, <1>3, <1>4, <2>1, <2>3, <2>4, <2>5, OtherEvidence DEF IInv
<1>5. Evidence(r)'
  <2>1. new.run = r /\ new.outcome = run[r].outcome
    OBVIOUS
  <2> HIDE DEF new
  <2>2. r \notin history.damaged => EpisodeKept(r)'
    <3>1. r \notin history.damaged => EpisodesOf(r) = {}
      BY <1>1 DEF Evidence
    <3>2. r \notin history.damaged => EpisodesOf(r)' = {new}
      BY <1>1, <2>1, <3>1 DEF EpisodesOf
    <3> QED
      BY <1>1, <1>2, <2>1, <3>2 DEF EpisodeKept
  <2>3. Due(run'[r]) = 0 /\ Due(run[r]) = 0 /\ run'[r].pc \notin Going
    BY <1>1, <1>2 DEF Due, Going
  <2>4. Unaudited(r)' = Unaudited(r)
    BY <1>2, <1>3 DEF Unaudited
  <2> QED
    BY <1>1, <1>2, <1>3, <2>2, <2>3, <2>4 DEF Evidence
<1> QED
  BY <1>4, <1>5 DEF EvidenceInv

LEMMA RunAuditEvidence ==
    ASSUME IInv, EvidenceInv, NEW r \in Run, run_audit(r)
    PROVE  EvidenceInv'
<1> DEFINE n == Len(audit) + 1
<1>1. /\ append_audit_event(envelope[r].tenant, r, "agent.run", run[r].outcome)
      /\ UNCHANGED history /\ run[r] \in RunState /\ run[r].pc = "run_audit" /\ Evidence(r)
  BY DEF run_audit, Write, IInv, RunsInv, EvidenceInv
<1>2. /\ run'[r].pc = "ended" /\ run'[r].started = run[r].started
      /\ run'[r].outcome = run[r].outcome
      /\ \A q \in Run : q # r => run'[q] = run[q]
  BY <1>1 DEF run_audit, Go, IInv, RunsInv, RunState
<1>3. \A q \in Run : q # r => Evidence(q)'
  BY <1>1, <1>2, OthersAfterEvent
<1>4. /\ EventsOf(r, "agent.run")' = EventsOf(r, "agent.run") \cup {n}
      /\ EventsOf(r, "tool.execute")' = EventsOf(r, "tool.execute")
      /\ Len(audit) \in Nat /\ Len(audit') = n /\ audit'[n].outcome = run[r].outcome
      /\ UNCHANGED episodes
  BY <1>1, EventAdded DEF IInv
<1>5. ASSUME r \notin history.damaged PROVE EventKept(r)'
  <2>1. EventsOf(r, "agent.run")' = {n}
    BY <1>1, <1>4, <1>5 DEF Evidence
  <2>2. \A j \in EventsOf(r, "tool.execute") : j < n
    BY <1>4 DEF EventsOf
  <2>3. n \in 1..Len(audit')
    BY <1>4
  <2> QED
    BY <1>2, <1>4, <2>1, <2>2, <2>3 DEF EventKept
<1>6. ASSUME r \notin history.damaged, r \notin history.purged PROVE EpisodeKept(r)'
  <2>1. EpisodesOf(r)' = EpisodesOf(r)
    BY <1>4 DEF EpisodesOf
  <2>2. EpisodeKept(r)
    BY <1>1, <1>6 DEF Evidence
  <2> QED
    BY <1>2, <1>4, <2>1, <2>2 DEF EpisodeKept
<1>7. Evidence(r)'
  <2>1. Due(run'[r]) = 0 /\ Due(run[r]) = 0 /\ run'[r].pc \notin Going
    BY <1>1, <1>2 DEF Due, Going
  <2>2. Unaudited(r)' = Unaudited(r)
    BY <1>2, <1>4 DEF Unaudited
  <2> QED
    BY <1>1, <1>2, <1>5, <1>6, <2>1, <2>2 DEF Evidence
<1> QED
  BY <1>3, <1>7 DEF EvidenceInv

(* Runs that end without evidence are declared damaged: a failed write,    *)
(* or the death of the process.                                            *)
LEMMA DamageEvidence ==
    ASSUME IInv, EvidenceInv, UNCHANGED <<episodes, audit, snapshot>>,
           history.damaged \subseteq history'.damaged, history'.purged = history.purged,
           \A q \in Run : \/ run'[q] = run[q]
                          \/ q \in history'.damaged /\ run'[q].pc = "ended"
    PROVE  EvidenceInv'
<1> SUFFICES ASSUME NEW q \in Run PROVE Evidence(q)'
  BY DEF EvidenceInv
<1>1. CASE run'[q] = run[q]
  <2>1. Evidence(q)
    BY DEF EvidenceInv
  <2>2. EpisodesOf(q)' = EpisodesOf(q) /\ \A a : EventsOf(q, a)' = EventsOf(q, a)
    BY DEF EpisodesOf, EventsOf
  <2>3. run[q].pc = "new" =>
          /\ Clean(audit', episodes', q)
          /\ snapshot' # None => Clean(snapshot'.audit, snapshot'.episodes, q)
    BY <2>1 DEF Evidence
  <2> QED
    BY <1>1, <2>1, <2>2, <2>3, OtherEvidence DEF IInv
<1>2. CASE q \in history'.damaged /\ run'[q].pc = "ended"
  BY <1>2 DEF Evidence, Going
<1> QED
  BY <1>1, <1>2

LEMMA FaultEvidence ==
    ASSUME IInv, EvidenceInv,
           \/ \E r \in Run : tool_audit_fails(r) \/ run_episode_fails(r) \/ run_audit_fails(r)
           \/ crash
           \/ \E r \in Run : cancel(r) \/ deadline(r)
           \/ UNCHANGED vars
    PROVE  EvidenceInv'
<1>1. ASSUME NEW r \in Run, tool_audit_fails(r) \/ run_episode_fails(r) \/ run_audit_fails(r)
      PROVE  EvidenceInv'
  <2>1. Go(r, "ended") /\ WriteFails(r) /\ UNCHANGED <<episodes, audit, snapshot>>
    BY <1>1 DEF tool_audit_fails, run_episode_fails, run_audit_fails, WriteFails, memory_vars
  <2>2. history'.damaged = history.damaged \cup {r} /\ history'.purged = history.purged
    BY <2>1 DEF WriteFails, IInv, RunsInv
  <2>3. run'[r].pc = "ended" /\ \A q \in Run : q # r => run'[q] = run[q]
    BY <2>1 DEF Go, IInv, RunsInv, RunState
  <2> QED
    BY <2>1, <2>2, <2>3, DamageEvidence
<1>2. CASE crash
  <2>1. /\ history'.damaged = history.damaged \cup {r \in Run : Running(r)}
        /\ history'.purged = history.purged /\ UNCHANGED <<episodes, audit, snapshot>>
    BY <1>2 DEF crash, IInv, RunsInv, memory_vars
  <2>2. ASSUME NEW q \in Run, Running(q) PROVE run'[q].pc = "ended"
    BY <1>2, <2>2 DEF crash, IInv, RunsInv, RunState
  <2>3. \A q \in Run : ~Running(q) => run'[q] = run[q]
    BY <1>2 DEF crash
  <2> QED
    BY <2>1, <2>2, <2>3, DamageEvidence
<1>3. CASE (\E r \in Run : cancel(r) \/ deadline(r)) \/ UNCHANGED vars
  <2>1. UNCHANGED <<episodes, audit, snapshot, run, history>>
    BY <1>3 DEF cancel, deadline, vars, memory_vars
  <2> QED
    BY <2>1, DamageEvidence
<1> QED
  BY <1>1, <1>2, <1>3

LEMMA AdminEvidence ==
    ASSUME IInv, EvidenceInv, (\E t \in Tenant : purge(t) \/ control_event(t)) \/ backup \/ restore
    PROVE  EvidenceInv'
<1>0. UNCHANGED run
  BY DEF purge, control_event, backup, restore, Administer
<1>1. ASSUME NEW t \in Tenant, purge(t) PROVE EvidenceInv'
  <2>1. /\ episodes' \subseteq episodes /\ UNCHANGED <<audit, snapshot>>
        /\ history'.purged = history.purged \cup {e.run : e \in episodes \ episodes'}
        /\ history'.damaged = history.damaged
    BY <1>1 DEF purge, Administer, purge_older_than, IInv, RunsInv
  <2> SUFFICES ASSUME NEW q \in Run PROVE Evidence(q)'
    BY DEF EvidenceInv
  <2>2. Evidence(q)
    BY DEF EvidenceInv
  <2>3. EpisodesOf(q)' \subseteq EpisodesOf(q) /\ \A a : EventsOf(q, a)' = EventsOf(q, a)
    BY <2>1 DEF EpisodesOf, EventsOf
  <2>4. q \notin history'.purged => EpisodesOf(q)' = EpisodesOf(q)
    BY <2>1 DEF EpisodesOf
  <2>5. run[q].pc = "new" =>
          /\ Clean(audit', episodes', q)
          /\ snapshot' # None => Clean(snapshot'.audit, snapshot'.episodes, q)
    BY <2>1, <2>2 DEF Evidence, Clean
  <2> QED
    BY <1>0, <2>1, <2>2, <2>3, <2>4, <2>5, OtherEvidence DEF IInv
<1>2. ASSUME NEW t \in Tenant, control_event(t) PROVE EvidenceInv'
  <2>1. /\ append_audit_event(t, None, "control", "success")
        /\ history'.damaged = history.damaged /\ history'.purged = history.purged
    BY <1>2 DEF control_event, Administer, IInv, RunsInv
  <2>2. \A q \in Run : q # None
    BY RuntimeAssumption
  <2> QED
    BY <1>0, <2>1, <2>2, OthersAfterEvent DEF EvidenceInv
<1>3. CASE backup
  <2>1. /\ snapshot' = [episodes |-> episodes, audit |-> audit] /\ UNCHANGED <<episodes, audit>>
        /\ history'.damaged = history.damaged /\ history'.purged = history.purged
    BY <1>3 DEF backup, Administer, backup_to, IInv, RunsInv
  <2> SUFFICES ASSUME NEW q \in Run PROVE Evidence(q)'
    BY DEF EvidenceInv
  <2>2. Evidence(q)
    BY DEF EvidenceInv
  <2>3. EpisodesOf(q)' = EpisodesOf(q) /\ \A a : EventsOf(q, a)' = EventsOf(q, a)
    BY <2>1 DEF EpisodesOf, EventsOf
  <2>4. run[q].pc = "new" =>
          /\ Clean(audit', episodes', q)
          /\ snapshot' # None => Clean(snapshot'.audit, snapshot'.episodes, q)
    BY <2>1, <2>2 DEF Evidence
  <2> QED
    BY <1>0, <2>1, <2>2, <2>3, <2>4, OtherEvidence DEF IInv
<1>4. CASE restore
  <2>1. /\ snapshot # None /\ UNCHANGED snapshot
        /\ episodes' = snapshot.episodes /\ audit' = snapshot.audit
        /\ history'.damaged = history.damaged \cup {r \in Run : run[r].pc # "new"}
        /\ history'.purged = history.purged
    BY <1>4 DEF restore, Administer, restore_from, IInv, RunsInv
  <2> SUFFICES ASSUME NEW q \in Run PROVE Evidence(q)'
    BY DEF EvidenceInv
  <2>2. Evidence(q)
    BY DEF EvidenceInv
  <2>3. CASE run[q].pc # "new"
    BY <1>0, <2>1, <2>2, <2>3 DEF Evidence
  <2>4. CASE run[q].pc = "new"
    <3>1. Clean(audit', episodes', q) /\ Clean(snapshot'.audit, snapshot'.episodes, q)
      BY <2>1, <2>2, <2>4 DEF Evidence
    <3>2. EpisodesOf(q)' = {} /\ \A a : EventsOf(q, a)' = {}
      BY <3>1 DEF EpisodesOf, EventsOf, Clean
    <3>3. Unaudited(q)' = 0 /\ Due(run'[q]) = 0
      <4>1. run'[q].started = 0 /\ run'[q].pc = "new"
        BY <1>0, <2>2, <2>4 DEF Evidence
      <4>2. Cardinality(EventsOf(q, "tool.execute"))' = 0
        BY <3>2, FS_EmptySet
      <4> QED
        BY <4>1, <4>2 DEF Unaudited, Due
    <3> QED
      BY <1>0, <2>2, <2>4, <3>1, <3>2, <3>3 DEF Evidence
  <2> QED
    BY <2>3, <2>4
<1> QED
  BY <1>1, <1>2, <1>3, <1>4

LEMMA InitEvidence == Init => EvidenceInv
<1> SUFFICES ASSUME Init, NEW r \in Run PROVE Evidence(r)
  BY DEF EvidenceInv
<1>1. audit = << >> /\ episodes = {} /\ snapshot = None /\ run[r] = Fresh
  BY DEF Init, memory_init
<1>2. EpisodesOf(r) = {} /\ \A a : EventsOf(r, a) = {}
  BY <1>1 DEF EpisodesOf, EventsOf
<1>3. Fresh.pc = "new" /\ Fresh.started = 0 /\ Fresh.outcome = "success"
  BY DEF Fresh
<1>4. Unaudited(r) = 0 /\ Due(run[r]) = 0
  <2>1. Cardinality(EventsOf(r, "tool.execute")) = 0
    BY <1>2, FS_EmptySet
  <2> QED
    BY <1>1, <1>3, <2>1 DEF Unaudited, Due
<1> QED
  BY <1>1, <1>2, <1>3, <1>4 DEF Evidence, Clean

LEMMA StepEvidence ==
    ASSUME IInv, EvidenceInv, [Next]_vars
    PROVE  EvidenceInv'
<1>1. ASSUME NEW r \in Run, begin(r) \/ loop(r) \/ next_call(r) PROVE EvidenceInv'
  BY <1>1, CheckEvidence
<1>2. ASSUME NEW r \in Run, cancel_branch(r) \/ model_timeout(r) \/ model_error(r)
      PROVE  EvidenceInv'
  BY <1>2, ErrorEvidence
<1>3. ASSUME NEW r \in Run, NEW n \in 0..MaxProposed, NEW c \in 0..1, model_response(r, n, c)
      PROVE  EvidenceInv'
  <2>1. n \in Nat /\ c \in Nat
    OBVIOUS
  <2> QED
    BY <1>3, <2>1, ResponseEvidence
<1>4. ASSUME NEW r \in Run, NEW name \in Name, NEW valid \in BOOLEAN, gate(r, name, valid)
      PROVE  EvidenceInv'
  BY <1>4, GateEvidence
<1>5. ASSUME NEW r \in Run, (\E ok \in BOOLEAN : tool_returns(r, ok)) \/ tool_timeout(r)
      PROVE  EvidenceInv'
  BY <1>5, ToolEvidence
<1>6. ASSUME NEW r \in Run, RuntimeStep(r) PROVE EvidenceInv'
  BY <1>6, <1>1, <1>2, <1>4, <1>5, ToolAuditEvidence, EpisodeEvidence, RunAuditEvidence,
     FaultEvidence DEF RuntimeStep
<1>7. ASSUME NEW r \in Run, ModelStep(r) \/ ToolStep(r) PROVE EvidenceInv'
  BY <1>7, <1>2, <1>3, <1>5 DEF ModelStep, ToolStep
<1>8. CASE crash \/ (\E r \in Run : cancel(r) \/ deadline(r)) \/ UNCHANGED vars
  BY <1>8, FaultEvidence
<1>9. CASE (\E t \in Tenant : purge(t) \/ control_event(t)) \/ backup \/ restore
  BY <1>9, AdminEvidence
<1> QED
  BY <1>1, <1>6, <1>7, <1>8, <1>9 DEF Next

LEMMA EvidenceInvariance == Spec => []EvidenceInv
BY InitEvidence, StepEvidence, Invariance, PTL DEF Spec

(* However a run ends, and whatever other runs, another process, purges,   *)
(* backups and restores do, it leaves one episode and, after all its other *)
(* events, one agent.run event with the outcome it returned, unless its    *)
(* evidence was lost to a fault (record_failure, record_cancelled).        *)
THEOREM RunsAreAccounted == Spec => []RunsAccounted
<1>1. EvidenceInv => RunsAccounted
  BY DEF EvidenceInv, Evidence, EpisodeKept, EventKept, RunsAccounted
<1> QED
  BY <1>1, EvidenceInvariance, PTL

(* Every tool call has its tool.execute event before the run goes on; only *)
(* the call a cancellation interrupted has none, which API_CONTRACTS.md    *)
(* excludes (EveryToolAudited).                                            *)
THEOREM ToolsAreAudited == Spec => []ToolsAudited
<1>1. IInv /\ EvidenceInv => ToolsAudited
  <2> SUFFICES ASSUME IInv, EvidenceInv, NEW r \in Run, r \notin history.damaged
               PROVE  CASE run[r].pc \in {"executing", "tool_audit"} -> Unaudited(r) = 1
                        [] run[r].outcome = "cancelled" -> Unaudited(r) \in {0, 1}
                        [] OTHER -> Unaudited(r) = 0
    BY DEF ToolsAudited
  <2>1. /\ Unaudited(r) = Due(run[r]) \/ (run[r].outcome = "cancelled" /\ Unaudited(r) = 1)
        /\ run[r].pc \in Going => run[r].outcome # "cancelled"
    BY DEF EvidenceInv, Evidence
  <2>2. CASE run[r].pc \in {"executing", "tool_audit"}
    BY <2>1, <2>2 DEF Due, Going
  <2>3. CASE run[r].pc \notin {"executing", "tool_audit"}
    BY <2>1, <2>3 DEF Due
  <2> QED
    BY <2>2, <2>3
<1> QED
  BY <1>1, Invariance, EvidenceInvariance, PTL
=============================================================================
