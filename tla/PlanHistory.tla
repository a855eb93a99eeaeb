---------------------------- MODULE PlanHistory ----------------------------
(***************************************************************************)
(* The persisted history of one plan revision                              *)
(* (crates/shaka-queue/src/plan_store.rs): the snapshot in plans and       *)
(* plan_steps, the append-only chain in plan_transitions, the checkpoints, *)
(* and the operations that write them from outside the engine or rebuild   *)
(* the plan from them: record_plan_transition, append_plan_checkpoint,     *)
(* mark_plan_unknown, resume_plan and inspect_plan.                        *)
(*                                                                         *)
(* A writer builds a transition from what it last read and may submit it   *)
(* late, or again.  load_reducer_rows is four SELECTs without a            *)
(* transaction: the mutex keeps the threads of its own process out, not    *)
(* another process, so each is a step.  What the reader then does is one   *)
(* IMMEDIATE transaction.  A refusal changes nothing and is left out.      *)
(*                                                                         *)
(* A transition hash stands as the position the transition was built for:  *)
(* the chain is append-only, so a position has one hash, and a transition  *)
(* continues the hash before it exactly when it is built for the next      *)
(* position.  A chain read earlier is a prefix of the chain, so a reader   *)
(* keeps its length.                                                       *)
(***************************************************************************)
EXTENDS Integers, Sequences, FiniteSets, PlanStates

CONSTANTS
    Step, None,
    Writer,          \* callers of record_plan_transition, by idempotency key
    Reader,          \* callers of resume_plan and inspect_plan
    MaxTransitions,  \* bound: length of the chain
    MaxCheckpoints,  \* bound: sequence of a checkpoint
    MaxPrepared,     \* bound: transitions built by the writers
    MaxReads         \* bound: calls of the readers

ASSUME HistoryAssumption ==
    /\ None \notin Step
    /\ Step \subseteq Nat /\ IsFiniteSet(Step)
    /\ MaxTransitions \in Nat /\ MaxTransitions >= 6
    /\ MaxCheckpoints \in Nat
    /\ MaxPrepared \in Nat /\ MaxReads \in Nat

VARIABLES
    plan,         \* plans.state
    step,         \* plan_steps.state
    chain,        \* plan_transitions by sequence
    checkpoints,  \* plan_checkpoints by sequence
    writer,       \* the transition each writer holds
    reader,       \* what each reader has read
    history       \* counters, and what was written past the chain

vars == <<plan, step, chain, checkpoints, writer, reader, history>>

ActivePlan == {"running", "cancel_requested", "compensating"}

ActiveStep == {"running", "cancel_requested", "compensating"}

-----------------------------------------------------------------------------
(* The reducer                                                             *)

Transition(sequence, entity, from, to, key) ==
    [sequence |-> sequence, entity |-> entity, from |-> from, to |-> to, key |-> key]

Allows(entity, from, to) ==
    IF entity = None THEN to \in PlanNext[from] ELSE to \in StepNext[from]

apply_transition_state(s, t) ==
    LET current == IF t.entity = None THEN s.plan ELSE s.step[t.entity] IN
    IF current = t.from /\ Allows(t.entity, t.from, t.to)
    THEN IF t.entity = None THEN [s EXCEPT !.plan = t.to]
                            ELSE [s EXCEPT !.step[t.entity] = t.to]
    ELSE [s EXCEPT !.ok = FALSE]

(* One more transition, the i-th; the first that does not fit ends it.     *)
reduce(s, t, i) ==
    IF s.ok /\ t.sequence = i THEN apply_transition_state(s, t) ELSE [s EXCEPT !.ok = FALSE]

Unstarted == [ok |-> TRUE, plan |-> "draft", step |-> [s \in Step |-> "pending"]]

(* The states after the first n transitions.                               *)
Replay(rows, n) ==
    LET state[i \in 0..n] == IF i = 0 THEN Unstarted ELSE reduce(state[i - 1], rows[i], i)
    IN state[n]

(* Mutant: sequences are counted from zero.                                *)
CheckpointsFromZero(rows) == \A i \in 1..Len(rows) : rows[i].sequence = i - 1

check_checkpoint_sequence(rows) == \A i \in 1..Len(rows) : rows[i].sequence = i

(* The chain when the first step is claimed: the walk of approve_plan,     *)
(* then the claim.  The engine adds a checkpoint at admission and one at   *)
(* the claim; callers of record_plan_transition add none.                  *)
Walk ==
    <<<<None, "draft", "proposed">>, <<None, "proposed", "validated">>,
      <<None, "validated", "approved">>, <<None, "approved", "running">>>>

Claimed(s) == Walk \o <<<<s, "pending", "ready">>, <<s, "ready", "running">>>>

Init ==
    \E s \in Step :
      /\ chain = [i \in 1..Len(Claimed(s)) |->
                    Transition(i, Claimed(s)[i][1], Claimed(s)[i][2], Claimed(s)[i][3], None)]
      /\ plan = "running"
      /\ step = [Unstarted.step EXCEPT ![s] = "running"]
      /\ checkpoints \in {<< >>, [i \in 1..2 |-> [sequence |-> i, recovery |-> FALSE]]}
      /\ writer = [w \in Writer |-> None]
      /\ reader = [r \in Reader |-> None]
      /\ history = [prepared |-> 0, reads |-> 0, raw |-> FALSE, gap |-> FALSE]

-----------------------------------------------------------------------------
(* Appending inside a transaction                                          *)

(* Every reader that is between its first and its last SELECT sees a       *)
(* database that moved.                                                    *)
Disturbed ==
    [r \in Reader |-> IF reader[r] # None /\ reader[r].pc # "act"
                      THEN [reader[r] EXCEPT !.moved = TRUE] ELSE reader[r]]

(* Mutant: the sequence of the last checkpoint is used again.              *)
SameCheckpoint ==
    [sequence |-> IF checkpoints = << >> THEN 1 ELSE checkpoints[Len(checkpoints)].sequence,
     recovery |-> TRUE]

(* next_checkpoint_sequence_tx                                             *)
NextCheckpoint ==
    [sequence |-> IF checkpoints = << >> THEN 1
                  ELSE checkpoints[Len(checkpoints)].sequence + 1,
     recovery |-> TRUE]

(* A writer reads the snapshot and the end of the chain and builds         *)
(* PlanStoreTransition::new.                                               *)
prepare(w, entity, to) ==
    LET from == IF entity = None THEN plan ELSE step[entity] IN
    /\ writer[w] = None
    /\ history.prepared < MaxPrepared
    /\ Allows(entity, from, to)
    /\ writer' = [writer EXCEPT ![w] =
         Transition(Len(chain) + 1, entity, from, to, w)]
    /\ history' = [history EXCEPT !.prepared = @ + 1]
    /\ UNCHANGED <<plan, step, chain, checkpoints, reader>>

KeyTaken(t) == \E i \in 1..Len(chain) : chain[i].key = t.key

(* Mutant: a transition is placed after whatever is last when it arrives.  *)
ContinuesAnything(t) == TRUE

Continues(t) == t.sequence = Len(chain) + 1

(* The snapshot and the chain, in one transaction.  The same key again is  *)
(* answered Ok for the same hash and refused for another: it changes       *)
(* nothing either way.                                                     *)
record_plan_transition(w) ==
    LET t == writer[w] IN
    /\ t # None
    /\ ~KeyTaken(t)
    /\ Continues(t)
    /\ Len(chain) < MaxTransitions
    /\ t.from = (IF t.entity = None THEN plan ELSE step[t.entity])
    /\ Allows(t.entity, t.from, t.to)
    /\ IF t.entity = None
       THEN plan' = t.to /\ UNCHANGED step
       ELSE step' = [step EXCEPT ![t.entity] = t.to] /\ UNCHANGED plan
    /\ chain' = Append(chain, t)
    /\ writer' = [writer EXCEPT ![w] = None]
    /\ reader' = Disturbed
    /\ UNCHANGED <<checkpoints, history>>

(* The caller stops trying.                                                *)
give_up(w) ==
    /\ writer[w] # None
    /\ writer' = [writer EXCEPT ![w] = None]
    /\ UNCHANGED <<plan, step, chain, checkpoints, reader, history>>

(* A sequence after the last one must follow it; the first one is free,    *)
(* and so is the phase.                                                    *)
append_plan_checkpoint(sequence, recovery) ==
    /\ checkpoints # << >> => sequence = checkpoints[Len(checkpoints)].sequence + 1
    /\ checkpoints' =
         Append(checkpoints, [sequence |-> sequence, recovery |-> recovery])
    /\ history' = [history EXCEPT !.gap = @ \/ (checkpoints = << >> /\ sequence # 1)]
    /\ reader' = Disturbed
    /\ UNCHANGED <<plan, step, chain, writer>>

(* mark_plan_unknown_tx for the plan and one of its steps, or none: a      *)
(* transition where the table has one, else the column alone.  `raw': a    *)
(* column was written that no transition accounts for.                     *)
mark_plan_unknown(s) ==
    LET Row(rows, entity, from) == Transition(Len(rows) + 1, entity, from, "unknown", None)
        withPlan == IF Allows(None, plan, "unknown")
                    THEN Append(chain, Row(chain, None, plan)) ELSE chain
        withStep == IF s # None /\ Allows(s, step[s], "unknown")
                    THEN Append(withPlan, Row(withPlan, s, step[s])) ELSE withPlan
    IN
    /\ NextCheckpoint.sequence <= MaxCheckpoints /\ Len(withStep) <= MaxTransitions
    /\ chain' = withStep
    /\ plan' = "unknown"
    /\ step' = IF s = None THEN step ELSE [step EXCEPT ![s] = "unknown"]
    /\ checkpoints' = Append(checkpoints, NextCheckpoint)
    /\ history' = [history EXCEPT
         !.raw = @ \/ (plan # "unknown" /\ withPlan = chain)
                   \/ (s # None /\ step[s] # "unknown" /\ withStep = withPlan)]
    /\ reader' = Disturbed
    /\ UNCHANGED writer

-----------------------------------------------------------------------------
(* resume_plan and inspect_plan: load_reducer_rows, one SELECT at a time   *)

read_plan(r, kind) ==
    /\ reader[r] = None
    /\ history.reads < MaxReads
    /\ reader' = [reader EXCEPT ![r] =
         [pc |-> "transitions", kind |-> kind, plan |-> plan, length |-> 0,
          contiguous |-> TRUE, step |-> Unstarted.step, moved |-> FALSE]]
    /\ history' = [history EXCEPT !.reads = @ + 1]
    /\ UNCHANGED <<plan, step, chain, checkpoints, writer>>

Reading(r, pc) ==
    /\ reader[r] # None /\ reader[r].pc = pc
    /\ UNCHANGED <<plan, step, chain, checkpoints, writer, history>>

read_transitions(r) ==
    /\ Reading(r, "transitions")
    /\ reader' = [reader EXCEPT ![r].pc = "checkpoints", ![r].length = Len(chain)]

read_checkpoints(r) ==
    /\ Reading(r, "checkpoints")
    /\ reader' = [reader EXCEPT ![r].pc = "steps",
                                ![r].contiguous = check_checkpoint_sequence(checkpoints)]

read_steps(r) ==
    /\ Reading(r, "steps")
    /\ reader' = [reader EXCEPT ![r].pc = "act", ![r].step = step]

(* The verdict on what was read.                                           *)
Consistent(x) ==
    LET s == Replay(chain, x.length) IN
    s.ok /\ s.plan = x.plan /\ s.step = x.step /\ x.contiguous

Active(states) == {s \in Step : states[s] \in ActiveStep}

Ambiguous(x) == x.plan \in ActivePlan \/ Active(x.step) # {}

(* The last step of a call, without or with a write.                       *)
Returns(r) ==
    /\ reader[r] # None /\ reader[r].pc = "act"
    /\ reader' = [reader EXCEPT ![r] = None]
    /\ UNCHANGED <<plan, step, chain, checkpoints, writer, history>>

Acts(r) ==
    /\ reader[r] # None /\ reader[r].pc = "act" /\ reader[r].kind = "resume"
    /\ reader' = [Disturbed EXCEPT ![r] = None]
    /\ UNCHANGED writer

(* A report: inspect_plan always; resume_plan when the plan is stable.     *)
report(r) ==
    /\ Returns(r)
    /\ reader[r].kind = "inspect" \/ (Consistent(reader[r]) /\ ~Ambiguous(reader[r]))

Unknown(states) == [s \in Step |-> IF states[s] \in ActiveStep THEN "unknown" ELSE states[s]]

(* Mutant: recover_unknown trusts what resume_plan read.                   *)
RecoverWithoutLooking(x) == TRUE

(* recover_unknown looks again under the lock.                             *)
Unmoved(x) ==
    /\ plan = x.plan
    /\ Active(step) = Active(x.step)
    /\ \A s \in Active(step) : step[s] = x.step[s]

(* The rows of append_recovery_transitions_tx: the plan, then its active   *)
(* steps in order; none is checked against the tables.                     *)
RecoveryRows(x) ==
    LET order == CHOOSE f \in [1..Cardinality(Active(x.step)) -> Active(x.step)] :
                   \A i, j \in DOMAIN f : i < j => f[i] < f[j]
        entities == <<None>> \o order
    IN [i \in 1..Len(entities) |->
          Transition(Len(chain) + i, entities[i],
                     IF entities[i] = None THEN x.plan ELSE x.step[entities[i]], "unknown", None)]

recover_unknown(r) ==
    LET x == reader[r]
        rows == RecoveryRows(x)
    IN
    /\ Acts(r)
    /\ Consistent(x) /\ Ambiguous(x)
    /\ plan # "unknown" /\ Unmoved(x)
    /\ Len(chain) + Len(rows) <= MaxTransitions
    /\ NextCheckpoint.sequence <= MaxCheckpoints
    /\ chain' = chain \o rows
    /\ plan' = "unknown"
    /\ step' = Unknown(step)
    /\ checkpoints' = Append(checkpoints, NextCheckpoint)
    /\ history' = [history EXCEPT !.raw = @ \/ ~Allows(None, x.plan, "unknown")]

(* Already unknown: nothing is written.  Anything else that moved: an      *)
(* error.                                                                  *)
recovery_superseded(r) ==
    LET x == reader[r] IN
    /\ Returns(r)
    /\ x.kind = "resume" /\ Consistent(x) /\ Ambiguous(x)
    /\ plan = "unknown" \/ ~Unmoved(x)

(* The quarantine: columns only, and one recovery checkpoint ever.         *)
force_unknown(r) ==
    LET marked == \E i \in 1..Len(checkpoints) : checkpoints[i].recovery IN
    /\ Acts(r)
    /\ ~Consistent(reader[r])
    /\ marked \/ NextCheckpoint.sequence <= MaxCheckpoints
    /\ plan' = "unknown"
    /\ step' = Unknown(step)
    /\ checkpoints' = IF marked THEN checkpoints
                      ELSE Append(checkpoints, NextCheckpoint)
    /\ history' = [history EXCEPT !.raw = @ \/ plan # "unknown" \/ Active(step) # {}]
    /\ UNCHANGED chain

Next ==
    \/ \E w \in Writer :
         \/ \E entity \in Step \cup {None}, to \in DOMAIN PlanNext \cup DOMAIN StepNext :
              prepare(w, entity, to)
         \/ record_plan_transition(w) \/ give_up(w)
    \/ \E n \in 1..MaxCheckpoints, b \in BOOLEAN : append_plan_checkpoint(n, b)
    \/ \E s \in Step \cup {None} : mark_plan_unknown(s)
    \/ \E r \in Reader :
         \/ \E kind \in {"resume", "inspect"} : read_plan(r, kind)
         \/ read_transitions(r) \/ read_checkpoints(r) \/ read_steps(r)
         \/ report(r) \/ recover_unknown(r) \/ recovery_superseded(r) \/ force_unknown(r)

Spec == Init /\ [][Next]_vars

-----------------------------------------------------------------------------
(* Properties                                                              *)

(* Types; and the checkpoints of the revision have increasing sequences    *)
(* (the primary key).                                                      *)
TypeOK ==
    /\ plan \in DOMAIN PlanNext
    /\ step \in [Step -> DOMAIN StepNext]
    /\ \A i, j \in 1..Len(checkpoints) : i < j =>
         checkpoints[i].sequence < checkpoints[j].sequence
    /\ Len(chain) <= MaxTransitions
    /\ \A w \in Writer : writer[w] # None => writer[w].sequence \in 1..MaxTransitions + 1
    /\ \A r \in Reader : reader[r] # None =>
         reader[r].pc \in {"transitions", "checkpoints", "steps", "act"}

(* The reducer rebuilds the snapshot: replaying the chain from draft and   *)
(* pending gives exactly the columns of plans and plan_steps, whatever     *)
(* late, repeated or concurrent transitions and recoveries were accepted,  *)
(* as long as no column was written past the chain.                        *)
SnapshotRebuilds ==
    ~history.raw => Replay(chain, Len(chain)) = [ok |-> TRUE, plan |-> plan, step |-> step]

(* A plan is called inconsistent, and quarantined by resume_plan, only for *)
(* a reason: a column written past the chain, a caller's first checkpoint  *)
(* that was not number 1, or a write of another process between two of     *)
(* the SELECTs of load_reducer_rows.                                       *)
InspectionSound ==
    \A r \in Reader :
        reader[r] # None /\ reader[r].pc = "act" /\ ~Consistent(reader[r]) =>
            history.raw \/ history.gap \/ reader[r].moved

(* A plan that ended stays ended: a resume that read it while it was       *)
(* active and acts after it ended writes nothing.  The exception is a      *)
(* write that the tables do not allow, after which the chain no longer     *)
(* replays (history.raw).                                                  *)
EndedStays == [][(plan \in PlanTerminal) => plan' = plan \/ history.raw']_vars
=============================================================================
