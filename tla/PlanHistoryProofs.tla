------------------------- MODULE PlanHistoryProofs -------------------------
(***************************************************************************)
(* For every plan, and whatever late, repeated or concurrent calls arrive: *)
(* the chain replays to the snapshot, a reader that was not disturbed      *)
(* finds it consistent, and a plan that ended stays ended.                 *)
(***************************************************************************)
EXTENDS PlanHistory, InductionLemmas, FiniteSetTheorems, TLAPS

-----------------------------------------------------------------------------
(* The reducer.  Replay is defined by recursion on the number of           *)
(* transitions; these lemmas are its equations.                            *)

IsReplay(g, rows, n) ==
    g = [i \in 0..n |-> IF i = 0 THEN Unstarted ELSE reduce(g[i - 1], rows[i], i)]

LEMMA ReplayExists ==
    ASSUME NEW rows, NEW n \in Nat
    PROVE  \E g : IsReplay(g, rows, n)
  <1> DEFINE S == {m \in Nat : \E g : IsReplay(g, rows, m)}
  <1>1. 0 \in S
    <2>1. IsReplay([i \in 0..0 |-> Unstarted], rows, 0)
      BY DEF IsReplay
    <2> QED
      BY <2>1
  <1>2. ASSUME NEW m \in Nat, m \in S PROVE m + 1 \in S
    <2>1. PICK g : IsReplay(g, rows, m)
      BY <1>2
    <2> DEFINE h == [i \in 0..m + 1 |-> IF i = m + 1 THEN reduce(g[m], rows[m + 1], m + 1)
                                                    ELSE g[i]]
    <2>2. \A i \in 0..m : g[i] = IF i = 0 THEN Unstarted ELSE reduce(g[i - 1], rows[i], i)
      BY <2>1 DEF IsReplay
    <2>3. h[m + 1] = reduce(g[m], rows[m + 1], m + 1) /\ \A i \in 0..m : h[i] = g[i]
      OBVIOUS
    <2>4. \A i \in 0..m + 1 : h[i] = IF i = 0 THEN Unstarted ELSE reduce(h[i - 1], rows[i], i)
      <3> HIDE DEF h
      <3> TAKE i \in 0..m + 1
      <3>1. CASE i = m + 1
        <4>1. i - 1 = m /\ m \in 0..m /\ i # 0
          BY <3>1
        <4> QED
          BY <2>3, <3>1, <4>1
      <3>2. CASE i = 0
        <4>1. 0 \in 0..m
          OBVIOUS
        <4> QED
          BY <2>2, <2>3, <3>2, <4>1
      <3>3. CASE i \in 1..m
        <4>1. i \in 0..m /\ i - 1 \in 0..m /\ i # 0
          BY <3>3
        <4> QED
          BY <2>2, <2>3, <4>1
      <3> QED
        BY <3>1, <3>2, <3>3
    <2>5. IsReplay(h, rows, m + 1)
      BY <2>4 DEF IsReplay
    <2> QED
      BY <2>5
  <1>3. Nat \subseteq S
    <2> HIDE DEF S
    <2> QED
      BY <1>1, <1>2, NatSetInduction
  <1> QED
    BY <1>3

(* A longer replay of a chain with the same beginning begins the same.     *)
LEMMA ReplaySame ==
    ASSUME NEW rows, NEW more, NEW n \in Nat, NEW m \in Nat, n <= m,
           \A i \in 1..n : rows[i] = more[i],
           NEW g, IsReplay(g, rows, n), NEW h, IsReplay(h, more, m)
    PROVE  \A i \in 0..n : g[i] = h[i]
  <1> DEFINE S == {i \in Nat : i <= n => g[i] = h[i]}
  <1>1. 0 \in S
    BY DEF IsReplay
  <1>2. ASSUME NEW i \in Nat, i \in S PROVE i + 1 \in S
    <2> SUFFICES ASSUME i + 1 <= n PROVE g[i + 1] = h[i + 1]
      OBVIOUS
    <2>1. g[i] = h[i] /\ rows[i + 1] = more[i + 1]
      BY <1>2
    <2>2. g[i + 1] = reduce(g[i], rows[i + 1], i + 1)
      BY DEF IsReplay
    <2>3. h[i + 1] = reduce(h[i], more[i + 1], i + 1)
      BY DEF IsReplay
    <2> QED
      BY <2>1, <2>2, <2>3
  <1>3. Nat \subseteq S
    <2> HIDE DEF S
    <2> QED
      BY <1>1, <1>2, NatSetInduction
  <1> QED
    BY <1>3

LEMMA ReplayIs ==
    ASSUME NEW rows, NEW n \in Nat
    PROVE  \E g : IsReplay(g, rows, n) /\ Replay(rows, n) = g[n]
  <1> DEFINE g == CHOOSE g : IsReplay(g, rows, n)
  <1>1. IsReplay(g, rows, n)
    BY ReplayExists
  <1>2. Replay(rows, n) = g[n]
    BY DEF Replay, IsReplay
  <1> QED
    BY <1>1, <1>2

LEMMA ReplayZero ==
    ASSUME NEW rows
    PROVE  Replay(rows, 0) = Unstarted
  <1>1. PICK g : IsReplay(g, rows, 0) /\ Replay(rows, 0) = g[0]
    BY ReplayIs
  <1> QED
    BY <1>1 DEF IsReplay

(* Chains with the same first n transitions replay the same.               *)
LEMMA ReplayPrefix ==
    ASSUME NEW rows, NEW more, NEW n \in Nat, \A i \in 1..n : rows[i] = more[i]
    PROVE  Replay(rows, n) = Replay(more, n)
  <1>1. PICK g : IsReplay(g, rows, n) /\ Replay(rows, n) = g[n]
    BY ReplayIs
  <1>2. PICK h : IsReplay(h, more, n) /\ Replay(more, n) = h[n]
    BY ReplayIs
  <1>3. IsReplay(g, rows, n) /\ IsReplay(h, more, n) /\ n <= n
    BY <1>1, <1>2
  <1>4. \A i \in 0..n : g[i] = h[i]
    BY <1>3, ReplaySame
  <1> QED
    BY <1>1, <1>2, <1>4

LEMMA ReplayNext ==
    ASSUME NEW rows, NEW n \in Nat
    PROVE  Replay(rows, n + 1) = reduce(Replay(rows, n), rows[n + 1], n + 1)
  <1>1. PICK g : IsReplay(g, rows, n) /\ Replay(rows, n) = g[n]
    BY ReplayIs
  <1>2. PICK m \in Nat : m = n + 1
    OBVIOUS
  <1>3. PICK h : IsReplay(h, rows, m) /\ Replay(rows, m) = h[m]
    BY ReplayIs
  <1>4. g[n] = h[n]
    <2>1. PICK more : more = rows
      OBVIOUS
    <2>2. n <= m /\ IsReplay(g, rows, n) /\ IsReplay(h, more, m)
      BY <1>1, <1>2, <1>3, <2>1
    <2>3. \A i \in 1..n : rows[i] = more[i]
      BY <2>1
    <2>4. \A i \in 0..n : g[i] = h[i]
      BY <2>2, <2>3, ReplaySame
    <2> QED
      BY <2>4
  <1>5. h[m] = reduce(h[n], rows[m], m)
    BY <1>2, <1>3 DEF IsReplay
  <1> QED
    BY <1>1, <1>2, <1>3, <1>4, <1>5

-----------------------------------------------------------------------------
(* The inductive invariant                                                 *)

States == DOMAIN PlanNext \cup DOMAIN StepNext

TransitionRow ==
    [sequence : Nat, entity : Step \cup {None}, from : States, to : States,
     key : Writer \cup {None}]

CheckpointRow == [sequence : Nat, recovery : BOOLEAN]

Loaded ==
    [pc : {"transitions", "checkpoints", "steps", "act"}, kind : {"resume", "inspect"},
     plan : DOMAIN PlanNext, length : Nat, contiguous : BOOLEAN,
     step : [Step -> DOMAIN StepNext], moved : BOOLEAN]

SnapshotType ==
    /\ plan \in DOMAIN PlanNext
    /\ step \in [Step -> DOMAIN StepNext]

RowsType ==
    /\ chain \in Seq(TransitionRow) /\ Len(chain) <= MaxTransitions
    /\ checkpoints \in Seq(CheckpointRow)

ClientsType ==
    /\ writer \in [Writer -> TransitionRow \cup {None}]
    /\ reader \in [Reader -> Loaded \cup {None}]

HistoryType ==
    history \in [prepared : Nat, reads : Nat, raw : BOOLEAN, gap : BOOLEAN]

State(p, f) == [ok |-> TRUE, plan |-> p, step |-> f]

(* The checkpoints increase; they are contiguous unless the first one was  *)
(* not number 1.                                                           *)
Increasing(rows) ==
    \A i, j \in 1..Len(rows) : i < j => rows[i].sequence < rows[j].sequence

Numbered ==
    /\ Increasing(checkpoints)
    /\ ~history.gap => check_checkpoint_sequence(checkpoints)

WritersFollow ==
    \A w \in Writer : writer[w] # None => writer[w].sequence \in 1..Len(chain) + 1

(* What a reader that was not disturbed has read so far: the database as   *)
(* it is, and once it has read all of it, a prefix that replays to it.     *)
Undisturbed(x) ==
    /\ x.pc # "act" => x.plan = plan
    /\ x.pc \in {"checkpoints", "steps"} => x.length = Len(chain)
    /\ x.pc \in {"steps", "act"} => x.contiguous
    /\ x.pc = "act" => /\ x.length \in 0..Len(chain)
                       /\ Replay(chain, x.length) = State(x.plan, x.step)

ReadersSound ==
    \A r \in Reader : reader[r] # None =>
        reader[r].moved \/ history.raw \/ history.gap \/ Undisturbed(reader[r])

HInv ==
    /\ SnapshotType /\ RowsType /\ ClientsType /\ HistoryType
    /\ SnapshotRebuilds /\ Numbered /\ WritersFollow /\ ReadersSound

(* What the proofs need of the tables.                                     *)
LEMMA Tables ==
    /\ PlanTerminal = {"succeeded", "failed", "cancelled", "compensated", "rejected"}
    /\ \A p \in DOMAIN PlanNext : PlanNext[p] \subseteq DOMAIN PlanNext
    /\ \A x \in DOMAIN StepNext : StepNext[x] \subseteq DOMAIN StepNext
    /\ \A p \in PlanTerminal : PlanNext[p] = {}
    /\ \A x \in ActiveStep : "unknown" \in StepNext[x]
    /\ "unknown" \in DOMAIN PlanNext /\ "unknown" \in DOMAIN StepNext
    /\ "running" \in DOMAIN PlanNext /\ "running" \in DOMAIN StepNext
  BY DEF PlanTerminal, PlanNext, StepNext, ActiveStep

(* One more row for the plan, or for a step, that the table allows.        *)
LEMMA PlanRow ==
    ASSUME NEW rows, NEW n \in Nat, NEW p, NEW f, Replay(rows, n) = State(p, f),
           NEW to, to \in PlanNext[p],
           rows[n + 1].sequence = n + 1, rows[n + 1].entity = None,
           rows[n + 1].from = p, rows[n + 1].to = to
    PROVE  Replay(rows, n + 1) = State(to, f)
  <1>1. Replay(rows, n + 1) = reduce(State(p, f), rows[n + 1], n + 1)
    BY ReplayNext
  <1>2. State(p, f).ok /\ State(p, f).plan = p
    BY DEF State
  <1>3. Allows(None, p, to)
    BY DEF Allows
  <1>4. reduce(State(p, f), rows[n + 1], n + 1) = [State(p, f) EXCEPT !.plan = to]
    BY <1>2, <1>3 DEF reduce, apply_transition_state
  <1> QED
    BY <1>1, <1>4 DEF State

Moved(f, s, to) == [f EXCEPT ![s] = to]

LEMMA StepRow ==
    ASSUME NEW rows, NEW n \in Nat, NEW p, NEW f \in [Step -> DOMAIN StepNext],
           Replay(rows, n) = State(p, f),
           NEW s \in Step, NEW to, to \in StepNext[f[s]],
           rows[n + 1].sequence = n + 1, rows[n + 1].entity = s,
           rows[n + 1].from = f[s], rows[n + 1].to = to
    PROVE  Replay(rows, n + 1) = State(p, Moved(f, s, to))
  <1>1. Replay(rows, n + 1) = reduce(State(p, f), rows[n + 1], n + 1)
    BY ReplayNext
  <1>2. State(p, f).ok /\ State(p, f).step = f /\ s # None
    BY HistoryAssumption DEF State
  <1>3. Allows(s, f[s], to)
    BY <1>2 DEF Allows
  <1>4. reduce(State(p, f), rows[n + 1], n + 1) = [State(p, f) EXCEPT !.step[s] = to]
    BY <1>2, <1>3 DEF reduce, apply_transition_state
  <1> QED
    BY <1>1, <1>4 DEF State, Moved

(* The same for a chain the row was appended to.                           *)
LEMMA AppendReplay ==
    ASSUME NEW R, NEW rows \in Seq(R), NEW t
    PROVE  /\ Len(Append(rows, t)) = Len(rows) + 1
           /\ Append(rows, t)[Len(rows) + 1] = t
           /\ \A i \in 1..Len(rows) : Append(rows, t)[i] = rows[i]
           /\ Replay(Append(rows, t), Len(rows)) = Replay(rows, Len(rows))
  <1>1. /\ Len(rows) \in Nat /\ Len(Append(rows, t)) = Len(rows) + 1
        /\ Append(rows, t)[Len(rows) + 1] = t
        /\ \A i \in 1..Len(rows) : Append(rows, t)[i] = rows[i]
    OBVIOUS
  <1>2. PICK more : more = Append(rows, t)
    OBVIOUS
  <1>3. \A i \in 1..Len(rows) : rows[i] = more[i]
    BY <1>1, <1>2
  <1>4. Replay(rows, Len(rows)) = Replay(more, Len(rows))
    BY <1>1, <1>3, ReplayPrefix
  <1> QED
    BY <1>1, <1>2, <1>4

LEMMA AppendPlan ==
    ASSUME NEW R, NEW rows \in Seq(R), NEW t, NEW p, NEW f,
           Replay(rows, Len(rows)) = State(p, f), t.to \in PlanNext[p],
           t.sequence = Len(rows) + 1, t.entity = None, t.from = p
    PROVE  Replay(Append(rows, t), Len(Append(rows, t))) = State(t.to, f)
  <1>1. PICK more : more = Append(rows, t)
    OBVIOUS
  <1>2. /\ Len(more) = Len(rows) + 1 /\ more[Len(rows) + 1] = t
        /\ Replay(more, Len(rows)) = State(p, f) /\ Len(rows) \in Nat
    BY <1>1, AppendReplay
  <1>3. Replay(more, Len(rows) + 1) = State(t.to, f)
    BY <1>2, PlanRow
  <1> QED
    BY <1>1, <1>2, <1>3

LEMMA AppendStep ==
    ASSUME NEW R, NEW rows \in Seq(R), NEW t, NEW p, NEW f \in [Step -> DOMAIN StepNext],
           Replay(rows, Len(rows)) = State(p, f), NEW s \in Step, t.to \in StepNext[f[s]],
           t.sequence = Len(rows) + 1, t.entity = s, t.from = f[s]
    PROVE  Replay(Append(rows, t), Len(Append(rows, t))) = State(p, Moved(f, s, t.to))
  <1>1. PICK more : more = Append(rows, t)
    OBVIOUS
  <1>2. PICK n \in Nat : n = Len(rows)
    OBVIOUS
  <1>3. PICK to : to = t.to
    OBVIOUS
  <1>4. Len(more) = n + 1 /\ more[n + 1] = t /\ Replay(more, n) = State(p, f)
    BY <1>1, <1>2, AppendReplay
  <1>5. /\ more[n + 1].sequence = n + 1 /\ more[n + 1].entity = s
        /\ more[n + 1].from = f[s] /\ more[n + 1].to = to
    BY <1>2, <1>3, <1>4
  <1>6. Replay(more, n + 1) = State(p, Moved(f, s, to))
    <2>1. Replay(more, n) = State(p, f) /\ to \in StepNext[f[s]]
      BY <1>3, <1>4
    <2> QED
      BY <1>5, <2>1, StepRow
  <1> QED
    BY <1>1, <1>3, <1>4, <1>6

-----------------------------------------------------------------------------
(* What writes do to the readers and to the checkpoints                    *)

LEMMA DisturbedReader ==
    ASSUME ClientsType, NEW q \in Reader
    PROVE  /\ Disturbed[q] \in Loaded \cup {None}
           /\ \/ Disturbed[q] = reader[q] /\ (reader[q] = None \/ reader[q].pc = "act")
              \/ Disturbed[q].moved
  <1>1. Disturbed[q] = IF reader[q] # None /\ reader[q].pc # "act"
                       THEN [reader[q] EXCEPT !.moved = TRUE] ELSE reader[q]
    BY DEF Disturbed
  <1>2. PICK x : x = reader[q]
    OBVIOUS
  <1>3. x \in Loaded \cup {None}
    BY <1>2 DEF ClientsType
  <1>4. CASE x # None /\ x.pc # "act"
    <2>1. x \in Loaded
      BY <1>3, <1>4
    <2>2. PICK y : y = [x EXCEPT !.moved = TRUE]
      OBVIOUS
    <2>3. y \in Loaded /\ y.moved
      BY <2>1, <2>2 DEF Loaded
    <2> QED
      BY <1>1, <1>2, <1>4, <2>2, <2>3
  <1>5. CASE ~(x # None /\ x.pc # "act")
    BY <1>1, <1>2, <1>3, <1>5
  <1> QED
    BY <1>4, <1>5

(* A write leaves the readers that are done reading with a prefix of the   *)
(* chain, and the others disturbed.                                        *)
LEMMA ReadersKeep ==
    ASSUME ClientsType, RowsType, ReadersSound, chain' \in Seq(TransitionRow),
           Len(chain) <= Len(chain'), \A i \in 1..Len(chain) : chain'[i] = chain[i],
           history.raw => history'.raw, history.gap => history'.gap,
           \A q \in Reader : reader'[q] = None \/ reader'[q] = Disturbed[q]
    PROVE  ReadersSound'
  <1> SUFFICES ASSUME NEW q \in Reader, reader'[q] # None
               PROVE  (reader[q].moved \/ history.raw \/ history.gap \/ Undisturbed(reader[q]))'
    BY DEF ReadersSound
  <1>1. reader'[q] = Disturbed[q]
    OBVIOUS
  <1>2. CASE reader'[q].moved
    BY <1>2
  <1>3. CASE history'.raw \/ history'.gap
    BY <1>3
  <1>4. CASE ~reader'[q].moved /\ ~history'.raw /\ ~history'.gap
    <2>1. reader'[q] = reader[q] /\ reader[q].pc = "act" /\ ~reader[q].moved
      BY <1>1, <1>4, DisturbedReader
    <2>2. Undisturbed(reader[q])
      BY <1>4, <2>1 DEF ReadersSound
    <2>3. PICK x : x = reader[q]
      OBVIOUS
    <2>4. /\ x.pc = "act" /\ x.contiguous /\ x.length \in 0..Len(chain)
          /\ Replay(chain, x.length) = State(x.plan, x.step)
      BY <2>1, <2>2, <2>3 DEF Undisturbed
    <2>5. PICK n \in Nat : n = x.length
      BY <2>4 DEF RowsType
    <2>6. n \in 0..Len(chain) /\ n \in 0..Len(chain')
      BY <2>4, <2>5 DEF RowsType
    <2>7. PICK more : more = chain'
      OBVIOUS
    <2>8. \A i \in 1..n : chain[i] = more[i]
      BY <2>6, <2>7 DEF RowsType
    <2>9. Replay(chain, n) = Replay(more, n)
      BY <2>8, ReplayPrefix
    <2>10. reader'[q] = x
      BY <2>1, <2>3
    <2>11. Undisturbed(reader[q])'
      BY <2>4, <2>5, <2>6, <2>7, <2>9, <2>10 DEF Undisturbed
    <2> QED
      BY <2>11
  <1> QED
    BY <1>2, <1>3, <1>4

LEMMA LastIsGreatest ==
    ASSUME NEW k \in Nat, NEW n \in Nat, NEW rows, NEW more,
           \A i \in 1..k : rows[i].sequence \in Nat,
           \A i, j \in 1..k : i < j => rows[i].sequence < rows[j].sequence,
           k # 0 => n = rows[k].sequence + 1,
           more[k + 1].sequence = n, \A i \in 1..k : more[i] = rows[i]
    PROVE  \A i, j \in 1..k + 1 : i < j => more[i].sequence < more[j].sequence
  <1> SUFFICES ASSUME NEW i \in 1..k + 1, NEW j \in 1..k + 1, i < j
               PROVE  more[i].sequence < more[j].sequence
    OBVIOUS
  <1>1. i \in 1..k /\ k # 0 /\ k \in 1..k
    OBVIOUS
  <1>2. CASE j \in 1..k
    BY <1>1, <1>2
  <1>3. CASE j = k + 1
    <2>1. rows[i].sequence <= rows[k].sequence
      <3>1. CASE i = k
        BY <1>1, <3>1
      <3>2. CASE i < k
        BY <1>1, <3>2
      <3> QED
        BY <1>1, <3>1, <3>2
    <2> QED
      BY <1>1, <1>3, <2>1
  <1> QED
    BY <1>2, <1>3

(* Appending the sequence after the last one.                              *)
LEMMA CheckpointsKeep ==
    ASSUME RowsType, Numbered, NEW n \in Nat, NEW b \in BOOLEAN,
           checkpoints' = Append(checkpoints, [sequence |-> n, recovery |-> b]),
           checkpoints # << >> => n = checkpoints[Len(checkpoints)].sequence + 1,
           checkpoints = << >> /\ n # 1 => history'.gap,
           history.gap => history'.gap
    PROVE  checkpoints' \in Seq(CheckpointRow) /\ Numbered'
  <1> DEFINE c == [sequence |-> n, recovery |-> b]
             k == Len(checkpoints)
  <1>1. c \in CheckpointRow /\ c.sequence = n
    BY DEF CheckpointRow
  <1> HIDE DEF c
  <1>2. checkpoints \in Seq(CheckpointRow) /\ k \in Nat
    BY DEF RowsType
  <1>3. /\ checkpoints' \in Seq(CheckpointRow) /\ Len(checkpoints') = k + 1
        /\ checkpoints'[k + 1] = c /\ \A i \in 1..k : checkpoints'[i] = checkpoints[i]
    BY <1>1, <1>2 DEF c
  <1>4. \A i \in 1..k : checkpoints[i].sequence \in Nat
    <2>1. \A i \in 1..k : checkpoints[i] \in CheckpointRow
      BY <1>2
    <2> QED
      BY <2>1 DEF CheckpointRow
  <1>5. checkpoints = << >> <=> k = 0
    BY <1>2
  <1> HIDE DEF k
  <1>6. Increasing(checkpoints)'
    <2>1. k # 0 => n = checkpoints[k].sequence + 1
      BY <1>5 DEF k
    <2>2. \A i, j \in 1..k : i < j => checkpoints[i].sequence < checkpoints[j].sequence
      BY DEF Numbered, Increasing, k
    <2>3. PICK more : more = checkpoints'
      OBVIOUS
    <2>4. more[k + 1].sequence = n /\ \A i \in 1..k : more[i] = checkpoints[i]
      BY <1>1, <1>3, <2>3
    <2>5. \A i, j \in 1..k + 1 : i < j => more[i].sequence < more[j].sequence
      <3>1. k \in Nat /\ more[k + 1].sequence = n
        BY <1>2, <2>4
      <3>2. \A i \in 1..k : more[i] = checkpoints[i]
        BY <2>4
      <3> QED
        BY <1>4, <2>1, <2>2, <3>1, <3>2, LastIsGreatest, ZenonT(30)
    <2> QED
      BY <1>3, <2>3, <2>5 DEF Increasing
  <1>7. ASSUME ~history'.gap PROVE check_checkpoint_sequence(checkpoints')
    <2>1. \A i \in 1..k : checkpoints[i].sequence = i
      BY <1>7 DEF Numbered, check_checkpoint_sequence, k
    <2>2. n = k + 1
      <3>1. CASE k = 0
        BY <1>5, <1>7, <3>1
      <3>2. CASE k # 0
        <4>1. k \in 1..k /\ n = checkpoints[k].sequence + 1
          BY <1>2, <1>5, <3>2 DEF k
        <4> QED
          BY <2>1, <4>1
      <3> QED
        BY <3>1, <3>2
    <2> QED
      BY <1>1, <1>2, <1>3, <2>1, <2>2 DEF check_checkpoint_sequence
  <1> QED
    BY <1>3, <1>6, <1>7 DEF Numbered

-----------------------------------------------------------------------------
(* Each step keeps the invariant.                                          *)

(* A step that leaves the database alone.                                  *)
Unwritten == UNCHANGED <<plan, step, chain, checkpoints>>

LEMMA UnwrittenKeeps ==
    ASSUME HInv, Unwritten, HistoryType', history'.raw = history.raw,
           history'.gap = history.gap
    PROVE  SnapshotType' /\ RowsType' /\ SnapshotRebuilds' /\ Numbered'
  <1>1. SnapshotType' /\ RowsType'
    BY DEF HInv, Unwritten, SnapshotType, RowsType
  <1>2. SnapshotRebuilds'
    BY DEF HInv, Unwritten, SnapshotRebuilds
  <1>3. Numbered'
    BY DEF HInv, Unwritten, Numbered
  <1> QED
    BY <1>1, <1>2, <1>3

LEMMA PrepareKeeps ==
    ASSUME HInv, NEW w \in Writer, NEW entity \in Step \cup {None},
           NEW to \in DOMAIN PlanNext \cup DOMAIN StepNext, prepare(w, entity, to)
    PROVE  HInv'
  <1> DEFINE from == IF entity = None THEN plan ELSE step[entity]
             t == Transition(Len(chain) + 1, entity, from, to, w)
  <1>1. /\ writer' = [writer EXCEPT ![w] = t]
        /\ history' = [history EXCEPT !.prepared = @ + 1]
        /\ UNCHANGED <<plan, step, chain, checkpoints, reader>>
    BY DEF prepare
  <1>2. Len(chain) \in Nat /\ from \in States
    BY DEF HInv, RowsType, SnapshotType, States
  <1>3. t \in TransitionRow /\ t.sequence = Len(chain) + 1
    BY <1>2 DEF Transition, TransitionRow, States
  <1> HIDE DEF t
  <1>4. HistoryType' /\ history'.raw = history.raw /\ history'.gap = history.gap
    BY <1>1 DEF HInv, HistoryType
  <1>5. ClientsType'
    BY <1>1, <1>3 DEF HInv, ClientsType
  <1>6. WritersFollow'
    <2> SUFFICES ASSUME NEW q \in Writer, writer'[q] # None
                 PROVE  writer'[q].sequence \in 1..Len(chain) + 1
      BY <1>1 DEF WritersFollow
    <2>1. CASE q = w
      BY <1>1, <1>2, <1>3, <2>1 DEF HInv, ClientsType
    <2>2. CASE q # w
      BY <1>1, <2>2 DEF HInv, ClientsType, WritersFollow
    <2> QED
      BY <2>1, <2>2
  <1>7. ReadersSound'
    BY <1>1, <1>4 DEF HInv, ReadersSound, Undisturbed
  <1> QED
    BY <1>1, <1>4, <1>5, <1>6, <1>7, UnwrittenKeeps DEF HInv, Unwritten

LEMMA GiveUpKeeps ==
    ASSUME HInv, NEW w \in Writer, give_up(w)
    PROVE  HInv'
  <1>1. /\ writer' = [writer EXCEPT ![w] = None]
        /\ UNCHANGED <<plan, step, chain, checkpoints, reader, history>>
    BY DEF give_up
  <1>2. ClientsType' /\ WritersFollow' /\ ReadersSound' /\ HistoryType'
    BY <1>1 DEF HInv, ClientsType, WritersFollow, ReadersSound, Undisturbed, HistoryType
  <1> QED
    BY <1>1, <1>2, UnwrittenKeeps DEF HInv, Unwritten

(* One reader reads on, or returns.                                        *)
LEMMA ReadKeeps ==
    ASSUME HInv, NEW r \in Reader, NEW x \in Loaded \cup {None},
           UNCHANGED <<plan, step, chain, checkpoints, writer>>,
           HistoryType', history'.raw = history.raw, history'.gap = history.gap,
           reader' = [reader EXCEPT ![r] = x],
           x # None => x.moved \/ history.raw \/ history.gap \/ Undisturbed(x)
    PROVE  HInv'
  <1>1. ClientsType' /\ WritersFollow'
    BY DEF HInv, ClientsType, WritersFollow
  <1>2. ReadersSound'
    <2> SUFFICES ASSUME NEW q \in Reader, reader'[q] # None
                 PROVE  reader'[q].moved \/ history.raw \/ history.gap
                          \/ Undisturbed(reader[q])'
      BY DEF ReadersSound
    <2>1. CASE q = r
      <3>1. reader'[q] = x
        BY <2>1 DEF HInv, ClientsType
      <3> QED
        BY <3>1 DEF Undisturbed
    <2>2. CASE q # r
      <3>1. reader'[q] = reader[q]
        BY <2>2 DEF HInv, ClientsType
      <3> QED
        BY <3>1 DEF HInv, ReadersSound, Undisturbed
    <2> QED
      BY <2>1, <2>2
  <1> QED
    BY <1>1, <1>2, UnwrittenKeeps DEF HInv, Unwritten

LEMMA ReadPlanKeeps ==
    ASSUME HInv, NEW r \in Reader, NEW kind \in {"resume", "inspect"}, read_plan(r, kind)
    PROVE  HInv'
  <1> DEFINE x == [pc |-> "transitions", kind |-> kind, plan |-> plan, length |-> 0,
                   contiguous |-> TRUE, step |-> Unstarted.step, moved |-> FALSE]
  <1>1. /\ reader' = [reader EXCEPT ![r] = x]
        /\ history' = [history EXCEPT !.reads = @ + 1]
        /\ UNCHANGED <<plan, step, chain, checkpoints, writer>>
    BY DEF read_plan
  <1>2. Unstarted.step \in [Step -> DOMAIN StepNext]
    <2>1. "pending" \in DOMAIN StepNext
      BY DEF StepNext
    <2> QED
      BY <2>1 DEF Unstarted
  <1>3. x \in Loaded
    BY <1>2 DEF HInv, SnapshotType, Loaded
  <1>4. Undisturbed(x)
    BY DEF Undisturbed
  <1> HIDE DEF x
  <1>5. HistoryType' /\ history'.raw = history.raw /\ history'.gap = history.gap
    BY <1>1 DEF HInv, HistoryType
  <1> QED
    BY <1>1, <1>3, <1>4, <1>5, ReadKeeps

(* A SELECT: what the reader holds becomes x.                              *)
LEMMA SelectKeeps ==
    ASSUME HInv, NEW r \in Reader, NEW pc, Reading(r, pc), NEW x \in Loaded,
           reader' = [reader EXCEPT ![r] = x], x.moved = reader[r].moved,
           Undisturbed(reader[r]) /\ ~history.raw /\ ~history.gap => Undisturbed(x)
    PROVE  HInv'
  <1>1. /\ UNCHANGED <<plan, step, chain, checkpoints, writer, history>>
        /\ reader[r] # None
    BY DEF Reading
  <1>2. HistoryType' /\ history'.raw = history.raw /\ history'.gap = history.gap
    BY <1>1 DEF HInv, HistoryType
  <1>3. x.moved \/ history.raw \/ history.gap \/ Undisturbed(x)
    BY <1>1 DEF HInv, ReadersSound
  <1> QED
    BY <1>1, <1>2, <1>3, ReadKeeps

LEMMA HeldIsLoaded ==
    ASSUME HInv, NEW r \in Reader, reader[r] # None
    PROVE  reader[r] \in Loaded
  BY DEF HInv, ClientsType

LEMMA ReadTransitionsKeeps ==
    ASSUME HInv, NEW r \in Reader, read_transitions(r)
    PROVE  HInv'
  <1>1. PICK y : y = reader[r]
    OBVIOUS
  <1>2. Reading(r, "transitions") /\ y \in Loaded /\ y.pc = "transitions"
    BY <1>1, HeldIsLoaded DEF read_transitions, Reading
  <1>3. PICK x : x = [y EXCEPT !.pc = "checkpoints", !.length = Len(chain)]
    OBVIOUS
  <1>4. Len(chain) \in Nat
    BY DEF HInv, RowsType
  <1>5. /\ x \in Loaded /\ x.moved = y.moved /\ x.pc = "checkpoints"
        /\ x.length = Len(chain) /\ x.plan = y.plan
    BY <1>2, <1>3, <1>4 DEF Loaded
  <1>6. reader' = [reader EXCEPT ![r] = x]
    BY <1>1, <1>3 DEF read_transitions
  <1>7. Undisturbed(y) => Undisturbed(x)
    BY <1>2, <1>5 DEF Undisturbed
  <1> QED
    BY <1>1, <1>2, <1>5, <1>6, <1>7, SelectKeeps

LEMMA ReadCheckpointsKeeps ==
    ASSUME HInv, NEW r \in Reader, read_checkpoints(r)
    PROVE  HInv'
  <1>1. PICK y : y = reader[r]
    OBVIOUS
  <1>2. Reading(r, "checkpoints") /\ y \in Loaded /\ y.pc = "checkpoints"
    BY <1>1, HeldIsLoaded DEF read_checkpoints, Reading
  <1>3. PICK b \in BOOLEAN : b = check_checkpoint_sequence(checkpoints)
    BY DEF check_checkpoint_sequence
  <1>4. PICK x : x = [y EXCEPT !.pc = "steps", !.contiguous = b]
    OBVIOUS
  <1>5. /\ x \in Loaded /\ x.moved = y.moved /\ x.pc = "steps"
        /\ x.length = y.length /\ x.plan = y.plan /\ x.contiguous = b
    BY <1>2, <1>4 DEF Loaded
  <1>6. reader' = [reader EXCEPT ![r] = x]
    BY <1>1, <1>3, <1>4 DEF read_checkpoints
  <1>7. ~history.gap => x.contiguous
    BY <1>3, <1>5 DEF HInv, Numbered
  <1>8. Undisturbed(y) /\ ~history.gap => Undisturbed(x)
    BY <1>2, <1>5, <1>7 DEF Undisturbed
  <1> QED
    BY <1>1, <1>2, <1>5, <1>6, <1>8, SelectKeeps

(* The last SELECT: what was read is the snapshot, and the chain replays   *)
(* to it.                                                                  *)
LEMMA ReadStepsKeeps ==
    ASSUME HInv, NEW r \in Reader, read_steps(r)
    PROVE  HInv'
  <1>1. PICK y : y = reader[r]
    OBVIOUS
  <1>2. Reading(r, "steps") /\ y \in Loaded /\ y.pc = "steps"
    BY <1>1, HeldIsLoaded DEF read_steps, Reading
  <1>3. PICK x : x = [y EXCEPT !.pc = "act", !.step = step]
    OBVIOUS
  <1>4. /\ x \in Loaded /\ x.moved = y.moved /\ x.pc = "act" /\ x.step = step
        /\ x.length = y.length /\ x.plan = y.plan /\ x.contiguous = y.contiguous
    BY <1>2, <1>3 DEF Loaded, HInv, SnapshotType
  <1>5. reader' = [reader EXCEPT ![r] = x]
    BY <1>1, <1>3 DEF read_steps
  <1>6. Len(chain) \in Nat
    BY DEF HInv, RowsType
  <1>7. Undisturbed(y) /\ ~history.raw => Undisturbed(x)
    <2>1. ~history.raw => Replay(chain, Len(chain)) = State(plan, step)
      BY DEF HInv, SnapshotRebuilds, State
    <2> QED
      BY <1>2, <1>4, <1>6, <2>1 DEF Undisturbed
  <1> QED
    BY <1>1, <1>2, <1>4, <1>5, <1>7, SelectKeeps

LEMMA ReturnsKeeps ==
    ASSUME HInv, NEW r \in Reader, Returns(r)
    PROVE  HInv'
  <1>1. HistoryType' /\ history'.raw = history.raw /\ history'.gap = history.gap
    BY DEF Returns, HInv, HistoryType
  <1> QED
    BY <1>1, ReadKeeps DEF Returns

(* A write: the chain grows or stays, and who was reading is disturbed.    *)
Grows ==
    /\ chain' \in Seq(TransitionRow)
    /\ Len(chain) <= Len(chain') /\ Len(chain') <= MaxTransitions
    /\ \A i \in 1..Len(chain) : chain'[i] = chain[i]

Disturbs ==
    reader' = Disturbed \/ \E r \in Reader : reader' = [Disturbed EXCEPT ![r] = None]

LEMMA WriteKeeps ==
    ASSUME HInv, SnapshotType', SnapshotRebuilds', HistoryType', Grows, Disturbs,
           checkpoints' \in Seq(CheckpointRow), Numbered',
           history.raw => history'.raw, history.gap => history'.gap,
           writer' = writer \/ \E w \in Writer : writer' = [writer EXCEPT ![w] = None]
    PROVE  HInv'
  <1>1. \A q \in Reader : Disturbed[q] \in Loaded \cup {None}
    BY DisturbedReader DEF HInv
  <1>2. Disturbed \in [Reader -> Loaded \cup {None}]
    <2>1. Disturbed = [q \in Reader |-> Disturbed[q]]
      BY DEF Disturbed
    <2> HIDE DEF Disturbed
    <2> QED
      BY <1>1, <2>1
  <1>3. /\ reader' \in [Reader -> Loaded \cup {None}]
        /\ \A q \in Reader : reader'[q] = None \/ reader'[q] = Disturbed[q]
    <2> HIDE DEF Disturbed
    <2>1. CASE reader' = Disturbed
      BY <1>2, <2>1
    <2>2. CASE \E r \in Reader : reader' = [Disturbed EXCEPT ![r] = None]
      BY <1>2, <2>2
    <2> QED
      BY <2>1, <2>2 DEF Disturbs
  <1>4. /\ writer' \in [Writer -> TransitionRow \cup {None}]
        /\ \A w \in Writer : writer'[w] = None \/ writer'[w] = writer[w]
    <2>1. writer \in [Writer -> TransitionRow \cup {None}]
      BY DEF HInv, ClientsType
    <2>2. CASE writer' = writer
      BY <2>1, <2>2
    <2>3. CASE \E w \in Writer : writer' = [writer EXCEPT ![w] = None]
      BY <2>1, <2>3
    <2> QED
      BY <2>2, <2>3
  <1>5. ClientsType'
    BY <1>3, <1>4 DEF ClientsType
  <1>6. RowsType'
    BY DEF RowsType, Grows
  <1>7. WritersFollow'
    <2> SUFFICES ASSUME NEW w \in Writer, writer'[w] # None
                 PROVE  writer'[w].sequence \in 1..Len(chain') + 1
      BY DEF WritersFollow
    <2>1. writer'[w] = writer[w]
      BY <1>4
    <2>2. writer[w].sequence \in 1..Len(chain) + 1
      BY <2>1 DEF HInv, WritersFollow
    <2>3. Len(chain) \in Nat /\ Len(chain') \in Nat /\ Len(chain) <= Len(chain')
      BY DEF HInv, RowsType, Grows
    <2> QED
      BY <2>1, <2>2, <2>3
  <1>8. ReadersSound'
    <2>1. ClientsType /\ RowsType /\ ReadersSound
      BY DEF HInv
    <2>2. /\ chain' \in Seq(TransitionRow) /\ Len(chain) <= Len(chain')
          /\ \A i \in 1..Len(chain) : chain'[i] = chain[i]
      BY DEF Grows
    <2> QED
      BY <1>3, <2>1, <2>2, ReadersKeep
  <1> QED
    BY <1>5, <1>6, <1>7, <1>8 DEF HInv

LEMMA StaysGrown ==
    ASSUME HInv, chain' = chain
    PROVE  Grows
  BY DEF HInv, RowsType, Grows

LEMMA AppendGrows ==
    ASSUME HInv, NEW t \in TransitionRow, chain' = Append(chain, t), Len(chain) < MaxTransitions
    PROVE  Grows
  <1>1. chain \in Seq(TransitionRow) /\ Len(chain) \in Nat
    BY DEF HInv, RowsType
  <1>2. MaxTransitions \in Nat
    BY HistoryAssumption
  <1> QED
    BY <1>1, <1>2 DEF Grows

(* record_plan_transition: the row fits the snapshot, so the longer chain  *)
(* replays to the new one.                                                 *)
LEMMA RecordKeeps ==
    ASSUME HInv, NEW w \in Writer, record_plan_transition(w)
    PROVE  HInv'
  <1>1. PICK t : t = writer[w]
    OBVIOUS
  <1>2. /\ t # None /\ t.sequence = Len(chain) + 1 /\ Len(chain) < MaxTransitions
        /\ t.from = (IF t.entity = None THEN plan ELSE step[t.entity])
        /\ Allows(t.entity, t.from, t.to)
        /\ IF t.entity = None
           THEN plan' = t.to /\ UNCHANGED step
           ELSE step' = [step EXCEPT ![t.entity] = t.to] /\ UNCHANGED plan
        /\ chain' = Append(chain, t)
        /\ writer' = [writer EXCEPT ![w] = None]
        /\ reader' = Disturbed /\ UNCHANGED <<checkpoints, history>>
    BY <1>1 DEF record_plan_transition, Continues
  <1>3. t \in TransitionRow /\ t.entity \in Step \cup {None}
    BY <1>1, <1>2 DEF HInv, ClientsType, TransitionRow
  <1>4. chain \in Seq(TransitionRow)
    BY DEF HInv, RowsType
  <1>5. plan \in DOMAIN PlanNext /\ step \in [Step -> DOMAIN StepNext]
    BY DEF HInv, SnapshotType
  <1>6. ~history.raw => Replay(chain, Len(chain)) = State(plan, step)
    BY DEF HInv, SnapshotRebuilds, State
  <1>7. SnapshotType' /\ SnapshotRebuilds'
    <2>1. CASE t.entity = None
      <3>1. t.from = plan /\ t.to \in PlanNext[plan] /\ plan' = t.to /\ step' = step
        BY <1>2, <2>1 DEF Allows
      <3>2. ~history.raw => Replay(Append(chain, t), Len(Append(chain, t))) = State(t.to, step)
        BY <1>2, <1>4, <1>6, <2>1, <3>1, AppendPlan
      <3>3. SnapshotType'
        BY <1>5, <3>1, Tables DEF SnapshotType
      <3> QED
        BY <1>2, <3>1, <3>2, <3>3 DEF SnapshotRebuilds, State
    <2>2. CASE t.entity # None
      <3>1. PICK s \in Step : s = t.entity
        BY <1>3, <2>2
      <3>2. /\ t.from = step[s] /\ t.to \in StepNext[step[s]]
            /\ plan' = plan /\ step' = [step EXCEPT ![s] = t.to]
        BY <1>2, <2>2, <3>1 DEF Allows
      <3>3. ~history.raw => Replay(Append(chain, t), Len(Append(chain, t)))
                              = State(plan, Moved(step, s, t.to))
        BY <1>2, <1>4, <1>5, <1>6, <3>1, <3>2, AppendStep
      <3>4. SnapshotType'
        BY <1>5, <3>2, Tables DEF SnapshotType
      <3> QED
        BY <1>2, <3>2, <3>3, <3>4 DEF SnapshotRebuilds, State, Moved
    <2> QED
      BY <2>1, <2>2
  <1>8. Grows
    BY <1>2, <1>3, AppendGrows
  <1>9. /\ HistoryType' /\ Numbered' /\ checkpoints' \in Seq(CheckpointRow)
        /\ history' = history /\ Disturbs
    BY <1>2 DEF HInv, HistoryType, Numbered, RowsType, Disturbs
  <1> QED
    BY <1>2, <1>7, <1>8, <1>9, WriteKeeps

LEMMA CheckpointKeeps ==
    ASSUME HInv, NEW n \in 1..MaxCheckpoints, NEW b \in BOOLEAN, append_plan_checkpoint(n, b)
    PROVE  HInv'
  <1>1. /\ checkpoints # << >> => n = checkpoints[Len(checkpoints)].sequence + 1
        /\ checkpoints' = Append(checkpoints, [sequence |-> n, recovery |-> b])
        /\ history' = [history EXCEPT !.gap = @ \/ (checkpoints = << >> /\ n # 1)]
        /\ reader' = Disturbed /\ UNCHANGED <<plan, step, chain, writer>>
    BY DEF append_plan_checkpoint
  <1>2. PICK g \in BOOLEAN : g <=> history.gap \/ (checkpoints = << >> /\ n # 1)
    OBVIOUS
  <1>3. history' = [history EXCEPT !.gap = g]
    <2>1. history.gap \in BOOLEAN
      BY DEF HInv, HistoryType
    <2>2. g = (history.gap \/ (checkpoints = << >> /\ n # 1))
      BY <1>2, <2>1
    <2> QED
      BY <1>1, <2>2
  <1>4. HistoryType' /\ history'.raw = history.raw /\ history'.gap = g
    BY <1>3 DEF HInv, HistoryType
  <1>5. checkpoints' \in Seq(CheckpointRow) /\ Numbered'
    <2>1. n \in Nat /\ RowsType /\ Numbered
      BY HistoryAssumption DEF HInv
    <2>2. history.gap => history'.gap
      BY <1>2, <1>4
    <2>3. checkpoints = << >> /\ n # 1 => history'.gap
      BY <1>2, <1>4
    <2> QED
      BY <1>1, <2>1, <2>2, <2>3, CheckpointsKeep
  <1>6. SnapshotType' /\ SnapshotRebuilds' /\ Disturbs /\ Grows
    BY <1>1, <1>4, StaysGrown DEF HInv, SnapshotType, SnapshotRebuilds, Disturbs
  <1> QED
    BY <1>1, <1>2, <1>4, <1>5, <1>6, WriteKeeps

(* The checkpoint of mark_plan_unknown, recover_unknown and force_unknown. *)
LEMMA RecoveryCheckpoint ==
    ASSUME HInv, checkpoints' = Append(checkpoints, NextCheckpoint),
           history'.gap = history.gap
    PROVE  checkpoints' \in Seq(CheckpointRow) /\ Numbered'
  <1>1. PICK n : n = NextCheckpoint.sequence
    OBVIOUS
  <1>2. /\ n = IF checkpoints = << >> THEN 1 ELSE checkpoints[Len(checkpoints)].sequence + 1
        /\ NextCheckpoint = [sequence |-> n, recovery |-> TRUE]
    BY <1>1 DEF NextCheckpoint
  <1>3. n \in Nat
    <2>1. CASE checkpoints = << >>
      BY <1>2, <2>1
    <2>2. CASE checkpoints # << >>
      <3>1. checkpoints[Len(checkpoints)] \in CheckpointRow
        BY <2>2 DEF HInv, RowsType
      <3> QED
        BY <1>2, <2>2, <3>1 DEF CheckpointRow
    <2> QED
      BY <2>1, <2>2
  <1>4. checkpoints' = Append(checkpoints, [sequence |-> n, recovery |-> TRUE])
    BY <1>2
  <1>5. RowsType /\ Numbered
    BY DEF HInv
  <1>6. checkpoints # << >> => n = checkpoints[Len(checkpoints)].sequence + 1
    BY <1>2
  <1>7. checkpoints = << >> /\ n # 1 => history'.gap
    BY <1>2
  <1> QED
    BY <1>3, <1>4, <1>5, <1>6, <1>7, CheckpointsKeep

LEMMA UnknownType ==
    ASSUME NEW f \in [Step -> DOMAIN StepNext]
    PROVE  Unknown(f) \in [Step -> DOMAIN StepNext]
  BY Tables DEF Unknown

(* force_unknown: a column is written past the chain, or nothing changes.  *)
LEMMA ForceKeeps ==
    ASSUME HInv, NEW r \in Reader, force_unknown(r)
    PROVE  HInv'
  <1> DEFINE marked == \E i \in 1..Len(checkpoints) : checkpoints[i].recovery
  <1>1. /\ reader' = [Disturbed EXCEPT ![r] = None]
        /\ plan' = "unknown" /\ step' = Unknown(step)
        /\ checkpoints' = IF marked THEN checkpoints ELSE Append(checkpoints, NextCheckpoint)
        /\ history' = [history EXCEPT !.raw = @ \/ plan # "unknown" \/ Active(step) # {}]
        /\ UNCHANGED <<chain, writer>>
    BY DEF force_unknown, Acts
  <1>2. PICK b \in BOOLEAN : b <=> history.raw \/ plan # "unknown" \/ Active(step) # {}
    OBVIOUS
  <1>3. history' = [history EXCEPT !.raw = b]
    <2>1. history.raw \in BOOLEAN
      BY DEF HInv, HistoryType
    <2>2. b = (history.raw \/ plan # "unknown" \/ Active(step) # {})
      BY <1>2, <2>1
    <2> QED
      BY <1>1, <2>2
  <1>4. HistoryType' /\ history'.raw = b /\ history'.gap = history.gap
    BY <1>3 DEF HInv, HistoryType
  <1>5. checkpoints' \in Seq(CheckpointRow) /\ Numbered'
    <2>1. CASE marked
      BY <1>1, <1>4, <2>1 DEF HInv, RowsType, Numbered
    <2>2. CASE ~marked
      BY <1>1, <1>4, <2>2, RecoveryCheckpoint
    <2> QED
      BY <2>1, <2>2
  <1>6. SnapshotType'
    BY <1>1, UnknownType, Tables DEF HInv, SnapshotType
  <1>7. SnapshotRebuilds'
    <2> SUFFICES ASSUME ~b PROVE Replay(chain, Len(chain)) = [ok |-> TRUE, plan |-> plan', step |-> step']
      BY <1>1, <1>4 DEF SnapshotRebuilds
    <2>1. ~history.raw /\ plan = "unknown" /\ Active(step) = {}
      BY <1>2
    <2>2. step' = step
      <3>1. \A s \in Step : ~(step[s] \in ActiveStep)
        BY <2>1 DEF Active
      <3>2. step \in [Step -> DOMAIN StepNext]
        BY DEF HInv, SnapshotType
      <3> QED
        BY <1>1, <3>1, <3>2 DEF Unknown
    <2> QED
      BY <1>1, <2>1, <2>2 DEF HInv, SnapshotRebuilds
  <1>8. Disturbs /\ Grows
    BY <1>1, StaysGrown DEF Disturbs
  <1> QED
    BY <1>1, <1>2, <1>4, <1>5, <1>6, <1>7, <1>8, WriteKeeps

(* The rows of mark_plan_unknown.                                          *)
LEMMA MarkPlan ==
    ASSUME SnapshotType, NEW rows \in Seq(TransitionRow), NEW more,
           more = IF Allows(None, plan, "unknown")
                  THEN Append(rows, Transition(Len(rows) + 1, None, plan, "unknown", None))
                  ELSE rows
    PROVE  /\ more \in Seq(TransitionRow) /\ Len(rows) <= Len(more)
           /\ \A i \in 1..Len(rows) : more[i] = rows[i]
           /\ (more # rows \/ plan = "unknown") /\ Replay(rows, Len(rows)) = State(plan, step)
                => Replay(more, Len(more)) = State("unknown", step)
  <1>1. CASE Allows(None, plan, "unknown")
    <2>1. PICK t : t = Transition(Len(rows) + 1, None, plan, "unknown", None)
      OBVIOUS
    <2>2. /\ t \in TransitionRow /\ t.sequence = Len(rows) + 1 /\ t.entity = None
          /\ t.from = plan /\ t.to = "unknown"
      BY <2>1, Tables DEF SnapshotType, Transition, TransitionRow, States
    <2>3. more = Append(rows, t) /\ t.to \in PlanNext[plan]
      BY <1>1, <2>1, <2>2 DEF Allows
    <2>4. Replay(rows, Len(rows)) = State(plan, step) => Replay(more, Len(more)) = State(t.to, step)
      BY <2>2, <2>3, AppendPlan
    <2>5. /\ more \in Seq(TransitionRow) /\ Len(rows) <= Len(more)
          /\ \A i \in 1..Len(rows) : more[i] = rows[i]
      BY <2>2, <2>3
    <2> QED
      BY <2>2, <2>4, <2>5
  <1>2. CASE ~Allows(None, plan, "unknown")
    BY <1>2
  <1> QED
    BY <1>1, <1>2

LEMMA MarkStep ==
    ASSUME SnapshotType, NEW rows \in Seq(TransitionRow), NEW more, NEW s \in Step, NEW p,
           more = IF Allows(s, step[s], "unknown")
                  THEN Append(rows, Transition(Len(rows) + 1, s, step[s], "unknown", None))
                  ELSE rows
    PROVE  /\ more \in Seq(TransitionRow) /\ Len(rows) <= Len(more)
           /\ \A i \in 1..Len(rows) : more[i] = rows[i]
           /\ (more # rows \/ step[s] = "unknown") /\ Replay(rows, Len(rows)) = State(p, step)
                => Replay(more, Len(more)) = State(p, Moved(step, s, "unknown"))
  <1>0. s # None /\ step \in [Step -> DOMAIN StepNext]
    BY HistoryAssumption DEF SnapshotType
  <1>1. CASE Allows(s, step[s], "unknown")
    <2>1. PICK t : t = Transition(Len(rows) + 1, s, step[s], "unknown", None)
      OBVIOUS
    <2>2. /\ t \in TransitionRow /\ t.sequence = Len(rows) + 1 /\ t.entity = s
          /\ t.from = step[s] /\ t.to = "unknown"
      BY <1>0, <2>1, Tables DEF Transition, TransitionRow, States
    <2>3. more = Append(rows, t) /\ t.to \in StepNext[step[s]]
      BY <1>0, <1>1, <2>1, <2>2 DEF Allows
    <2>4. Replay(rows, Len(rows)) = State(p, step)
            => Replay(more, Len(more)) = State(p, Moved(step, s, t.to))
      BY <1>0, <2>2, <2>3, AppendStep
    <2>5. /\ more \in Seq(TransitionRow) /\ Len(rows) <= Len(more)
          /\ \A i \in 1..Len(rows) : more[i] = rows[i]
      BY <2>2, <2>3
    <2> QED
      BY <2>2, <2>4, <2>5
  <1>2. CASE ~Allows(s, step[s], "unknown")
    <2>1. more = rows
      BY <1>2
    <2>2. step[s] = "unknown" => Moved(step, s, "unknown") = step
      BY <1>0 DEF Moved
    <2> QED
      BY <2>1, <2>2
  <1> QED
    BY <1>1, <1>2

LEMMA MarkKeeps ==
    ASSUME HInv, NEW s \in Step \cup {None}, mark_plan_unknown(s)
    PROVE  HInv'
  <1>1. PICK mid : mid = IF Allows(None, plan, "unknown")
                         THEN Append(chain, Transition(Len(chain) + 1, None, plan, "unknown", None))
                         ELSE chain
    OBVIOUS
  <1>2. PICK last : last = IF s # None /\ Allows(s, step[s], "unknown")
                           THEN Append(mid, Transition(Len(mid) + 1, s, step[s], "unknown", None))
                           ELSE mid
    OBVIOUS
  <1>3. PICK b \in BOOLEAN : b <=> \/ history.raw \/ (plan # "unknown" /\ mid = chain)
                                   \/ (s # None /\ step[s] # "unknown" /\ last = mid)
    OBVIOUS
  <1>4. /\ Len(last) <= MaxTransitions /\ chain' = last /\ plan' = "unknown"
        /\ step' = IF s = None THEN step ELSE [step EXCEPT ![s] = "unknown"]
        /\ checkpoints' = Append(checkpoints, NextCheckpoint)
        /\ reader' = Disturbed /\ UNCHANGED writer
    BY <1>1, <1>2 DEF mark_plan_unknown
  <1>5. history' = [history EXCEPT !.raw = b]
    <2>1. history' = [history EXCEPT !.raw = @ \/ (plan # "unknown" /\ mid = chain)
                         \/ (s # None /\ step[s] # "unknown" /\ last = mid)]
      BY <1>1, <1>2 DEF mark_plan_unknown
    <2>2. history.raw \in BOOLEAN
      BY DEF HInv, HistoryType
    <2>3. b = (history.raw \/ (plan # "unknown" /\ mid = chain)
                           \/ (s # None /\ step[s] # "unknown" /\ last = mid))
      BY <1>3, <2>2
    <2> QED
      BY <2>1, <2>3
  <1>6. HistoryType' /\ history'.raw = b /\ history'.gap = history.gap
    BY <1>5 DEF HInv, HistoryType
  <1>7. checkpoints' \in Seq(CheckpointRow) /\ Numbered'
    BY <1>4, <1>6, RecoveryCheckpoint
  <1>8. SnapshotType /\ chain \in Seq(TransitionRow) /\ step \in [Step -> DOMAIN StepNext]
    BY DEF HInv, RowsType, SnapshotType
  <1>9. SnapshotType'
    <2>1. CASE s = None
      BY <1>4, <1>8, <2>1, Tables DEF SnapshotType
    <2>2. CASE s # None
      BY <1>4, <1>8, <2>2, Tables DEF SnapshotType
    <2> QED
      BY <2>1, <2>2
  <1>10. /\ mid \in Seq(TransitionRow) /\ Len(chain) <= Len(mid)
         /\ \A i \in 1..Len(chain) : mid[i] = chain[i]
         /\ (mid # chain \/ plan = "unknown") /\ Replay(chain, Len(chain)) = State(plan, step)
              => Replay(mid, Len(mid)) = State("unknown", step)
    BY <1>1, <1>8, MarkPlan
  <1>11. ~history.raw => Replay(chain, Len(chain)) = State(plan, step)
    BY DEF HInv, SnapshotRebuilds, State
  <1>12. /\ last \in Seq(TransitionRow) /\ Len(mid) <= Len(last)
         /\ \A i \in 1..Len(mid) : last[i] = mid[i]
         /\ ~b => Replay(last, Len(last)) = State("unknown", step')
    <2>1. ~b => Replay(mid, Len(mid)) = State("unknown", step)
      BY <1>3, <1>10, <1>11
    <2>2. CASE s = None
      BY <1>2, <1>4, <1>10, <2>1, <2>2
    <2>3. CASE s # None
      <3>1. s \in Step
        BY <2>3
      <3>2. last = IF Allows(s, step[s], "unknown")
                   THEN Append(mid, Transition(Len(mid) + 1, s, step[s], "unknown", None))
                   ELSE mid
        BY <1>2, <2>3
      <3>3. mid \in Seq(TransitionRow)
        BY <1>10
      <3>4. PICK p : p = "unknown"
        OBVIOUS
      <3>5. /\ last \in Seq(TransitionRow) /\ Len(mid) <= Len(last)
            /\ \A i \in 1..Len(mid) : last[i] = mid[i]
            /\ (last # mid \/ step[s] = "unknown") /\ Replay(mid, Len(mid)) = State(p, step)
                 => Replay(last, Len(last)) = State(p, Moved(step, s, "unknown"))
        <4>1. SnapshotType
          BY <1>8
        <4> QED
          BY <3>1, <3>2, <3>3, <4>1, MarkStep, ZenonT(30)
      <3>6. ~b => last # mid \/ step[s] = "unknown"
        BY <1>3, <2>3
      <3>7. step' = Moved(step, s, "unknown")
        BY <1>4, <2>3 DEF Moved
      <3> QED
        BY <2>1, <3>4, <3>5, <3>6, <3>7
    <2> QED
      BY <2>2, <2>3
  <1>13. SnapshotRebuilds'
    BY <1>4, <1>6, <1>12 DEF SnapshotRebuilds, State
  <1>14. Grows
    <2>1. /\ Len(chain) \in Nat /\ Len(mid) \in Nat /\ Len(last) \in Nat
          /\ Len(chain) <= Len(mid) /\ Len(mid) <= Len(last)
      BY <1>8, <1>10, <1>12
    <2>2. \A i \in 1..Len(chain) : i \in 1..Len(mid) /\ last[i] = mid[i] /\ mid[i] = chain[i]
      BY <1>10, <1>12, <2>1
    <2> QED
      BY <1>4, <1>12, <2>1, <2>2 DEF Grows
  <1>15. Disturbs /\ (history.raw => history'.raw)
    BY <1>3, <1>4, <1>6 DEF Disturbs
  <1> QED
    BY <1>4, <1>6, <1>7, <1>9, <1>13, <1>14, <1>15, WriteKeeps

-----------------------------------------------------------------------------
(* recover_unknown: the plan and every active step, in order               *)

LEMMA FunctionIsSeq ==
    ASSUME NEW S, NEW n \in Nat, NEW f \in [1..n -> S]
    PROVE  f \in Seq(S) /\ Len(f) = n
  OBVIOUS

LEMMA ActiveListed ==
    ASSUME NEW x \in Loaded
    PROVE  /\ Active(x.step) \in SUBSET Nat /\ IsFiniteSet(Active(x.step))
           /\ Active(x.step) \subseteq Step /\ Cardinality(Active(x.step)) \in Nat
           /\ \E f : Sorted(f, Active(x.step))
  <1>1. /\ Active(x.step) \subseteq Step /\ Active(x.step) \in SUBSET Nat
        /\ Active(x.step) \in SUBSET Step
    BY HistoryAssumption DEF Active
  <1>2. IsFiniteSet(Active(x.step))
    BY <1>1, FS_Subset, HistoryAssumption
  <1> QED
    BY <1>1, <1>2, SortedExists, FS_CardinalityType

(* The rows, by position.                                                  *)
IsRecovery(rows, x, n, order) ==
    /\ n = Cardinality(Active(x.step)) /\ Sorted(order, Active(x.step))
    /\ rows \in Seq(TransitionRow) /\ Len(rows) = n + 1
    /\ rows[1] = Transition(Len(chain) + 1, None, x.plan, "unknown", None)
    /\ \A i \in 1..n : rows[i + 1] =
         Transition(Len(chain) + (i + 1), order[i], x.step[order[i]], "unknown", None)

LEMMA RowsOfRecovery ==
    ASSUME NEW x \in Loaded, Len(chain) \in Nat
    PROVE  \E n \in Nat : \E order : IsRecovery(RecoveryRows(x), x, n, order)
  <1>1. PICK A : A = Active(x.step)
    OBVIOUS
  <1>2. /\ A \in SUBSET Nat /\ IsFiniteSet(A) /\ A \subseteq Step /\ Cardinality(A) \in Nat
        /\ \E f : Sorted(f, A)
    BY <1>1, ActiveListed
  <1>3. PICK n \in Nat : n = Cardinality(A)
    BY <1>2
  <1>4. PICK order : order = CHOOSE f \in [1..Cardinality(A) -> A] :
                               \A i, j \in DOMAIN f : i < j => f[i] < f[j]
    OBVIOUS
  <1>5. Sorted(order, A)
    BY <1>2, <1>4 DEF Sorted
  <1>6. order \in [1..n -> A]
    BY <1>3, <1>5 DEF Sorted
  <1>7. order \in [1..n -> Step]
    BY <1>2, <1>6
  <1>8. order \in Seq(Step) /\ Len(order) = n
    BY <1>7, FunctionIsSeq
  <1>9. PICK entities : entities = <<None>> \o order
    OBVIOUS
  <1>10. /\ Len(entities) = n + 1 /\ entities[1] = None
         /\ \A i \in 1..n : entities[i + 1] = order[i]
    BY <1>8, <1>9
  <1>11. RecoveryRows(x) = [i \in 1..Len(entities) |->
            Transition(Len(chain) + i, entities[i],
                       IF entities[i] = None THEN x.plan ELSE x.step[entities[i]],
                       "unknown", None)]
    BY <1>1, <1>4, <1>9 DEF RecoveryRows
  <1> DEFINE row(i) == Transition(Len(chain) + i, entities[i],
                         IF entities[i] = None THEN x.plan ELSE x.step[entities[i]],
                         "unknown", None)
  <1>12. row(1) = Transition(Len(chain) + 1, None, x.plan, "unknown", None)
    BY <1>10
  <1>13. ASSUME NEW i \in 1..n
         PROVE  row(i + 1) = Transition(Len(chain) + (i + 1), order[i], x.step[order[i]],
                                        "unknown", None)
    <2>1. entities[i + 1] = order[i] /\ order[i] \in Step /\ order[i] # None
      BY <1>7, <1>10, HistoryAssumption
    <2> QED
      BY <2>1
  <1>14. \A i \in 1..n + 1 : row(i) \in TransitionRow
    <2> SUFFICES ASSUME NEW i \in 1..n + 1 PROVE row(i) \in TransitionRow
      OBVIOUS
    <2>1. CASE i = 1
      <3>1. x.plan \in States /\ "unknown" \in States /\ Len(chain) + 1 \in Nat
        BY Tables DEF Loaded, States
      <3> QED
        BY <1>12, <2>1, <3>1 DEF Transition, TransitionRow
    <2>2. CASE i # 1
      <3>1. PICK j \in 1..n : i = j + 1
        <4>1. i - 1 \in 1..n /\ i = (i - 1) + 1
          BY <2>2
        <4> QED
          BY <4>1
      <3>2. order[j] \in Step
        BY <1>7
      <3>3. x.step[order[j]] \in States /\ "unknown" \in States /\ Len(chain) + (j + 1) \in Nat
        BY <3>2, Tables DEF Loaded, States
      <3> HIDE DEF row
      <3>4. row(i) = Transition(Len(chain) + (j + 1), order[j], x.step[order[j]], "unknown", None)
        BY <1>13, <3>1
      <3> QED
        BY <3>2, <3>3, <3>4 DEF Transition, TransitionRow
    <2> QED
      BY <2>1, <2>2
  <1>15. PICK rows : rows = RecoveryRows(x)
    OBVIOUS
  <1>16. rows = [i \in 1..n + 1 |-> row(i)]
    BY <1>10, <1>11, <1>15
  <1> HIDE DEF row
  <1>17. rows \in Seq(TransitionRow) /\ Len(rows) = n + 1
    <2>1. rows \in [1..n + 1 -> TransitionRow]
      BY <1>14, <1>16
    <2> QED
      BY <2>1, FunctionIsSeq
  <1>18. rows[1] = row(1) /\ \A i \in 1..n : rows[i + 1] = row(i + 1)
    BY <1>16
  <1>19. IsRecovery(rows, x, n, order)
    BY <1>1, <1>3, <1>5, <1>12, <1>13, <1>17, <1>18 DEF IsRecovery
  <1> QED
    BY <1>15, <1>19

(* The steps that the first k rows of an order mark.                       *)
Marked(f, order, k) ==
    [s \in Step |-> IF \E j \in 1..k : order[j] = s THEN "unknown" ELSE f[s]]

LEMMA MarkedNext ==
    ASSUME NEW f \in [Step -> DOMAIN StepNext], NEW n \in Nat, NEW order,
           \A i, j \in 1..n : order[i] = order[j] => i = j,
           NEW k \in Nat, k + 1 <= n, order[k + 1] \in Step
    PROVE  /\ Marked(f, order, k) \in [Step -> DOMAIN StepNext]
           /\ Marked(f, order, k)[order[k + 1]] = f[order[k + 1]]
           /\ Moved(Marked(f, order, k), order[k + 1], "unknown") = Marked(f, order, k + 1)
  <1>1. Marked(f, order, k) \in [Step -> DOMAIN StepNext]
    BY Tables DEF Marked
  <1>2. ~ \E j \in 1..k : order[j] = order[k + 1]
    <2> SUFFICES ASSUME NEW j \in 1..k, order[j] = order[k + 1] PROVE FALSE
      OBVIOUS
    <2>1. j \in 1..n /\ k + 1 \in 1..n
      OBVIOUS
    <2>2. j = k + 1
      BY <2>1
    <2> QED
      BY <2>2
  <1>3. Marked(f, order, k)[order[k + 1]] = f[order[k + 1]]
    BY <1>2 DEF Marked
  <1>4. \A s \in Step : Moved(Marked(f, order, k), order[k + 1], "unknown")[s]
                          = Marked(f, order, k + 1)[s]
    <2> SUFFICES ASSUME NEW s \in Step
                 PROVE  Moved(Marked(f, order, k), order[k + 1], "unknown")[s]
                          = Marked(f, order, k + 1)[s]
      OBVIOUS
    <2>1. CASE s = order[k + 1]
      <3>1. k + 1 \in 1..k + 1
        OBVIOUS
      <3> QED
        BY <1>1, <2>1, <3>1 DEF Moved, Marked
    <2>2. CASE s # order[k + 1]
      <3>1. (\E j \in 1..k + 1 : order[j] = s) <=> (\E j \in 1..k : order[j] = s)
        <4>1. \A j \in 1..k + 1 : order[j] = s => j \in 1..k
          BY <2>2
        <4>2. \A j \in 1..k : j \in 1..k + 1
          OBVIOUS
        <4> QED
          BY <4>1, <4>2
      <3>2. Moved(Marked(f, order, k), order[k + 1], "unknown")[s] = Marked(f, order, k)[s]
        BY <1>1, <2>2 DEF Moved
      <3> QED
        BY <3>1, <3>2 DEF Marked
    <2> QED
      BY <2>1, <2>2
  <1>5. /\ Moved(Marked(f, order, k), order[k + 1], "unknown")
             = [s \in Step |-> Moved(Marked(f, order, k), order[k + 1], "unknown")[s]]
        /\ Marked(f, order, k + 1) = [s \in Step |-> Marked(f, order, k + 1)[s]]
    BY <1>1 DEF Moved, Marked
  <1> QED
    BY <1>1, <1>3, <1>4, <1>5

(* Each row after the plan's marks one more step.                          *)
StepRows(rows, m, f, n, order) ==
    /\ \A i, j \in 1..n : order[i] = order[j] => i = j
    /\ \A i \in 1..n : order[i] \in Step /\ "unknown" \in StepNext[f[order[i]]]
    /\ \A i \in 1..n : rows[m + i] = Transition(m + i, order[i], f[order[i]], "unknown", None)

LEMMA StepsReplay ==
    ASSUME NEW rows, NEW m \in Nat, NEW p, NEW f \in [Step -> DOMAIN StepNext],
           Replay(rows, m) = State(p, f), NEW n \in Nat, NEW order,
           StepRows(rows, m, f, n, order)
    PROVE  Replay(rows, m + n) = State(p, Marked(f, order, n))
  <1> DEFINE K == {k \in Nat : k <= n => Replay(rows, m + k) = State(p, Marked(f, order, k))}
  <1>1. 0 \in K
    <2>1. Marked(f, order, 0) = f
      BY DEF Marked
    <2>2. m + 0 = m
      OBVIOUS
    <2> QED
      BY <2>1, <2>2
  <1>2. ASSUME NEW k \in Nat, k \in K PROVE k + 1 \in K
    <2> SUFFICES ASSUME k + 1 <= n
                 PROVE  Replay(rows, m + (k + 1)) = State(p, Marked(f, order, k + 1))
      OBVIOUS
    <2>1. PICK i \in 1..n : i = k + 1
      OBVIOUS
    <2>2. PICK g : g = Marked(f, order, k)
      OBVIOUS
    <2>3. PICK s \in Step : s = order[i]
      BY DEF StepRows
    <2>4. /\ g \in [Step -> DOMAIN StepNext] /\ g[s] = f[s]
          /\ Moved(g, s, "unknown") = Marked(f, order, k + 1)
      <3>1. \A j, l \in 1..n : order[j] = order[l] => j = l
        BY DEF StepRows
      <3> QED
        BY <2>1, <2>2, <2>3, <3>1, MarkedNext
    <2>5. PICK q \in Nat : q = m + k
      OBVIOUS
    <2>6. Replay(rows, q) = State(p, g)
      BY <1>2, <2>2, <2>5
    <2>7. /\ rows[q + 1].sequence = q + 1 /\ rows[q + 1].entity = s
          /\ rows[q + 1].from = g[s] /\ rows[q + 1].to = "unknown"
      <3>1. q + 1 = m + i
        BY <2>1, <2>5
      <3>2. rows[m + i] = Transition(m + i, order[i], f[order[i]], "unknown", None)
        BY DEF StepRows
      <3> QED
        BY <2>3, <2>4, <3>1, <3>2 DEF Transition
    <2>8. PICK to : to = "unknown"
      OBVIOUS
    <2>9. to \in StepNext[g[s]]
      BY <2>3, <2>4, <2>8 DEF StepRows
    <2>10. Replay(rows, q + 1) = State(p, Moved(g, s, to))
      <3>1. g \in [Step -> DOMAIN StepNext] /\ rows[q + 1].to = to
        BY <2>4, <2>7, <2>8
      <3>2. rows[q + 1].sequence = q + 1 /\ rows[q + 1].entity = s /\ rows[q + 1].from = g[s]
        BY <2>7
      <3> QED
        BY <2>6, <2>9, <3>1, <3>2, StepRow
    <2>11. q + 1 = m + (k + 1)
      BY <2>5
    <2> QED
      BY <2>4, <2>8, <2>10, <2>11
  <1>3. Nat \subseteq K
    <2> HIDE DEF K
    <2> QED
      BY <1>1, <1>2, NatSetInduction
  <1> QED
    BY <1>3

(* Marking each active step once is Unknown.                               *)
LEMMA MarkedAll ==
    ASSUME NEW f \in [Step -> DOMAIN StepNext], NEW n \in Nat, NEW order,
           \A i \in 1..n : order[i] \in Active(f),
           \A s \in Active(f) : \E i \in 1..n : order[i] = s
    PROVE  Marked(f, order, n) = Unknown(f)
  <1>1. \A s \in Step : f[s] \in ActiveStep <=> \E i \in 1..n : order[i] = s
    BY DEF Active
  <1> QED
    BY <1>1 DEF Marked, Unknown

LEMMA Concatenation ==
    ASSUME NEW R, NEW s \in Seq(R), NEW t \in Seq(R)
    PROVE  /\ s \o t \in Seq(R) /\ Len(s \o t) = Len(s) + Len(t)
           /\ \A i \in 1..Len(s) : (s \o t)[i] = s[i]
           /\ \A i \in 1..Len(t) : (s \o t)[Len(s) + i] = t[i]
  <1>1. s \o t \in Seq(R) /\ Len(s \o t) = Len(s) + Len(t)
    OBVIOUS
  <1>2. \A i \in 1..Len(s) : (s \o t)[i] = s[i]
    OBVIOUS
  <1>3. \A i \in 1..Len(t) : (s \o t)[Len(s) + i] = t[i]
    OBVIOUS
  <1> QED
    BY <1>1, <1>2, <1>3

(* recover_unknown after Unmoved: the rows account for the columns.        *)
LEMMA RecoverKeeps ==
    ASSUME HInv, NEW r \in Reader, recover_unknown(r)
    PROVE  HInv'
  <1>1. PICK x : x = reader[r]
    OBVIOUS
  <1>2. PICK rows : rows = RecoveryRows(x)
    OBVIOUS
  <1>3. /\ Acts(r) /\ Unmoved(x)
        /\ Len(chain) + Len(rows) <= MaxTransitions
        /\ chain' = chain \o rows /\ plan' = "unknown" /\ step' = Unknown(step)
        /\ checkpoints' = Append(checkpoints, NextCheckpoint)
        /\ history' = [history EXCEPT !.raw = @ \/ ~Allows(None, x.plan, "unknown")]
    BY <1>1, <1>2 DEF recover_unknown
  <1>4. reader[r] # None /\ reader' = [Disturbed EXCEPT ![r] = None] /\ writer' = writer
    BY <1>3 DEF Acts
  <1>5. x \in Loaded
    BY <1>1, <1>4, HeldIsLoaded
  <1>6. PICK b \in BOOLEAN : b <=> history.raw \/ ~Allows(None, x.plan, "unknown")
    OBVIOUS
  <1>7. history' = [history EXCEPT !.raw = b]
    <2>1. history.raw \in BOOLEAN
      BY DEF HInv, HistoryType
    <2>2. b = (history.raw \/ ~Allows(None, x.plan, "unknown"))
      BY <1>6, <2>1
    <2> QED
      BY <1>3, <2>2
  <1>8. HistoryType' /\ history'.raw = b /\ history'.gap = history.gap
    BY <1>7 DEF HInv, HistoryType
  <1>9. checkpoints' \in Seq(CheckpointRow) /\ Numbered'
    BY <1>3, <1>8, RecoveryCheckpoint
  <1>10. plan \in DOMAIN PlanNext /\ step \in [Step -> DOMAIN StepNext]
    BY DEF HInv, SnapshotType
  <1>11. SnapshotType'
    BY <1>3, <1>10, UnknownType, Tables DEF SnapshotType
  <1>12. PICK m \in Nat : m = Len(chain)
    BY DEF HInv, RowsType
  <1>13. PICK n \in Nat : \E order : IsRecovery(rows, x, n, order)
    BY <1>2, <1>5, <1>12, RowsOfRecovery
  <1>14. PICK order : IsRecovery(rows, x, n, order)
    BY <1>13
  <1>15. chain \in Seq(TransitionRow) /\ rows \in Seq(TransitionRow) /\ Len(rows) = n + 1
    BY <1>14 DEF HInv, RowsType, IsRecovery
  <1>16. PICK more : more = chain \o rows
    OBVIOUS
  <1>17. /\ more \in Seq(TransitionRow) /\ Len(more) = m + (n + 1)
         /\ \A i \in 1..m : more[i] = chain[i]
         /\ \A i \in 1..n + 1 : more[m + i] = rows[i]
    <2>1. chain \in Seq(TransitionRow) /\ rows \in Seq(TransitionRow)
      BY <1>15
    <2>2. /\ more \in Seq(TransitionRow) /\ Len(more) = Len(chain) + Len(rows)
          /\ \A i \in 1..Len(chain) : more[i] = chain[i]
          /\ \A i \in 1..Len(rows) : more[Len(chain) + i] = rows[i]
      BY <1>16, <2>1, Concatenation
    <2> QED
      BY <1>12, <1>15, <2>2
  <1>18. Grows
    <2>1. MaxTransitions \in Nat
      BY HistoryAssumption
    <2> QED
      BY <1>3, <1>12, <1>15, <1>16, <1>17, <2>1 DEF Grows
  <1>19. ~b => Replay(more, m + (n + 1)) = State("unknown", Unknown(step))
    <2> SUFFICES ASSUME ~b PROVE Replay(more, m + (n + 1)) = State("unknown", Unknown(step))
      OBVIOUS
    <2>1. ~history.raw /\ "unknown" \in PlanNext[plan] /\ plan = x.plan
      BY <1>3, <1>6 DEF Allows, Unmoved
    <2>2. Replay(more, m) = State(plan, step)
      <3>1. \A i \in 1..m : chain[i] = more[i]
        BY <1>17
      <3>2. Replay(chain, m) = Replay(more, m)
        BY <3>1, ReplayPrefix
      <3> QED
        BY <1>12, <2>1, <3>2 DEF HInv, SnapshotRebuilds, State
    <2>3. PICK q \in Nat : q = m + 1
      OBVIOUS
    <2>4. Replay(more, q) = State("unknown", step)
      <3>1. 1 \in 1..n + 1
        OBVIOUS
      <3>2. more[m + 1] = rows[1]
        BY <1>17, <3>1
      <3>3. more[m + 1] = Transition(m + 1, None, plan, "unknown", None)
        BY <1>12, <1>14, <2>1, <3>2 DEF IsRecovery
      <3>4. /\ more[m + 1].sequence = m + 1 /\ more[m + 1].entity = None
            /\ more[m + 1].from = plan /\ more[m + 1].to = "unknown"
        BY <3>3 DEF Transition
      <3>5. Replay(more, m + 1) = State("unknown", step)
        BY <2>1, <2>2, <3>4, PlanRow
      <3> QED
        BY <2>3, <3>5
    <2>5. /\ Active(step) = Active(x.step) /\ \A s \in Active(step) : step[s] = x.step[s]
      BY <1>3 DEF Unmoved
    <2>6. /\ Active(step) \in SUBSET Nat /\ IsFiniteSet(Active(step)) /\ n = Cardinality(Active(step))
          /\ Sorted(order, Active(step))
      BY <1>5, <1>14, <2>5, ActiveListed DEF IsRecovery
    <2>7. order \in [1..n -> Active(step)]
      BY <2>6 DEF Sorted
    <2>8. /\ \A i, j \in 1..n : order[i] = order[j] => i = j
          /\ \A s \in Active(step) : \E i \in 1..n : order[i] = s
      BY <2>6, SortedOnto
    <2>9. \A i \in 1..n : order[i] \in Step /\ "unknown" \in StepNext[step[order[i]]]
      BY <2>7, Tables DEF Active
    <2>10. \A i \in 1..n : more[q + i] = Transition(q + i, order[i], step[order[i]], "unknown", None)
      <3> SUFFICES ASSUME NEW i \in 1..n
                   PROVE  more[q + i] = Transition(q + i, order[i], step[order[i]], "unknown", None)
        OBVIOUS
      <3>1. i + 1 \in 1..n + 1 /\ q + i = m + (i + 1)
        BY <2>3
      <3>2. more[q + i] = rows[i + 1]
        BY <1>17, <3>1
      <3>3. rows[i + 1] = Transition(m + (i + 1), order[i], x.step[order[i]], "unknown", None)
        BY <1>12, <1>14 DEF IsRecovery
      <3>4. x.step[order[i]] = step[order[i]]
        BY <2>5, <2>7
      <3> QED
        BY <3>1, <3>2, <3>3, <3>4
    <2>11. StepRows(more, q, step, n, order)
      BY <2>8, <2>9, <2>10 DEF StepRows
    <2>12. Replay(more, q + n) = State("unknown", Marked(step, order, n))
      BY <1>10, <2>4, <2>11, StepsReplay
    <2>13. Marked(step, order, n) = Unknown(step)
      <3>1. \A i \in 1..n : order[i] \in Active(step)
        BY <2>7
      <3> QED
        BY <1>10, <2>8, <3>1, MarkedAll
    <2>14. q + n = m + (n + 1)
      BY <2>3
    <2> QED
      BY <2>12, <2>13, <2>14
  <1>20. SnapshotRebuilds'
    <2>1. chain' = more /\ Len(chain') = m + (n + 1)
      BY <1>3, <1>16, <1>17
    <2> QED
      BY <1>3, <1>8, <1>19, <2>1 DEF SnapshotRebuilds, State
  <1>21. Disturbs /\ (history.raw => history'.raw)
    BY <1>4, <1>6, <1>8 DEF Disturbs
  <1> QED
    BY <1>4, <1>8, <1>9, <1>11, <1>18, <1>20, <1>21, WriteKeeps

-----------------------------------------------------------------------------
(* The start: the walk of approve_plan and the first claim replay to the   *)
(* snapshot.                                                               *)
LEMMA ClaimedRows ==
    ASSUME NEW s
    PROVE  /\ Len(Claimed(s)) = 6
           /\ Claimed(s)[1] = <<None, "draft", "proposed">>
           /\ Claimed(s)[2] = <<None, "proposed", "validated">>
           /\ Claimed(s)[3] = <<None, "validated", "approved">>
           /\ Claimed(s)[4] = <<None, "approved", "running">>
           /\ Claimed(s)[5] = <<s, "pending", "ready">>
           /\ Claimed(s)[6] = <<s, "ready", "running">>
  BY DEF Claimed, Walk

LEMMA InitReplays ==
    ASSUME NEW s \in Step, NEW rows,
           \A i \in 1..6 : rows[i] = Transition(i, Claimed(s)[i][1], Claimed(s)[i][2],
                                                Claimed(s)[i][3], None)
    PROVE  Replay(rows, 6) = State("running", [Unstarted.step EXCEPT ![s] = "running"])
  <1>1. PICK f : f = Unstarted.step
    OBVIOUS
  <1>2. f \in [Step -> DOMAIN StepNext] /\ f[s] = "pending" /\ Unstarted = State("draft", f)
    <2>1. "pending" \in DOMAIN StepNext
      BY DEF StepNext
    <2> QED
      BY <1>1, <2>1 DEF Unstarted, State
  <1>3. /\ rows[1] = Transition(1, None, "draft", "proposed", None)
        /\ rows[2] = Transition(2, None, "proposed", "validated", None)
        /\ rows[3] = Transition(3, None, "validated", "approved", None)
        /\ rows[4] = Transition(4, None, "approved", "running", None)
        /\ rows[5] = Transition(5, s, "pending", "ready", None)
        /\ rows[6] = Transition(6, s, "ready", "running", None)
    <2>1. 1 \in 1..6 /\ 2 \in 1..6 /\ 3 \in 1..6 /\ 4 \in 1..6 /\ 5 \in 1..6 /\ 6 \in 1..6
      OBVIOUS
    <2> QED
      BY <2>1, ClaimedRows
  <1>4. /\ "proposed" \in PlanNext["draft"] /\ "validated" \in PlanNext["proposed"]
        /\ "approved" \in PlanNext["validated"] /\ "running" \in PlanNext["approved"]
        /\ "ready" \in StepNext["pending"] /\ "running" \in StepNext["ready"]
        /\ "ready" \in DOMAIN StepNext
    BY DEF PlanNext, StepNext
  <1>5. Replay(rows, 0) = State("draft", f)
    BY <1>2, ReplayZero
  <1>6. Replay(rows, 1) = State("proposed", f)
    <2>1. /\ rows[0 + 1].sequence = 0 + 1 /\ rows[0 + 1].entity = None
          /\ rows[0 + 1].from = "draft" /\ rows[0 + 1].to = "proposed"
      BY <1>3 DEF Transition
    <2>2. Replay(rows, 0 + 1) = State("proposed", f)
      BY <1>4, <1>5, <2>1, PlanRow
    <2> QED
      BY <2>2
  <1>7. Replay(rows, 2) = State("validated", f)
    <2>1. /\ rows[1 + 1].sequence = 1 + 1 /\ rows[1 + 1].entity = None
          /\ rows[1 + 1].from = "proposed" /\ rows[1 + 1].to = "validated"
      BY <1>3 DEF Transition
    <2>2. Replay(rows, 1 + 1) = State("validated", f)
      BY <1>4, <1>6, <2>1, PlanRow
    <2> QED
      BY <2>2
  <1>8. Replay(rows, 3) = State("approved", f)
    <2>1. /\ rows[2 + 1].sequence = 2 + 1 /\ rows[2 + 1].entity = None
          /\ rows[2 + 1].from = "validated" /\ rows[2 + 1].to = "approved"
      BY <1>3 DEF Transition
    <2>2. Replay(rows, 2 + 1) = State("approved", f)
      BY <1>4, <1>7, <2>1, PlanRow
    <2> QED
      BY <2>2
  <1>9. Replay(rows, 4) = State("running", f)
    <2>1. /\ rows[3 + 1].sequence = 3 + 1 /\ rows[3 + 1].entity = None
          /\ rows[3 + 1].from = "approved" /\ rows[3 + 1].to = "running"
      BY <1>3 DEF Transition
    <2>2. Replay(rows, 3 + 1) = State("running", f)
      BY <1>4, <1>8, <2>1, PlanRow
    <2> QED
      BY <2>2
  <1>10. PICK g : g = Moved(f, s, "ready")
    OBVIOUS
  <1>11. /\ g \in [Step -> DOMAIN StepNext] /\ g[s] = "ready"
         /\ Moved(g, s, "running") = [f EXCEPT ![s] = "running"]
    BY <1>2, <1>4, <1>10 DEF Moved
  <1>12. Replay(rows, 5) = State("running", g)
    <2>1. /\ rows[4 + 1].sequence = 4 + 1 /\ rows[4 + 1].entity = s
          /\ rows[4 + 1].from = f[s] /\ rows[4 + 1].to = "ready"
      BY <1>2, <1>3 DEF Transition
    <2>2. "ready" \in StepNext[f[s]]
      BY <1>2, <1>4
    <2>3. Replay(rows, 4 + 1) = State("running", Moved(f, s, "ready"))
      BY <1>2, <1>9, <2>1, <2>2, StepRow
    <2> QED
      BY <1>10, <2>3
  <1>13. Replay(rows, 6) = State("running", Moved(g, s, "running"))
    <2>1. /\ rows[5 + 1].sequence = 5 + 1 /\ rows[5 + 1].entity = s
          /\ rows[5 + 1].from = g[s] /\ rows[5 + 1].to = "running"
      BY <1>3, <1>11 DEF Transition
    <2>2. "running" \in StepNext[g[s]]
      BY <1>4, <1>11
    <2>3. Replay(rows, 5 + 1) = State("running", Moved(g, s, "running"))
      BY <1>11, <1>12, <2>1, <2>2, StepRow
    <2> QED
      BY <2>3
  <1> QED
    BY <1>1, <1>11, <1>13

LEMMA InitHolds == Init => HInv
  <1> SUFFICES ASSUME Init PROVE HInv
    OBVIOUS
  <1>1. PICK s \in Step :
          /\ chain = [i \in 1..Len(Claimed(s)) |->
               Transition(i, Claimed(s)[i][1], Claimed(s)[i][2], Claimed(s)[i][3], None)]
          /\ plan = "running"
          /\ step = [Unstarted.step EXCEPT ![s] = "running"]
    BY DEF Init
  <1>2. /\ checkpoints = << >> \/ checkpoints = [i \in 1..2 |-> [sequence |-> i, recovery |-> FALSE]]
        /\ writer = [w \in Writer |-> None] /\ reader = [r \in Reader |-> None]
        /\ history = [prepared |-> 0, reads |-> 0, raw |-> FALSE, gap |-> FALSE]
    BY DEF Init
  <1>3. chain = [i \in 1..6 |-> Transition(i, Claimed(s)[i][1], Claimed(s)[i][2],
                                           Claimed(s)[i][3], None)]
    BY <1>1, ClaimedRows
  <1>4. SnapshotType
    <2>1. "pending" \in DOMAIN StepNext
      BY DEF StepNext
    <2> QED
      BY <1>1, <2>1, Tables DEF SnapshotType, Unstarted
  <1>5. chain \in Seq(TransitionRow) /\ Len(chain) = 6
    <2>1. ASSUME NEW i \in 1..6
          PROVE  Transition(i, Claimed(s)[i][1], Claimed(s)[i][2], Claimed(s)[i][3], None)
                   \in TransitionRow
      <3>1. {"draft", "proposed", "validated", "approved", "running", "pending", "ready"}
              \subseteq States
        BY DEF States, PlanNext, StepNext
      <3>2. i = 1 \/ i = 2 \/ i = 3 \/ i = 4 \/ i = 5 \/ i = 6
        OBVIOUS
      <3>3. /\ Claimed(s)[i][1] \in Step \cup {None}
            /\ Claimed(s)[i][2] \in States /\ Claimed(s)[i][3] \in States
        BY <3>1, <3>2, ClaimedRows
      <3> QED
        BY <3>3 DEF Transition, TransitionRow
    <2>2. chain \in [1..6 -> TransitionRow]
      BY <1>3, <2>1
    <2> QED
      BY <2>2, FunctionIsSeq
  <1>6. checkpoints \in Seq(CheckpointRow) /\ check_checkpoint_sequence(checkpoints)
    <2>1. CASE checkpoints = << >>
      BY <2>1 DEF check_checkpoint_sequence
    <2>2. CASE checkpoints = [i \in 1..2 |-> [sequence |-> i, recovery |-> FALSE]]
      <3>1. checkpoints \in [1..2 -> CheckpointRow]
        BY <2>2 DEF CheckpointRow
      <3>2. checkpoints \in Seq(CheckpointRow) /\ Len(checkpoints) = 2
        BY <3>1, FunctionIsSeq
      <3>3. \A i \in 1..2 : checkpoints[i].sequence = i
        BY <2>2
      <3> QED
        BY <3>2, <3>3 DEF check_checkpoint_sequence
    <2> QED
      BY <1>2, <2>1, <2>2
  <1>7. Numbered
    <2>1. Len(checkpoints) \in Nat
      BY <1>6
    <2> QED
      BY <1>6, <2>1 DEF Numbered, Increasing, check_checkpoint_sequence
  <1>8. RowsType
    BY <1>5, <1>6, HistoryAssumption DEF RowsType
  <1>9. ClientsType /\ HistoryType /\ WritersFollow /\ ReadersSound
    BY <1>2 DEF ClientsType, HistoryType, WritersFollow, ReadersSound
  <1>10. SnapshotRebuilds
    <2>1. PICK rows : rows = chain
      OBVIOUS
    <2>2. \A i \in 1..6 : rows[i] = Transition(i, Claimed(s)[i][1], Claimed(s)[i][2],
                                               Claimed(s)[i][3], None)
      BY <1>3, <2>1
    <2>3. Replay(rows, 6) = State("running", [Unstarted.step EXCEPT ![s] = "running"])
      BY <2>2, InitReplays
    <2> QED
      BY <1>1, <1>5, <2>1, <2>3 DEF SnapshotRebuilds, State
  <1> QED
    BY <1>4, <1>7, <1>8, <1>9, <1>10 DEF HInv

-----------------------------------------------------------------------------
(* The theorems                                                            *)

LEMMA NextKeeps == HInv /\ [Next]_vars => HInv'
  <1> SUFFICES ASSUME HInv, [Next]_vars PROVE HInv'
    OBVIOUS
  <1>1. CASE UNCHANGED vars
    BY <1>1 DEF vars, HInv, SnapshotType, RowsType, ClientsType, HistoryType,
                SnapshotRebuilds, Numbered, WritersFollow, ReadersSound, Undisturbed
  <1>2. CASE \E w \in Writer :
               \/ \E entity \in Step \cup {None}, to \in DOMAIN PlanNext \cup DOMAIN StepNext :
                    prepare(w, entity, to)
               \/ record_plan_transition(w) \/ give_up(w)
    BY <1>2, PrepareKeeps, RecordKeeps, GiveUpKeeps
  <1>3. CASE \E n \in 1..MaxCheckpoints, b \in BOOLEAN : append_plan_checkpoint(n, b)
    BY <1>3, CheckpointKeeps
  <1>4. CASE \E s \in Step \cup {None} : mark_plan_unknown(s)
    BY <1>4, MarkKeeps
  <1>5. ASSUME NEW r \in Reader,
               \/ \E kind \in {"resume", "inspect"} : read_plan(r, kind)
               \/ read_transitions(r) \/ read_checkpoints(r) \/ read_steps(r)
               \/ report(r) \/ recover_unknown(r) \/ recovery_superseded(r)
               \/ force_unknown(r)
        PROVE  HInv'
    <2>1. CASE \E kind \in {"resume", "inspect"} : read_plan(r, kind)
      BY <2>1, ReadPlanKeeps
    <2>2. CASE read_transitions(r)
      BY <2>2, ReadTransitionsKeeps
    <2>3. CASE read_checkpoints(r)
      BY <2>3, ReadCheckpointsKeeps
    <2>4. CASE read_steps(r)
      BY <2>4, ReadStepsKeeps
    <2>5. CASE report(r) \/ recovery_superseded(r)
      BY <2>5, ReturnsKeeps DEF report, recovery_superseded
    <2>6. CASE recover_unknown(r)
      BY <2>6, RecoverKeeps
    <2>7. CASE force_unknown(r)
      BY <2>7, ForceKeeps
    <2> QED
      BY <1>5, <2>1, <2>2, <2>3, <2>4, <2>5, <2>6, <2>7
  <1> QED
    BY <1>1, <1>2, <1>3, <1>4, <1>5 DEF Next

(* The inductive invariant holds.                                          *)
THEOREM HistoryInvariance == Spec => []HInv
  <1> QED
    BY InitHolds, NextKeeps, PTL DEF Spec

(* Plan and steps stay within their tables, the checkpoints of a revision  *)
(* increase, and a writer's transition was built for a position of the     *)
(* chain.                                                                  *)
THEOREM TypeCorrect == Spec => []TypeOK
  <1>1. HInv => TypeOK
    <2> SUFFICES ASSUME HInv PROVE TypeOK
      OBVIOUS
    <2>1. /\ plan \in DOMAIN PlanNext /\ step \in [Step -> DOMAIN StepNext]
          /\ Len(chain) \in Nat /\ Len(chain) <= MaxTransitions
      BY DEF HInv, SnapshotType, RowsType
    <2>2. \A i, j \in 1..Len(checkpoints) : i < j =>
            checkpoints[i].sequence < checkpoints[j].sequence
      BY DEF HInv, Numbered, Increasing
    <2>3. ASSUME NEW w \in Writer, writer[w] # None
          PROVE  writer[w].sequence \in 1..MaxTransitions + 1
      <3>1. writer[w].sequence \in 1..Len(chain) + 1
        BY <2>3 DEF HInv, WritersFollow
      <3>2. MaxTransitions \in Nat
        BY HistoryAssumption
      <3> QED
        BY <2>1, <3>1, <3>2
    <2>4. \A r \in Reader : reader[r] # None =>
            reader[r].pc \in {"transitions", "checkpoints", "steps", "act"}
      BY HeldIsLoaded DEF Loaded
    <2> QED
      BY <2>1, <2>2, <2>3, <2>4 DEF TypeOK
  <1> QED
    BY <1>1, HistoryInvariance, PTL

(* The chain replays to the columns of plans and plan_steps, whatever      *)
(* late, repeated or concurrent transitions, marks and recoveries were     *)
(* accepted, as long as no column was written past it.                     *)
THEOREM ChainRebuilds == Spec => []SnapshotRebuilds
  <1>1. HInv => SnapshotRebuilds
    BY DEF HInv
  <1> QED
    BY <1>1, HistoryInvariance, PTL

(* load_reducer_rows finds a plan inconsistent only for a reason: a column *)
(* written past the chain, a first checkpoint that was not number 1, or a  *)
(* write between two of its SELECTs.                                       *)
THEOREM InspectionHolds == Spec => []InspectionSound
  <1>1. HInv => InspectionSound
    <2> SUFFICES ASSUME HInv, NEW r \in Reader, reader[r] # None, reader[r].pc = "act",
                        ~reader[r].moved, ~history.raw, ~history.gap
                 PROVE  Consistent(reader[r])
      BY DEF InspectionSound
    <2>1. Undisturbed(reader[r])
      BY DEF HInv, ReadersSound
    <2> QED
      BY <2>1 DEF Undisturbed, Consistent, State
  <1> QED
    BY <1>1, HistoryInvariance, PTL

(* Only a write past the chain moves a plan that ended.                    *)
LEMMA EndedStep ==
    ASSUME HInv, Next, plan \in PlanTerminal
    PROVE  plan' = plan \/ history'.raw
  <1>1. PlanNext[plan] = {} /\ plan # "unknown" /\ ~Allows(None, plan, "unknown")
    BY Tables DEF Allows
  <1>2. history.raw \in BOOLEAN /\ history \in [prepared : Nat, reads : Nat, raw : BOOLEAN, gap : BOOLEAN]
    BY DEF HInv, HistoryType
  <1>3. ASSUME NEW w \in Writer, record_plan_transition(w)
        PROVE  plan' = plan
    BY <1>1, <1>3 DEF record_plan_transition, Allows
  <1>4. ASSUME NEW s \in Step \cup {None}, mark_plan_unknown(s)
        PROVE  history'.raw
    <2>1. PICK last : history' = [history EXCEPT !.raw =
                          @ \/ plan # "unknown"
                            \/ (s # None /\ step[s] # "unknown" /\ last = chain)]
      BY <1>1, <1>4 DEF mark_plan_unknown
    <2>2. history' = [history EXCEPT !.raw = TRUE]
      BY <1>1, <2>1
    <2> QED
      BY <1>2, <2>2
  <1>5. ASSUME NEW r \in Reader, recover_unknown(r)
        PROVE  history'.raw
    <2>1. /\ plan = reader[r].plan
          /\ history' = [history EXCEPT !.raw = @ \/ ~Allows(None, reader[r].plan, "unknown")]
      BY <1>5 DEF recover_unknown, Unmoved
    <2>2. history' = [history EXCEPT !.raw = TRUE]
      BY <1>1, <2>1
    <2> QED
      BY <1>2, <2>2
  <1>6. ASSUME NEW r \in Reader, force_unknown(r)
        PROVE  history'.raw
    <2>1. history' = [history EXCEPT !.raw = @ \/ plan # "unknown" \/ Active(step) # {}]
      BY <1>6 DEF force_unknown
    <2>2. history' = [history EXCEPT !.raw = TRUE]
      BY <1>1, <2>1
    <2> QED
      BY <1>2, <2>2
  <1>7. ASSUME NEW w \in Writer, NEW entity, NEW to, prepare(w, entity, to)
        PROVE  plan' = plan
    BY <1>7 DEF prepare
  <1>8. ASSUME NEW r \in Reader,
               \/ \E kind \in {"resume", "inspect"} : read_plan(r, kind)
               \/ read_transitions(r) \/ read_checkpoints(r) \/ read_steps(r)
               \/ report(r) \/ recovery_superseded(r)
        PROVE  plan' = plan
    BY <1>8 DEF read_plan, read_transitions, read_checkpoints, read_steps, Reading,
                report, recovery_superseded, Returns
  <1>9. ASSUME NEW n \in 1..MaxCheckpoints, NEW b \in BOOLEAN, append_plan_checkpoint(n, b)
        PROVE  plan' = plan
    BY <1>9 DEF append_plan_checkpoint
  <1>10. ASSUME NEW w \in Writer, give_up(w)
         PROVE  plan' = plan
    BY <1>10 DEF give_up
  <1> QED
    BY <1>3, <1>4, <1>5, <1>6, <1>7, <1>8, <1>9, <1>10 DEF Next

(* A plan that ended stays ended: a step that changes it all the same      *)
(* writes a column that no transition accounts for.                        *)
THEOREM EndedHolds == Spec => EndedStays
  <1>1. HInv /\ [Next]_vars => [(plan \in PlanTerminal) => plan' = plan \/ history.raw']_vars
    BY EndedStep DEF vars
  <1> QED
    BY <1>1, HistoryInvariance, PTL DEF Spec, EndedStays
=============================================================================
