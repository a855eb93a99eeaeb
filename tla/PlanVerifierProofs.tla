------------------------- MODULE PlanVerifierProofs -------------------------
(***************************************************************************)
(* Whatever the plan, the context and the limits are, the verdict of       *)
(* verify is the one that the conditions demand, although the report keeps *)
(* only the first violations; and the search that refuses plans with a     *)
(* cycle decides what its definition in PlanVerifier says.                 *)
(***************************************************************************)
EXTENDS PlanVerifier, StepGraph, InductionLemmas, FiniteSetTheorems, SequenceTheorems, TLAPS

-----------------------------------------------------------------------------
(* Lists of violations                                                     *)

LEMMA Joined ==
    ASSUME NEW R, NEW s \in Seq(R), NEW t \in Seq(R)
    PROVE  /\ s \o t \in Seq(R) /\ Len(s \o t) = Len(s) + Len(t)
           /\ \A i \in 1..Len(s) : (s \o t)[i] = s[i]
           /\ \A i \in 1..Len(t) : (s \o t)[Len(s) + i] = t[i]
           /\ ToSet(s \o t) = ToSet(s) \cup ToSet(t)
  <1>1. s \o t \in Seq(R) /\ Len(s \o t) = Len(s) + Len(t)
    OBVIOUS
  <1>2. \A i \in 1..Len(s) : (s \o t)[i] = s[i]
    OBVIOUS
  <1>3. \A i \in 1..Len(t) : (s \o t)[Len(s) + i] = t[i]
    OBVIOUS
  <1>4. PICK m \in Nat, n \in Nat : m = Len(s) /\ n = Len(t)
    OBVIOUS
  <1>5. /\ ToSet(s) = {s[i] : i \in 1..m} /\ ToSet(t) = {t[i] : i \in 1..n}
        /\ ToSet(s \o t) = {(s \o t)[i] : i \in 1..m + n}
    BY <1>1, <1>4 DEF ToSet
  <1>6. PICK u : u = s \o t
    OBVIOUS
  <1>7. (\A i \in 1..m : u[i] = s[i]) /\ (\A i \in 1..n : u[m + i] = t[i])
    BY <1>2, <1>3, <1>4, <1>6
  <1>8. {u[i] : i \in 1..m + n} = {s[i] : i \in 1..m} \cup {t[i] : i \in 1..n}
    <2>1. ASSUME NEW i \in 1..m + n
          PROVE  u[i] \in {s[j] : j \in 1..m} \cup {t[j] : j \in 1..n}
      <3>1. CASE i \in 1..m
        BY <1>7, <3>1
      <3>2. CASE i \notin 1..m
        <4>1. PICK j \in 1..n : i = m + j
          <5>1. i - m \in 1..n /\ i = m + (i - m)
            BY <3>2
          <5> QED
            BY <5>1
        <4> QED
          BY <1>7, <4>1
      <3> QED
        BY <3>1, <3>2
    <2>2. ASSUME NEW j \in 1..m PROVE s[j] \in {u[i] : i \in 1..m + n}
      <3>1. j \in 1..m + n
        OBVIOUS
      <3> QED
        BY <1>7, <3>1
    <2>3. ASSUME NEW j \in 1..n PROVE t[j] \in {u[i] : i \in 1..m + n}
      <3>1. m + j \in 1..m + n
        OBVIOUS
      <3> QED
        BY <1>7, <3>1
    <2> QED
      BY <2>1, <2>2, <2>3
  <1> QED
    BY <1>1, <1>2, <1>3, <1>5, <1>6, <1>8

(* A list is empty exactly when nothing is in it.                          *)
LEMMA Emptiness ==
    ASSUME NEW R, NEW s \in Seq(R)
    PROVE  /\ s = << >> <=> ToSet(s) = {}
           /\ s = << >> <=> Len(s) = 0
           /\ ToSet(s) = {s[i] : i \in 1..Len(s)}
           /\ ToSet(s) \subseteq R
  <1>1. ToSet(s) = {s[i] : i \in 1..Len(s)}
    BY DEF ToSet
  <1>2. s = << >> <=> Len(s) = 0
    OBVIOUS
  <1>3. Len(s) # 0 => s[1] \in ToSet(s)
    <2>1. Len(s) # 0 => 1 \in 1..Len(s)
      OBVIOUS
    <2> QED
      BY <1>1, <2>1
  <1>4. Len(s) = 0 => ToSet(s) = {}
    BY <1>1
  <1>5. ToSet(s) \subseteq R
    BY <1>1
  <1> QED
    BY <1>1, <1>2, <1>3, <1>4, <1>5

-----------------------------------------------------------------------------
(* FlattenSeq, by its recursion                                            *)

IsFlat(g, ss, n) ==
    g = [i \in 1..n |-> IF i = 1 THEN ss[i] ELSE g[i - 1] \o ss[i]]

LEMMA FlatExists ==
    ASSUME NEW ss, NEW n \in Nat
    PROVE  \E g : IsFlat(g, ss, n)
  <1> DEFINE S == {m \in Nat : \E g : IsFlat(g, ss, m)}
  <1>1. 0 \in S
    <2>1. IsFlat([i \in 1..0 |-> i], ss, 0)
      BY DEF IsFlat
    <2> QED
      BY <2>1
  <1>2. ASSUME NEW m \in Nat, m \in S PROVE m + 1 \in S
    <2>1. PICK g : IsFlat(g, ss, m)
      BY <1>2
    <2> DEFINE h == [i \in 1..m + 1 |-> IF i = m + 1 THEN IF i = 1 THEN ss[i] ELSE g[m] \o ss[i]
                                                    ELSE g[i]]
    <2>2. \A i \in 1..m : g[i] = IF i = 1 THEN ss[i] ELSE g[i - 1] \o ss[i]
      BY <2>1 DEF IsFlat
    <2>3. /\ h[m + 1] = IF m + 1 = 1 THEN ss[m + 1] ELSE g[m] \o ss[m + 1]
          /\ \A i \in 1..m : h[i] = g[i]
      <3>1. m + 1 \in 1..m + 1 /\ \A i \in 1..m : i \in 1..m + 1 /\ i # m + 1
        OBVIOUS
      <3>2. h[m + 1] = IF m + 1 = 1 THEN ss[m + 1] ELSE g[m] \o ss[m + 1]
        BY <3>1, Zenon
      <3>3. \A i \in 1..m : h[i] = g[i]
        BY <3>1
      <3> QED
        BY <3>2, <3>3
    <2>4. \A i \in 1..m + 1 : h[i] = IF i = 1 THEN ss[i] ELSE h[i - 1] \o ss[i]
      <3> HIDE DEF h
      <3> TAKE i \in 1..m + 1
      <3>1. CASE i = m + 1 /\ i # 1
        <4>1. i - 1 = m /\ m \in 1..m
          BY <3>1
        <4> QED
          BY <2>3, <3>1, <4>1
      <3>2. CASE i = m + 1 /\ i = 1
        BY <2>3, <3>2
      <3>3. CASE i \in 1..m
        <4>1. i # 1 => i - 1 \in 1..m
          BY <3>3
        <4> QED
          BY <2>2, <2>3, <3>3, <4>1
      <3> QED
        BY <3>1, <3>2, <3>3
    <2>5. IsFlat(h, ss, m + 1)
      BY <2>4 DEF IsFlat
    <2> QED
      BY <2>5
  <1>3. Nat \subseteq S
    <2> HIDE DEF S
    <2> QED
      BY <1>1, <1>2, NatSetInduction
  <1> QED
    BY <1>3

(* What FlattenSeq returns for n lists: all that is in them, and no more   *)
(* than n violations if each has at most one.                              *)
LEMMA Flattened ==
    ASSUME NEW R, NEW n \in Nat, NEW ss \in [1..n -> Seq(R)]
    PROVE  /\ FlattenSeq(ss) \in Seq(R)
           /\ ToSet(FlattenSeq(ss)) = UNION {ToSet(ss[i]) : i \in 1..n}
           /\ (\A i \in 1..n : Len(ss[i]) <= 1) => Len(FlattenSeq(ss)) <= n
  <1>1. Len(ss) = n
    OBVIOUS
  <1>2. CASE n = 0
    <2>1. ss = << >>
      BY <1>2
    <2>2. FlattenSeq(ss) = << >>
      BY <1>1, <1>2, <2>1 DEF FlattenSeq
    <2> QED
      BY <1>2, <2>2 DEF ToSet
  <1>3. CASE n # 0
    <2> DEFINE g == CHOOSE g : IsFlat(g, ss, n)
    <2>1. IsFlat(g, ss, n)
      BY FlatExists
    <2>2. FlattenSeq(ss) = g[n]
      BY <1>1, <1>3 DEF FlattenSeq, IsFlat
    <2> HIDE DEF g
    <2>3. \A i \in 1..n : g[i] = IF i = 1 THEN ss[i] ELSE g[i - 1] \o ss[i]
      BY <2>1 DEF IsFlat
    <2> DEFINE Upto(k) ==
                 /\ g[k] \in Seq(R)
                 /\ ToSet(g[k]) = UNION {ToSet(ss[i]) : i \in 1..k}
                 /\ (\A i \in 1..n : Len(ss[i]) <= 1) => Len(g[k]) <= k
               S == {k \in Nat : k \in 1..n => Upto(k)}
    <2>4. 0 \in S
      OBVIOUS
    <2>5. ASSUME NEW k \in Nat, k \in S PROVE k + 1 \in S
      <3> SUFFICES ASSUME k + 1 \in 1..n PROVE Upto(k + 1)
        OBVIOUS
      <3>1. CASE k = 0
        <4>1. 1 \in 1..n
          BY <1>3
        <4>2. g[1] = ss[1] /\ ss[1] \in Seq(R)
          BY <2>3, <4>1
        <4>3. UNION {ToSet(ss[i]) : i \in 1..1} = ToSet(ss[1])
          OBVIOUS
        <4>4. (\A i \in 1..n : Len(ss[i]) <= 1) => Len(g[1]) <= 1
          BY <4>1, <4>2
        <4> QED
          BY <3>1, <4>2, <4>3, <4>4
      <3>2. CASE k # 0
        <4>1. k \in 1..n
          BY <3>2
        <4>2. Upto(k)
          BY <2>5, <4>1
        <4>3. PICK a \in Seq(R), b \in Seq(R) : a = g[k] /\ b = ss[k + 1]
          BY <4>2
        <4>4. g[k + 1] = a \o b
          <5>1. g[k + 1] = g[(k + 1) - 1] \o ss[k + 1]
            <6>1. k + 1 # 1 /\ k + 1 \in 1..n
              BY <3>2
            <6> QED
              BY <2>3, <6>1, Zenon
          <5>2. (k + 1) - 1 = k
            OBVIOUS
          <5> QED
            BY <4>3, <5>1, <5>2
        <4>5. /\ a \o b \in Seq(R) /\ Len(a \o b) = Len(a) + Len(b)
              /\ ToSet(a \o b) = ToSet(a) \cup ToSet(b)
          BY Joined
        <4>6. UNION {ToSet(ss[i]) : i \in 1..k + 1}
                = (UNION {ToSet(ss[i]) : i \in 1..k}) \cup ToSet(ss[k + 1])
          <5>1. 1..k + 1 = (1..k) \cup {k + 1}
            OBVIOUS
          <5> QED
            BY <5>1
        <4>7. ToSet(g[k + 1]) = UNION {ToSet(ss[i]) : i \in 1..k + 1}
          BY <4>2, <4>3, <4>4, <4>5, <4>6
        <4>8. (\A i \in 1..n : Len(ss[i]) <= 1) => Len(g[k + 1]) <= k + 1
          <5> SUFFICES ASSUME \A i \in 1..n : Len(ss[i]) <= 1 PROVE Len(g[k + 1]) <= k + 1
            OBVIOUS
          <5>1. Len(a) \in Nat /\ Len(b) \in Nat
            OBVIOUS
          <5>2. Len(a) <= k
            BY <4>2, <4>3
          <5>3. Len(b) <= 1
            <6>1. k + 1 \in 1..n
              OBVIOUS
            <6> QED
              BY <4>3, <6>1
          <5>4. Len(g[k + 1]) = Len(a) + Len(b)
            BY <4>4, <4>5
          <5> HIDE DEF Upto
          <5> QED
            BY <5>1, <5>2, <5>3, <5>4
        <4> QED
          BY <4>4, <4>5, <4>7, <4>8
      <3> QED
        BY <3>1, <3>2
    <2>6. Nat \subseteq S
      <3> HIDE DEF S
      <3> QED
        BY <2>4, <2>5, NatSetInduction
    <2>7. n \in 1..n
      BY <1>3
    <2> QED
      BY <2>2, <2>6, <2>7
  <1> QED
    BY <1>2, <1>3

-----------------------------------------------------------------------------
(* What each check pushes                                                  *)

Blocking ==
    {"digest_invalid", "limit_exceeded", "missing_reference", "plan_state_invalid",
     "structure_invalid", "condition_context_missing", "condition_unsatisfied",
     "dependency_not_satisfied"}

Codes == Blocking \cup {"approval_required"}

LEMMA BlockingCodes ==
    ASSUME NEW s, ToSet(s) \subseteq Codes
    PROVE  has_blocking_violation(s) <=> ToSet(s) \cap Blocking # {}
  BY DEF has_blocking_violation, Codes, Blocking

LEMMA OneViolation ==
    ASSUME NEW violated, NEW code \in Codes
    PROVE  /\ Violation(violated, code) \in Seq(Codes)
           /\ ToSet(Violation(violated, code)) = IF violated THEN {code} ELSE {}
           /\ Len(Violation(violated, code)) <= 1
  <1>1. <<code>> \in Seq(Codes) /\ Len(<<code>>) = 1 /\ ToSet(<<code>>) = {code}
    BY DEF ToSet
  <1>2. << >> \in Seq(Codes) /\ Len(<< >>) = 0 /\ ToSet(<< >>) = {}
    BY DEF ToSet
  <1>3. CASE violated
    BY <1>1, <1>3 DEF Violation
  <1>4. CASE ~violated
    BY <1>2, <1>4 DEF Violation
  <1> QED
    BY <1>3, <1>4

(* Both lists of a step are lists of conditions.                           *)
LEMMA Lists ==
    ASSUME NEW list, IsList(list)
    PROVE  /\ Len(list) \in Nat /\ list \in Seq(ToSet(list))
           /\ ToSet(list) = {list[i] : i \in 1..Len(list)}
           /\ \A i \in 1..Len(list) : list[i] \in ToSet(list)
  <1>1. list \in Seq(ToSet(list))
    BY DEF IsList
  <1>2. PICK R : R = ToSet(list)
    OBVIOUS
  <1>3. list \in Seq(R)
    BY <1>1, <1>2
  <1> QED
    BY <1>1, <1>3, Emptiness

StepBlocked(v, p, s) ==
    \/ Len(s.depends_on) > v.max_dependencies_per_step
    \/ \E list \in {s.preconditions, s.postconditions} :
         Len(list) > v.max_conditions_per_step \/ \E d \in ToSet(list) : Dangling(p, d)

LEMMA StepShape ==
    ASSUME NEW v, NEW p, NEW s, StepTyped(s)
    PROVE  /\ verify_step_shape(v, p, s) \in Seq(Codes)
           /\ ToSet(verify_step_shape(v, p, s)) \subseteq Blocking
           /\ ToSet(verify_step_shape(v, p, s)) # {} <=> StepBlocked(v, p, s)
  <1>1. /\ IsList(s.preconditions) /\ IsList(s.postconditions)
    BY DEF StepTyped
  <1>2. PICK R : R = ToSet(s.preconditions) \cup ToSet(s.postconditions)
    OBVIOUS
  <1>3. s.preconditions \in Seq(R) /\ s.postconditions \in Seq(R)
    <2>1. \A i \in 1..Len(s.preconditions) : s.preconditions[i] \in R
      BY <1>1, <1>2, Lists
    <2>2. \A i \in 1..Len(s.postconditions) : s.postconditions[i] \in R
      BY <1>1, <1>2, Lists
    <2>3. /\ s.preconditions \in Seq(ToSet(s.preconditions))
          /\ s.postconditions \in Seq(ToSet(s.postconditions))
      BY <1>1 DEF IsList
    <2> QED
      BY <2>1, <2>2, <2>3
  <1>4. PICK conditions : conditions = s.preconditions \o s.postconditions
    OBVIOUS
  <1>5. conditions \in Seq(R) /\ ToSet(conditions) = R
    BY <1>2, <1>3, <1>4, Joined
  <1>6. PICK n \in Nat : n = Len(conditions)
    BY <1>5
  <1>7. PICK ss : ss = [i \in 1..n |-> Violation(Dangling(p, conditions[i]), "missing_reference")]
    OBVIOUS
  <1>8. /\ "limit_exceeded" \in Codes /\ "missing_reference" \in Codes
        /\ "limit_exceeded" \in Blocking /\ "missing_reference" \in Blocking
    BY DEF Codes, Blocking
  <1>9. \A i \in 1..n : /\ ss[i] \in Seq(Codes)
                        /\ ToSet(ss[i]) = IF Dangling(p, conditions[i])
                                          THEN {"missing_reference"} ELSE {}
    BY <1>7, <1>8, OneViolation
  <1>10. ss \in [1..n -> Seq(Codes)]
    BY <1>7, <1>9
  <1>11. /\ FlattenSeq(ss) \in Seq(Codes)
         /\ ToSet(FlattenSeq(ss)) = UNION {ToSet(ss[i]) : i \in 1..n}
    BY <1>10, Flattened
  <1>12. /\ ToSet(FlattenSeq(ss)) \subseteq Blocking
         /\ ToSet(FlattenSeq(ss)) # {} <=> \E i \in 1..n : Dangling(p, conditions[i])
    <2>1. \A i \in 1..n : ToSet(ss[i]) \subseteq Blocking
      BY <1>8, <1>9
    <2>2. \A i \in 1..n : ToSet(ss[i]) # {} <=> Dangling(p, conditions[i])
      BY <1>9
    <2>3. PICK F : F = [i \in 1..n |-> ToSet(ss[i])]
      OBVIOUS
    <2>4. ToSet(FlattenSeq(ss)) = UNION {F[i] : i \in 1..n}
      BY <1>11, <2>3
    <2>5. \A i \in 1..n : F[i] \subseteq Blocking /\ (F[i] # {} <=> Dangling(p, conditions[i]))
      BY <2>1, <2>2, <2>3
    <2>6. UNION {F[i] : i \in 1..n} \subseteq Blocking
      BY <2>5
    <2>7. UNION {F[i] : i \in 1..n} # {} <=> \E i \in 1..n : F[i] # {}
      OBVIOUS
    <2> QED
      BY <2>4, <2>5, <2>6, <2>7
  <1>13. (\E i \in 1..n : Dangling(p, conditions[i])) <=> (\E d \in R : Dangling(p, d))
    <2>1. R = {conditions[i] : i \in 1..n}
      BY <1>5, <1>6, Emptiness
    <2> QED
      BY <2>1
  <1> DEFINE many == Len(s.depends_on) > v.max_dependencies_per_step
             long == \/ Len(s.preconditions) > v.max_conditions_per_step
                     \/ Len(s.postconditions) > v.max_conditions_per_step
  <1>14. PICK a, b : a = Violation(many, "limit_exceeded") /\ b = Violation(long, "limit_exceeded")
    OBVIOUS
  <1>15. /\ a \in Seq(Codes) /\ ToSet(a) = IF many THEN {"limit_exceeded"} ELSE {}
         /\ b \in Seq(Codes) /\ ToSet(b) = IF long THEN {"limit_exceeded"} ELSE {}
    BY <1>8, <1>14, OneViolation
  <1>16. verify_step_shape(v, p, s) = (a \o b) \o FlattenSeq(ss)
    BY <1>4, <1>6, <1>7, <1>14 DEF verify_step_shape
  <1>17. a \o b \in Seq(Codes) /\ ToSet(a \o b) = ToSet(a) \cup ToSet(b)
    BY <1>15, Joined
  <1>18. /\ verify_step_shape(v, p, s) \in Seq(Codes)
         /\ ToSet(verify_step_shape(v, p, s)) = ToSet(a) \cup ToSet(b) \cup ToSet(FlattenSeq(ss))
    <2>1. PICK x, y : x = a \o b /\ y = FlattenSeq(ss)
      OBVIOUS
    <2>2. x \in Seq(Codes) /\ y \in Seq(Codes)
      BY <1>11, <1>17, <2>1
    <2>3. x \o y \in Seq(Codes) /\ ToSet(x \o y) = ToSet(x) \cup ToSet(y)
      BY <2>2, Joined
    <2> QED
      BY <1>16, <1>17, <2>1, <2>3
  <1>19. StepBlocked(v, p, s) <=> many \/ long \/ \E d \in R : Dangling(p, d)
    BY <1>2 DEF StepBlocked
  <1> HIDE DEF many, long
  <1> QED
    BY <1>8, <1>12, <1>13, <1>15, <1>18, <1>19

ShapeBlocked(v, p) ==
    \/ ~p.digest_matches \/ p.state \in PlanTerminal \/ Len(p.steps) > v.max_steps
    \/ \E s \in Steps(p) : StepBlocked(v, p, s)

LEMMA ShapeList ==
    ASSUME NEW v, NEW p, IsList(p.steps), \A s \in ToSet(p.steps) : StepTyped(s)
    PROVE  /\ Shape(v, p) \in Seq(Codes)
           /\ ToSet(Shape(v, p)) \subseteq Blocking
           /\ ToSet(Shape(v, p)) # {} <=> ShapeBlocked(v, p)
  <1>1. PICK n \in Nat : n = Len(p.steps)
    BY Lists
  <1>2. PICK ss : ss = [i \in 1..n |-> verify_step_shape(v, p, p.steps[i])]
    OBVIOUS
  <1>3. \A i \in 1..n : p.steps[i] \in Steps(p) /\ StepTyped(p.steps[i])
    BY <1>1, Lists DEF Steps
  <1>4. \A i \in 1..n : /\ ss[i] \in Seq(Codes) /\ ToSet(ss[i]) \subseteq Blocking
                        /\ ToSet(ss[i]) # {} <=> StepBlocked(v, p, p.steps[i])
    BY <1>2, <1>3, StepShape
  <1>5. ss \in [1..n -> Seq(Codes)]
    BY <1>2, <1>4
  <1>6. PICK f : f = FlattenSeq(ss)
    OBVIOUS
  <1>7. f \in Seq(Codes) /\ ToSet(f) = UNION {ToSet(ss[i]) : i \in 1..n}
    BY <1>5, <1>6, Flattened
  <1>8. ToSet(f) \subseteq Blocking /\ (ToSet(f) # {} <=> \E s \in Steps(p) : StepBlocked(v, p, s))
    <2>1. PICK F : F = [i \in 1..n |-> ToSet(ss[i])]
      OBVIOUS
    <2>2. ToSet(f) = UNION {F[i] : i \in 1..n}
      BY <1>7, <2>1
    <2>3. \A i \in 1..n : F[i] \subseteq Blocking /\ (F[i] # {} <=> StepBlocked(v, p, p.steps[i]))
      BY <1>4, <2>1
    <2>4. UNION {F[i] : i \in 1..n} \subseteq Blocking
      BY <2>3
    <2>5. UNION {F[i] : i \in 1..n} # {} <=> \E i \in 1..n : F[i] # {}
      OBVIOUS
    <2>6. Steps(p) = {p.steps[i] : i \in 1..n}
      BY <1>1, Lists DEF Steps
    <2> QED
      BY <2>2, <2>3, <2>4, <2>5, <2>6
  <1> DEFINE long == Len(p.steps) > v.max_steps
             ended == p.state \in PlanTerminal
  <1>9. PICK a, b, d : /\ a = Violation(~p.digest_matches, "digest_invalid")
                       /\ b = Violation(long, "limit_exceeded")
                       /\ d = Violation(ended, "plan_state_invalid")
    OBVIOUS
  <1>10. /\ {"digest_invalid", "limit_exceeded", "plan_state_invalid"} \subseteq Codes
         /\ {"digest_invalid", "limit_exceeded", "plan_state_invalid"} \subseteq Blocking
    BY DEF Codes, Blocking
  <1>11. /\ a \in Seq(Codes) /\ ToSet(a) = IF ~p.digest_matches THEN {"digest_invalid"} ELSE {}
         /\ b \in Seq(Codes) /\ ToSet(b) = IF long THEN {"limit_exceeded"} ELSE {}
         /\ d \in Seq(Codes) /\ ToSet(d) = IF ended THEN {"plan_state_invalid"} ELSE {}
    BY <1>9, <1>10, OneViolation
  <1>12. Shape(v, p) = ((a \o b) \o f) \o d
    BY <1>1, <1>2, <1>6, <1>9 DEF Shape
  <1>13. PICK x, y : x = a \o b /\ y = x \o f
    OBVIOUS
  <1>14. x \in Seq(Codes) /\ ToSet(x) = ToSet(a) \cup ToSet(b)
    <2>1. a \in Seq(Codes) /\ b \in Seq(Codes)
      BY <1>11
    <2>2. a \o b \in Seq(Codes) /\ ToSet(a \o b) = ToSet(a) \cup ToSet(b)
      BY <2>1, Joined
    <2> QED
      BY <1>13, <2>2
  <1>15. y \in Seq(Codes) /\ ToSet(y) = ToSet(x) \cup ToSet(f)
    <2>1. x \in Seq(Codes) /\ f \in Seq(Codes)
      BY <1>7, <1>14
    <2>2. x \o f \in Seq(Codes) /\ ToSet(x \o f) = ToSet(x) \cup ToSet(f)
      BY <2>1, Joined
    <2> QED
      BY <1>13, <2>2
  <1>16. /\ Shape(v, p) \in Seq(Codes)
         /\ ToSet(Shape(v, p)) = ToSet(a) \cup ToSet(b) \cup ToSet(f) \cup ToSet(d)
    <2>1. y \o d \in Seq(Codes) /\ ToSet(y \o d) = ToSet(y) \cup ToSet(d)
      BY <1>11, <1>15, Joined
    <2> QED
      BY <1>12, <1>13, <1>14, <1>15, <2>1
  <1>17. ShapeBlocked(v, p) <=> ~p.digest_matches \/ ended \/ long
                                  \/ \E s \in Steps(p) : StepBlocked(v, p, s)
    BY DEF ShapeBlocked
  <1> HIDE DEF long, ended
  <1> QED
    BY <1>8, <1>10, <1>11, <1>16, <1>17

(* What a condition may come to.                                           *)
LEMMA Evaluated ==
    ASSUME NEW p, NEW cond, NEW c, cond.kind \in Conditions
    PROVE  evaluate_condition(p, cond, c)
             \in {"satisfied", "unsatisfied", "missing_context", "approval_required"}
  <1>1. \A a, e : Compare(a, e) \in {"satisfied", "unsatisfied", "missing_context"}
    BY DEF Compare
  <1>2. \A b : Holds(b) \in {"satisfied", "unsatisfied"}
    BY DEF Holds
  <1> QED
    BY <1>1, <1>2 DEF evaluate_condition, Conditions

LEMMA ConditionList ==
    ASSUME NEW p, NEW c, NEW list, IsList(list), \A d \in ToSet(list) : d.kind \in Conditions
    PROVE  /\ verify_conditions(p, list, c) \in Seq(Codes)
           /\ Len(verify_conditions(p, list, c)) <= Len(list)
           /\ ToSet(verify_conditions(p, list, c)) = {} <=>
                \A d \in ToSet(list) : evaluate_condition(p, d, c) = "satisfied"
           /\ ToSet(verify_conditions(p, list, c)) \cap Blocking # {} <=>
                \E d \in ToSet(list) :
                  evaluate_condition(p, d, c) \in {"missing_context", "unsatisfied"}
  <1>1. PICK n \in Nat : n = Len(list)
    BY Lists
  <1>2. PICK e : e = [i \in 1..n |-> evaluate_condition(p, list[i], c)]
    OBVIOUS
  <1>3. \A i \in 1..n :
          e[i] \in {"satisfied", "unsatisfied", "missing_context", "approval_required"}
    <2>1. \A i \in 1..n : list[i].kind \in Conditions
      BY <1>1, Lists
    <2> QED
      BY <1>2, <2>1, Evaluated
  <1> DEFINE code(r) == CASE r = "approval_required" -> "approval_required"
                          [] r = "missing_context"   -> "condition_context_missing"
                          [] OTHER                   -> "condition_unsatisfied"
  <1>4. PICK ss : ss = [i \in 1..n |-> Violation(e[i] # "satisfied", code(e[i]))]
    OBVIOUS
  <1>5. verify_conditions(p, list, c) = FlattenSeq(ss)
    BY <1>1, <1>2, <1>4 DEF verify_conditions
  <1>6. \A i \in 1..n :
          /\ code(e[i]) \in Codes
          /\ code(e[i]) \in Blocking <=> e[i] # "approval_required"
    BY <1>3 DEF Codes, Blocking
  <1> HIDE DEF code
  <1>7. \A i \in 1..n : /\ ss[i] \in Seq(Codes) /\ Len(ss[i]) <= 1
                        /\ ToSet(ss[i]) = IF e[i] # "satisfied" THEN {code(e[i])} ELSE {}
    BY <1>4, <1>6, OneViolation
  <1>8. ss \in [1..n -> Seq(Codes)]
    BY <1>4, <1>7
  <1>9. PICK f : f = FlattenSeq(ss)
    OBVIOUS
  <1>10. /\ f \in Seq(Codes) /\ ToSet(f) = UNION {ToSet(ss[i]) : i \in 1..n}
         /\ Len(f) <= n
    BY <1>7, <1>8, <1>9, Flattened
  <1>11. PICK F : F = [i \in 1..n |-> ToSet(ss[i])]
    OBVIOUS
  <1>12. ToSet(f) = UNION {F[i] : i \in 1..n}
    BY <1>10, <1>11
  <1>13. \A i \in 1..n : F[i] = IF e[i] # "satisfied" THEN {code(e[i])} ELSE {}
    BY <1>7, <1>11
  <1>14. ToSet(f) = {} <=> \A i \in 1..n : e[i] = "satisfied"
    <2>1. ToSet(f) = {} <=> \A i \in 1..n : F[i] = {}
      BY <1>12
    <2>2. \A i \in 1..n : F[i] = {} <=> e[i] = "satisfied"
      BY <1>13
    <2> QED
      BY <2>1, <2>2
  <1>15. ToSet(f) \cap Blocking # {} <=> \E i \in 1..n : e[i] \in {"missing_context", "unsatisfied"}
    <2>1. \A i \in 1..n : F[i] \cap Blocking # {} <=> e[i] \in {"missing_context", "unsatisfied"}
      BY <1>3, <1>6, <1>13
    <2>2. ToSet(f) \cap Blocking # {} <=> \E i \in 1..n : F[i] \cap Blocking # {}
      BY <1>12
    <2> QED
      BY <2>1, <2>2
  <1>16. ToSet(list) = {list[i] : i \in 1..n}
    BY <1>1, Lists
  <1>17. \A i \in 1..n : e[i] = evaluate_condition(p, list[i], c)
    BY <1>2
  <1>18. (\A i \in 1..n : e[i] = "satisfied") <=>
           \A d \in ToSet(list) : evaluate_condition(p, d, c) = "satisfied"
    BY <1>16, <1>17
  <1>19. (\E i \in 1..n : e[i] \in {"missing_context", "unsatisfied"}) <=>
           \E d \in ToSet(list) : evaluate_condition(p, d, c) \in {"missing_context", "unsatisfied"}
    BY <1>16, <1>17
  <1> QED
    BY <1>1, <1>5, <1>9, <1>10, <1>14, <1>15, <1>18, <1>19

LEMMA DependencyList ==
    ASSUME NEW s, NEW c, IsList(s.depends_on)
    PROVE  /\ verify_dependencies(s, c) \in Seq(Codes)
           /\ \A i \in 1..Len(verify_dependencies(s, c)) :
                verify_dependencies(s, c)[i] = "dependency_not_satisfied"
           /\ Len(verify_dependencies(s, c)) = 0 <=>
                ToSet(s.depends_on) \subseteq c.succeeded_steps
  <1>1. PICK n \in Nat : n = Len(s.depends_on)
    BY Lists
  <1>3. PICK ss : ss = [i \in 1..n |-> Violation(s.depends_on[i] \notin c.succeeded_steps,
                                                "dependency_not_satisfied")]
    OBVIOUS
  <1>4. PICK f : f = FlattenSeq(ss)
    OBVIOUS
  <1>5. verify_dependencies(s, c) = f
    BY <1>1, <1>3, <1>4 DEF verify_dependencies
  <1>6. "dependency_not_satisfied" \in Codes
    BY DEF Codes, Blocking
  <1>7. \A i \in 1..n :
          /\ ss[i] \in Seq(Codes)
          /\ ToSet(ss[i]) = IF s.depends_on[i] \notin c.succeeded_steps
                            THEN {"dependency_not_satisfied"} ELSE {}
    BY <1>3, <1>6, OneViolation
  <1>8. ss \in [1..n -> Seq(Codes)]
    BY <1>3, <1>7
  <1>9. f \in Seq(Codes) /\ ToSet(f) = UNION {ToSet(ss[i]) : i \in 1..n}
    BY <1>4, <1>8, Flattened
  <1>10. PICK F : F = [i \in 1..n |-> ToSet(ss[i])]
    OBVIOUS
  <1>11. ToSet(f) = UNION {F[i] : i \in 1..n}
    BY <1>9, <1>10
  <1>12. \A i \in 1..n : F[i] = IF s.depends_on[i] \notin c.succeeded_steps
                                THEN {"dependency_not_satisfied"} ELSE {}
    BY <1>7, <1>10
  <1>13. ToSet(f) \subseteq {"dependency_not_satisfied"}
    BY <1>11, <1>12
  <1>14. ToSet(f) = {} <=> \A i \in 1..n : s.depends_on[i] \in c.succeeded_steps
    <2>1. ToSet(f) = {} <=> \A i \in 1..n : F[i] = {}
      BY <1>11
    <2> QED
      BY <1>12, <2>1
  <1>15. ToSet(s.depends_on) = {s.depends_on[i] : i \in 1..n}
    BY <1>1, Lists
  <1>16. /\ Len(f) = 0 <=> ToSet(f) = {}
         /\ \A i \in 1..Len(f) : f[i] \in ToSet(f)
    <2>1. /\ f = << >> <=> ToSet(f) = {}
          /\ f = << >> <=> Len(f) = 0
          /\ ToSet(f) = {f[i] : i \in 1..Len(f)}
      BY <1>9, Emptiness
    <2> QED
      BY <2>1
  <1> QED
    BY <1>5, <1>9, <1>13, <1>14, <1>15, <1>16

-----------------------------------------------------------------------------
(* The report                                                              *)

LEMMA LargestOfTwo ==
    ASSUME NEW a \in Nat, NEW b \in Nat
    PROVE  Largest({a, b}) = IF a >= b THEN a ELSE b
  <1>1. \E n \in {a, b} : \A m \in {a, b} : m <= n
    <2>1. CASE a >= b
      BY <2>1
    <2>2. CASE b >= a
      BY <2>2
    <2> QED
      BY <2>1, <2>2
  <1>2. PICK n : n = Largest({a, b})
    OBVIOUS
  <1>3. n \in {a, b} /\ \A m \in {a, b} : m <= n
    BY <1>1, <1>2 DEF Largest
  <1>4. a <= n /\ b <= n /\ (n = a \/ n = b)
    BY <1>3
  <1> QED
    BY <1>2, <1>4

(* The report is empty only when nothing was pushed, and the first         *)
(* violations are kept.                                                    *)
LEMMA Pushed ==
    ASSUME NEW v, v.max_violations \in Nat, NEW s \in Seq(Codes)
    PROVE  /\ push(v, s) \in Seq(Codes)
           /\ push(v, s) = << >> <=> s = << >>
           /\ ToSet(push(v, s)) \subseteq ToSet(s)
           /\ \A i \in 1..Len(s) : i = 1 \/ i <= v.max_violations => s[i] \in ToSet(push(v, s))
  <1>1. PICK m \in Nat : m = retention_limit(v)
    BY LargestOfTwo DEF retention_limit
  <1>2. m >= 1 /\ m >= v.max_violations
    BY <1>1, LargestOfTwo DEF retention_limit
  <1>3. PICK n \in Nat : n = Len(s)
    OBVIOUS
  <1>4. PICK k \in Nat : k = IF n < m THEN n ELSE m
    OBVIOUS
  <1>5. k <= n /\ (k = 0 <=> n = 0)
    BY <1>2, <1>4
  <1>6. push(v, s) = SubSeq(s, 1, k)
    BY <1>1, <1>3, <1>4 DEF push
  <1>7. PICK t : t = SubSeq(s, 1, k)
    OBVIOUS
  <1>8. t \in Seq(Codes) /\ Len(t) = k /\ \A i \in 1..k : t[i] = s[i]
    BY <1>3, <1>5, <1>7
  <1>9. ToSet(t) = {t[i] : i \in 1..k} /\ ToSet(s) = {s[i] : i \in 1..n}
    BY <1>3, <1>8, Emptiness
  <1>10. \A i \in 1..k : i \in 1..n /\ s[i] \in ToSet(s)
    <2>1. \A i \in 1..k : i \in 1..n
      BY <1>5
    <2> QED
      BY <1>9, <2>1
  <1>11. ToSet(t) \subseteq ToSet(s)
    BY <1>8, <1>9, <1>10
  <1>12. t = << >> <=> s = << >>
    BY <1>3, <1>5, <1>8
  <1>13. ASSUME NEW i \in 1..Len(s), i = 1 \/ i <= v.max_violations
         PROVE  s[i] \in ToSet(t)
    <2>1. i \in 1..k
      BY <1>2, <1>3, <1>4, <1>13
    <2> QED
      BY <1>8, <1>9, <2>1
  <1> QED
    BY <1>6, <1>7, <1>8, <1>11, <1>12, <1>13

PhaseBlocked(p, c) ==
    \/ c.phase = "step_ready" /\ ~(ToSet(Target(p, c).depends_on) \subseteq c.succeeded_steps)
    \/ \E d \in Considered(p, c) :
         evaluate_condition(p, d, c) \in {"missing_context", "unsatisfied"}

(* What the phase pushes: nothing when nothing stands against the plan;    *)
(* and a blocking violation comes first, or within as many violations as   *)
(* a step may have conditions.                                             *)
PhaseSound(v, p, c, list) ==
    /\ list \in Seq(Codes)
    /\ list = << >> <=> ~PhaseBlocked(p, c) /\ ~Unapproved(p, c)
    /\ ToSet(list) \cap Blocking # {} => PhaseBlocked(p, c)
    /\ PhaseBlocked(p, c) => \E i \in 1..Len(list) :
         list[i] \in Blocking /\ (i = 1 \/ i <= v.max_conditions_per_step)

LEMMA TargetFound ==
    ASSUME NEW p, NEW c, c.target_step \in Ids(p)
    PROVE  Target(p, c) \in Steps(p) /\ Target(p, c).id = c.target_step
  BY DEF Target, Ids

(* Conditions of a step that is not too long, and what is pushed for them. *)
Fits(v, list) ==
    /\ IsList(list) /\ \A d \in ToSet(list) : d.kind \in Conditions
    /\ v.max_conditions_per_step \in Nat /\ Len(list) <= v.max_conditions_per_step

Listed(v, p, c, list, f) ==
    /\ f \in Seq(Codes)
    /\ f = << >> <=> \A d \in ToSet(list) : evaluate_condition(p, d, c) = "satisfied"
    /\ ToSet(f) \cap Blocking # {} <=>
         \E d \in ToSet(list) :
           evaluate_condition(p, d, c) \in {"missing_context", "unsatisfied"}
    /\ ToSet(f) \cap Blocking # {} =>
         \E i \in 1..Len(f) : f[i] \in Blocking /\ i <= v.max_conditions_per_step

LEMMA ConditionsSound ==
    ASSUME NEW v, NEW p, NEW c, NEW list, Fits(v, list)
    PROVE  Listed(v, p, c, list, verify_conditions(p, list, c))
  <1>1. PICK f : f = verify_conditions(p, list, c)
    OBVIOUS
  <1>2. /\ IsList(list) /\ \A d \in ToSet(list) : d.kind \in Conditions
        /\ v.max_conditions_per_step \in Nat /\ Len(list) <= v.max_conditions_per_step
    BY DEF Fits
  <1>3. /\ f \in Seq(Codes) /\ Len(f) <= Len(list)
        /\ ToSet(f) = {} <=> \A d \in ToSet(list) : evaluate_condition(p, d, c) = "satisfied"
        /\ ToSet(f) \cap Blocking # {} <=>
             \E d \in ToSet(list) :
               evaluate_condition(p, d, c) \in {"missing_context", "unsatisfied"}
    BY <1>1, <1>2, ConditionList
  <1>4. (f = << >> <=> ToSet(f) = {}) /\ ToSet(f) = {f[i] : i \in 1..Len(f)}
    BY <1>3, Emptiness
  <1>5. Len(f) \in Nat /\ Len(list) \in Nat
    BY <1>2, <1>3, Lists
  <1>6. \A i \in 1..Len(f) : i <= v.max_conditions_per_step
    BY <1>2, <1>3, <1>5
  <1>7. Listed(v, p, c, list, f)
    BY <1>3, <1>4, <1>6 DEF Listed
  <1> QED
    BY <1>1, <1>7

LEMMA ListsFit ==
    ASSUME NEW v, NEW p, NEW s, v.max_conditions_per_step \in Nat,
           StepTyped(s), ~StepBlocked(v, p, s)
    PROVE  Fits(v, s.preconditions) /\ Fits(v, s.postconditions)
  <1>1. ASSUME NEW list \in {s.preconditions, s.postconditions}
        PROVE  Fits(v, list)
    <2>1. IsList(list) /\ \A d \in ToSet(list) : d.kind \in Conditions
      BY DEF StepTyped
    <2>2. ~(Len(list) > v.max_conditions_per_step)
      BY DEF StepBlocked
    <2>3. Len(list) \in Nat
      BY <2>1, Lists
    <2> QED
      BY <2>1, <2>2, <2>3 DEF Fits
  <1> QED
    BY <1>1

LEMMA PreflightSound ==
    ASSUME NEW v, NEW p, NEW c, c.phase = "preflight"
    PROVE  PhaseSound(v, p, c, Phase(p, c))
  <1> DEFINE violated == required_approval(p) # 0 /\ ~has_valid_approval(p, None, c)
  <1>1. PICK f : f = Violation(violated, "approval_required")
    OBVIOUS
  <1>2. "approval_required" \in Codes /\ "approval_required" \notin Blocking
    BY DEF Codes, Blocking
  <1>3. f \in Seq(Codes) /\ ToSet(f) = IF violated THEN {"approval_required"} ELSE {}
    BY <1>1, <1>2, OneViolation
  <1>4. Phase(p, c) = f
    BY <1>1 DEF Phase, verify_preflight_approval
  <1>5. Considered(p, c) = {}
    BY DEF Considered
  <1>6. ~PhaseBlocked(p, c) /\ (Unapproved(p, c) <=> violated)
    BY <1>5 DEF PhaseBlocked, Unapproved
  <1>7. f = << >> <=> ToSet(f) = {}
    BY <1>3, Emptiness
  <1> HIDE DEF violated
  <1> QED
    BY <1>2, <1>3, <1>4, <1>6, <1>7 DEF PhaseSound

LEMMA PostStepSound ==
    ASSUME NEW v, NEW p, NEW c, c.phase \notin {"preflight", "step_ready"},
           c.target_step \in Ids(p), Fits(v, Target(p, c).postconditions)
    PROVE  PhaseSound(v, p, c, Phase(p, c))
  <1>1. PICK list : list = Target(p, c).postconditions
    OBVIOUS
  <1>2. PICK f : f = verify_conditions(p, list, c)
    OBVIOUS
  <1>3. Phase(p, c) = f /\ Considered(p, c) = ToSet(list)
    BY <1>1, <1>2 DEF Phase, Considered
  <1>4. Fits(v, list) /\ Listed(v, p, c, list, f)
    BY <1>1, <1>2, ConditionsSound
  <1>5. PhaseBlocked(p, c) <=>
          \E d \in ToSet(list) : evaluate_condition(p, d, c) \in {"missing_context", "unsatisfied"}
    BY <1>3 DEF PhaseBlocked
  <1>6. Unapproved(p, c) <=>
          \E d \in ToSet(list) : evaluate_condition(p, d, c) = "approval_required"
    BY <1>3 DEF Unapproved
  <1>7. \A d \in ToSet(list) : evaluate_condition(p, d, c)
            \in {"satisfied", "unsatisfied", "missing_context", "approval_required"}
    BY <1>4, Evaluated DEF Fits
  <1>8. (\A d \in ToSet(list) : evaluate_condition(p, d, c) = "satisfied") <=>
          ~PhaseBlocked(p, c) /\ ~Unapproved(p, c)
    BY <1>5, <1>6, <1>7
  <1> QED
    BY <1>3, <1>4, <1>5, <1>8 DEF PhaseSound, Listed

LEMMA ReadySound ==
    ASSUME NEW v, NEW p, NEW c, c.phase = "step_ready",
           c.target_step \in Ids(p), IsList(Target(p, c).depends_on),
           Fits(v, Target(p, c).preconditions)
    PROVE  PhaseSound(v, p, c, Phase(p, c))
  <1>1. PICK s : s = Target(p, c)
    OBVIOUS
  <1>2. PICK list : list = s.preconditions
    OBVIOUS
  <1>3. PICK f : f = verify_conditions(p, list, c)
    OBVIOUS
  <1>4. PICK d : d = verify_dependencies(s, c)
    OBVIOUS
  <1> DEFINE violated == /\ StepLevel(s) # 0
                         /\ ~has_valid_approval(p, s.id, c) /\ ~has_valid_approval(p, None, c)
  <1>5. PICK a : a = Violation(violated, "approval_required")
    OBVIOUS
  <1>6. Phase(p, c) = (d \o f) \o a /\ Considered(p, c) = ToSet(list)
    BY <1>1, <1>2, <1>3, <1>4, <1>5 DEF Phase, Considered, verify_step_approval
  <1>7. Fits(v, list) /\ Listed(v, p, c, list, f)
    BY <1>1, <1>2, <1>3, ConditionsSound
  <1>8. /\ f \in Seq(Codes)
        /\ f = << >> <=> \A k \in ToSet(list) : evaluate_condition(p, k, c) = "satisfied"
        /\ ToSet(f) \cap Blocking # {} <=>
             \E k \in ToSet(list) :
               evaluate_condition(p, k, c) \in {"missing_context", "unsatisfied"}
        /\ ToSet(f) \cap Blocking # {} =>
             \E i \in 1..Len(f) : f[i] \in Blocking /\ i <= v.max_conditions_per_step
    BY <1>7 DEF Listed
  <1>9. /\ d \in Seq(Codes)
        /\ \A i \in 1..Len(d) : d[i] = "dependency_not_satisfied"
        /\ Len(d) = 0 <=> ToSet(s.depends_on) \subseteq c.succeeded_steps
    <2>1. IsList(s.depends_on)
      BY <1>1
    <2> QED
      BY <1>4, <2>1, DependencyList
  <1>10. /\ "approval_required" \in Codes /\ "approval_required" \notin Blocking
         /\ "dependency_not_satisfied" \in Blocking
    BY DEF Codes, Blocking
  <1>11. a \in Seq(Codes) /\ ToSet(a) = IF violated THEN {"approval_required"} ELSE {}
    BY <1>5, <1>10, OneViolation
  <1>12. PICK x : x = d \o f
    OBVIOUS
  <1>13. /\ x \in Seq(Codes) /\ Len(x) = Len(d) + Len(f)
         /\ \A i \in 1..Len(d) : x[i] = d[i]
         /\ \A i \in 1..Len(f) : x[Len(d) + i] = f[i]
         /\ ToSet(x) = ToSet(d) \cup ToSet(f)
    BY <1>8, <1>9, <1>12, Joined
  <1>14. PICK w : w = x \o a
    OBVIOUS
  <1>15. /\ w \in Seq(Codes) /\ Len(w) = Len(x) + Len(a)
         /\ \A i \in 1..Len(x) : w[i] = x[i]
         /\ ToSet(w) = ToSet(x) \cup ToSet(a)
    <2>1. x \in Seq(Codes) /\ a \in Seq(Codes)
      BY <1>11, <1>13
    <2>2. /\ x \o a \in Seq(Codes) /\ Len(x \o a) = Len(x) + Len(a)
          /\ \A i \in 1..Len(x) : (x \o a)[i] = x[i]
          /\ ToSet(x \o a) = ToSet(x) \cup ToSet(a)
      BY <2>1, Joined
    <2> QED
      BY <1>14, <2>2
  <1>16. Phase(p, c) = w
    BY <1>6, <1>12, <1>14
  <1> DEFINE waiting == ~(ToSet(s.depends_on) \subseteq c.succeeded_steps)
             failing == \E k \in ToSet(list) :
                          evaluate_condition(p, k, c) \in {"missing_context", "unsatisfied"}
             unapproved == \E k \in ToSet(list) : evaluate_condition(p, k, c) = "approval_required"
  <1>17. PhaseBlocked(p, c) <=> waiting \/ failing
    BY <1>1, <1>6 DEF PhaseBlocked
  <1>18. Unapproved(p, c) <=> violated \/ unapproved
    <2>1. s.id = c.target_step
      BY <1>1, TargetFound
    <2>2. (\A scope \in {None, c.target_step} : ~has_valid_approval(p, scope, c)) <=>
            ~has_valid_approval(p, s.id, c) /\ ~has_valid_approval(p, None, c)
      BY <2>1
    <2> QED
      BY <1>1, <1>6, <2>2 DEF Unapproved
  <1>19. (\A k \in ToSet(list) : evaluate_condition(p, k, c) = "satisfied") <=>
           ~failing /\ ~unapproved
    <2>1. \A k \in ToSet(list) : evaluate_condition(p, k, c)
              \in {"satisfied", "unsatisfied", "missing_context", "approval_required"}
      BY <1>7, Evaluated DEF Fits
    <2> QED
      BY <2>1
  <1>20. ToSet(f) \cap Blocking # {} <=> failing
    BY <1>8
  <1>21. f = << >> <=> ~failing /\ ~unapproved
    BY <1>8, <1>19
  <1> HIDE DEF violated, waiting, failing, unapproved
  <1>22. /\ w = << >> <=> ToSet(w) = {}
         /\ f = << >> <=> ToSet(f) = {}
         /\ d = << >> <=> ToSet(d) = {}
         /\ d = << >> <=> Len(d) = 0
         /\ ToSet(d) = {d[i] : i \in 1..Len(d)}
    <2>1. w \in Seq(Codes) /\ f \in Seq(Codes) /\ d \in Seq(Codes)
      BY <1>8, <1>9, <1>15
    <2> QED
      BY <2>1, Emptiness
  <1>23. w = << >> <=> ~PhaseBlocked(p, c) /\ ~Unapproved(p, c)
    <2>1. ToSet(w) = {} <=> ToSet(d) = {} /\ ToSet(f) = {} /\ ToSet(a) = {}
      BY <1>13, <1>15
    <2>2. ToSet(a) = {} <=> ~violated
      BY <1>11
    <2>3. ToSet(d) = {} <=> ~waiting
      BY <1>9, <1>22 DEF waiting
    <2> QED
      BY <1>17, <1>18, <1>21, <1>22, <2>1, <2>2, <2>3
  <1>24. ToSet(w) \cap Blocking # {} => PhaseBlocked(p, c)
    <2>1. ToSet(a) \cap Blocking = {}
      BY <1>10, <1>11
    <2>2. ToSet(d) # {} => waiting
      BY <1>9, <1>22 DEF waiting
    <2> QED
      BY <1>13, <1>15, <1>17, <1>20, <2>1, <2>2
  <1>25. PhaseBlocked(p, c) => \E i \in 1..Len(w) :
           w[i] \in Blocking /\ (i = 1 \/ i <= v.max_conditions_per_step)
    <2>1. Len(d) \in Nat /\ Len(f) \in Nat /\ Len(a) \in Nat
      BY <1>8, <1>9, <1>11
    <2>2. CASE waiting
      <3>1. 1 \in 1..Len(d)
        BY <1>9, <2>1, <2>2 DEF waiting
      <3>2. 1 \in 1..Len(x) /\ 1 \in 1..Len(w)
        BY <1>13, <1>15, <2>1, <3>1
      <3>3. w[1] \in Blocking
        BY <1>9, <1>10, <1>13, <1>15, <3>1, <3>2
      <3> QED
        BY <3>2, <3>3
    <2>3. CASE ~waiting /\ failing
      <3>1. Len(d) = 0
        BY <1>9, <2>3 DEF waiting
      <3>2. PICK i \in 1..Len(f) : f[i] \in Blocking /\ i <= v.max_conditions_per_step
        BY <1>8, <1>20, <2>3
      <3>3. i \in 1..Len(x) /\ i \in 1..Len(w)
        BY <1>13, <1>15, <2>1, <3>1, <3>2
      <3>4. w[i] = f[i]
        <4>1. x[Len(d) + i] = f[i] /\ Len(d) + i = i
          BY <1>13, <3>1, <3>2
        <4> QED
          BY <1>15, <3>3, <4>1
      <3> QED
        BY <3>2, <3>3, <3>4
    <2> QED
      BY <1>17, <2>2, <2>3
  <1> QED
    BY <1>15, <1>16, <1>23, <1>24, <1>25 DEF PhaseSound

-----------------------------------------------------------------------------
(* Levels                                                                  *)

LEMMA LargestLevel ==
    ASSUME NEW S, S \subseteq 0..2, S # {}
    PROVE  Largest(S) \in S /\ \A m \in S : m <= Largest(S)
  <1>1. \E n \in S : \A m \in S : m <= n
    <2>1. CASE 2 \in S
      BY <2>1
    <2>2. CASE 2 \notin S /\ 1 \in S
      <3>1. \A m \in S : m <= 1
        BY <2>2
      <3> QED
        BY <2>2, <3>1
    <2>3. CASE 2 \notin S /\ 1 \notin S
      <3>1. \A m \in S : m = 0
        BY <2>3
      <3>2. PICK n \in S : n = 0
        BY <3>1
      <3>3. \A m \in S : m <= n
        BY <3>1, <3>2
      <3> QED
        BY <3>3
    <2> QED
      BY <2>1, <2>2, <2>3
  <1>2. PICK n : n = Largest(S)
    OBVIOUS
  <1>3. n \in S /\ \A m \in S : m <= n
    BY <1>1, <1>2 DEF Largest
  <1> QED
    BY <1>2, <1>3

LEMMA ApprovalGrows ==
    /\ \A r \in 0..3 : minimum_approval(r) \in 0..2
    /\ \A q, r \in 0..3 : q <= r => minimum_approval(q) <= minimum_approval(r)
  <1>1. /\ minimum_approval(0) = 0 /\ minimum_approval(1) = 1
        /\ minimum_approval(2) = 2 /\ minimum_approval(3) = 2
    BY DEF minimum_approval
  <1>2. \A r \in 0..3 : r = 0 \/ r = 1 \/ r = 2 \/ r = 3
    OBVIOUS
  <1>3. \A r \in 0..3 : minimum_approval(r) \in 0..2
    BY <1>1, <1>2
  <1>4. ASSUME NEW q \in 0..3, NEW r \in 0..3, q <= r
        PROVE  minimum_approval(q) <= minimum_approval(r)
    BY <1>1, <1>2, <1>4
  <1> QED
    BY <1>3, <1>4

LEMMA LevelOfStep ==
    ASSUME NEW s, StepTyped(s)
    PROVE  /\ StepLevel(s) \in 0..2
           /\ StepLevel(s) >= s.approval /\ StepLevel(s) >= minimum_approval(s.risk)
  <1>1. s.approval \in 0..2 /\ minimum_approval(s.risk) \in 0..2
    BY ApprovalGrows DEF StepTyped
  <1>2. PICK n : n = StepLevel(s)
    OBVIOUS
  <1>3. n \in {s.approval, minimum_approval(s.risk)}
          /\ \A m \in {s.approval, minimum_approval(s.risk)} : m <= n
    BY <1>1, <1>2, LargestLevel DEF StepLevel
  <1> QED
    BY <1>1, <1>2, <1>3

(* An approval of the whole plan is good enough for each of its steps.     *)
LEMMA PlanCoversSteps ==
    ASSUME NEW p, p.risk \in 0..3, p.approval \in 0..2, \A s \in Steps(p) : StepTyped(s)
    PROVE  required_approval(p) \in 0..2 /\ \A s \in Steps(p) : required_approval(p) >= StepLevel(s)
  <1>1. PICK S : S = {StepLevel(s) : s \in Steps(p)} \cup {p.approval, minimum_approval(p.risk)}
    OBVIOUS
  <1>2. p.approval \in S /\ \A s \in Steps(p) : StepLevel(s) \in S
    BY <1>1
  <1>3. S \subseteq 0..2
    <2>1. minimum_approval(p.risk) \in 0..2
      BY ApprovalGrows
    <2>2. \A s \in Steps(p) : StepLevel(s) \in 0..2
      BY LevelOfStep
    <2> QED
      BY <1>1, <2>1, <2>2
  <1>4. PICK n : n = Largest(S)
    OBVIOUS
  <1>5. n \in S /\ \A m \in S : m <= n
    BY <1>2, <1>3, <1>4, LargestLevel
  <1>6. required_approval(p) = n
    BY <1>1, <1>4 DEF required_approval
  <1>7. \A m \in S : n >= m
    BY <1>3, <1>5
  <1> QED
    BY <1>2, <1>3, <1>5, <1>6, <1>7

(* A plan whose structure is valid names each of its steps once.           *)
LEMMA OneStepPerId ==
    ASSUME NEW p, IsList(p.steps), validate_structure(p),
           NEW s \in Steps(p), NEW t \in Steps(p), s.id = t.id
    PROVE  s = t
  <1>1. PICK n \in Nat : n = Len(p.steps)
    BY Lists
  <1>2. Steps(p) = {p.steps[k] : k \in 1..n}
    BY <1>1, Lists DEF Steps
  <1>3. PICK i \in 1..n, j \in 1..n : s = p.steps[i] /\ t = p.steps[j]
    BY <1>2
  <1>4. Ids(p) = {p.steps[k].id : k \in 1..n}
    BY <1>2 DEF Ids
  <1> SUFFICES ASSUME i # j PROVE FALSE
    BY <1>3
  <1>5. PICK others : others = (1..n) \ {i}
    OBVIOUS
  <1>6. PICK f : f = [k \in others |-> p.steps[k].id]
    OBVIOUS
  <1>7. f \in Surjection(others, Ids(p))
    <2>1. \A k \in others : f[k] \in Ids(p)
      BY <1>4, <1>5, <1>6
    <2>2. ASSUME NEW k \in 1..n PROVE \E m \in others : f[m] = p.steps[k].id
      <3>1. CASE k = i
        BY <1>3, <1>5, <1>6, <3>1
      <3>2. CASE k # i
        BY <1>5, <1>6, <3>2
      <3> QED
        BY <3>1, <3>2
    <2>3. \A x \in Ids(p) : \E m \in others : f[m] = x
      BY <1>4, <2>2
    <2> QED
      BY <1>6, <2>1, <2>3 DEF Surjection
  <1>8. IsFiniteSet(others) /\ Cardinality(others) = n - 1
    <2>1. IsFiniteSet(1..n) /\ Cardinality(1..n) = n
      BY FS_Interval
    <2> QED
      BY <1>5, <2>1, FS_RemoveElement
  <1>9. Cardinality(Ids(p)) <= Cardinality(others)
    BY <1>7, <1>8, FS_Surjection
  <1>10. Cardinality(Ids(p)) = n
    BY <1>1 DEF validate_structure
  <1> QED
    BY <1>8, <1>9, <1>10

LEMMA EffectsHeld ==
    ASSUME NEW v, NEW p, NEW c, CallTyped(v, p, c), validate_structure(p),
           c.phase = "step_ready", c.target_step \in Ids(p), ~Unapproved(p, c)
    PROVE  EffectsApproved(p, c)
  <1>1. PICK s : s = Target(p, c)
    OBVIOUS
  <1>2. s \in Steps(p) /\ s.id = c.target_step /\ StepTyped(s) /\ validate_step(s)
    BY <1>1, TargetFound DEF CallTyped, Steps, validate_structure
  <1>3. PICK risk : risk = minimum_risk(s.action)
    OBVIOUS
  <1>4. risk \in 0..3 /\ s.risk \in 0..3 /\ risk <= s.risk
    <2>1. risk \in 0..3
      BY <1>2, <1>3 DEF StepTyped, minimum_risk
    <2> QED
      BY <1>2, <1>3, <2>1 DEF StepTyped, validate_step
  <1>5. PICK level : level = minimum_approval(risk)
    OBVIOUS
  <1>6. PICK least : least = minimum_approval(s.risk)
    OBVIOUS
  <1>7. PICK own : own = StepLevel(s)
    OBVIOUS
  <1>8. level \in 0..2 /\ least \in 0..2 /\ level <= least /\ own \in 0..2 /\ own >= least
    BY <1>2, <1>4, <1>5, <1>6, <1>7, ApprovalGrows, LevelOfStep
  <1>9. SUFFICES ASSUME level > 0
                 PROVE  \E a \in c.approvals :
                          a.approved /\ a.current /\ a.bound /\ a.approver # p.operator
                            /\ a.role >= level
    BY <1>1, <1>3, <1>5 DEF EffectsApproved
  <1>10. own # 0
    BY <1>8, <1>9
  <1>11. PICK scope \in {None, s.id} : has_valid_approval(p, scope, c)
    BY <1>1, <1>2, <1>7, <1>10 DEF Unapproved
  <1>12. PICK a \in c.approvals : validate_for(a, p, scope)
    BY <1>11 DEF has_valid_approval
  <1>13. a.required \in 0..2 /\ a.role \in 0..2
    BY DEF CallTyped
  <1>14. a.required >= own
    <2>1. CASE scope = None
      <3>1. a.required >= required_approval(p)
        BY <1>12, <2>1 DEF validate_for
      <3>2. required_approval(p) \in 0..2 /\ required_approval(p) >= own
        BY <1>2, <1>7, PlanCoversSteps DEF CallTyped, Steps
      <3> QED
        BY <1>8, <1>13, <3>1, <3>2
    <2>2. CASE scope # None
      <3>1. PICK t \in Steps(p) : t.id = s.id /\ a.required >= StepLevel(t)
        BY <1>11, <1>12, <2>2 DEF validate_for
      <3>2. t = s
        BY <1>2, <3>1, OneStepPerId DEF CallTyped
      <3> QED
        BY <1>7, <3>1, <3>2
    <2> QED
      BY <2>1, <2>2
  <1>15. /\ a.approved /\ a.current /\ a.bound /\ a.approver # p.operator
         /\ a.required <= a.role
    BY <1>12 DEF validate_for
  <1>16. a.role >= level
    BY <1>8, <1>13, <1>14, <1>15
  <1> QED
    BY <1>15, <1>16

-----------------------------------------------------------------------------
(* The verdict                                                             *)

(* The plan is looked at by the phase.                                     *)
Reached(v, p, c) ==
    /\ validate_structure(p) /\ ~ShapeBlocked(v, p)
    /\ c.phase = "preflight" \/ c.target_step \in Ids(p)

LEMMA BlockedBy ==
    ASSUME NEW v, NEW p, NEW c
    PROVE  Blocked(v, p, c) <=> ~Reached(v, p, c) \/ PhaseBlocked(p, c)
  BY DEF Blocked, Reached, PhaseBlocked, ShapeBlocked, StepBlocked

LEMMA PhaseIsSound ==
    ASSUME NEW v, NEW p, NEW c, CallTyped(v, p, c), Reached(v, p, c)
    PROVE  PhaseSound(v, p, c, Phase(p, c))
  <1>1. CASE c.phase = "preflight"
    BY <1>1, PreflightSound
  <1>2. CASE c.phase # "preflight"
    <2>1. c.target_step \in Ids(p)
      BY <1>2 DEF Reached
    <2>2. PICK s : s = Target(p, c)
      OBVIOUS
    <2>3. s \in Steps(p) /\ StepTyped(s) /\ ~StepBlocked(v, p, s)
      BY <2>1, <2>2, TargetFound DEF CallTyped, Steps, Reached, ShapeBlocked
    <2>4. v.max_conditions_per_step \in Nat
      BY DEF CallTyped
    <2>5. Fits(v, s.preconditions) /\ Fits(v, s.postconditions) /\ IsList(s.depends_on)
      BY <2>3, <2>4, ListsFit DEF StepTyped
    <2>6. CASE c.phase = "step_ready"
      BY <2>1, <2>2, <2>5, <2>6, ReadySound
    <2>7. CASE c.phase # "step_ready"
      BY <1>2, <2>1, <2>2, <2>5, <2>7, PostStepSound
    <2> QED
      BY <2>6, <2>7
  <1> QED
    BY <1>1, <1>2

LEMMA EarlyVerdict ==
    ASSUME NEW v, NEW p, NEW c, CallTyped(v, p, c), ~Reached(v, p, c)
    PROVE  verify(v, p, c).status = "invalid"
  <1>1. CASE ~validate_structure(p)
    BY <1>1 DEF verify
  <1>2. CASE validate_structure(p) /\ ShapeBlocked(v, p)
    <2>1. PICK s : s = Shape(v, p)
      OBVIOUS
    <2>2. PICK kept : kept = push(v, s)
      OBVIOUS
    <2>3. /\ s \in Seq(Codes) /\ ToSet(s) \subseteq Blocking /\ ToSet(s) # {}
      BY <1>2, <2>1, ShapeList DEF CallTyped
    <2>4. /\ kept \in Seq(Codes) /\ (kept = << >> <=> s = << >>)
          /\ ToSet(kept) \subseteq ToSet(s)
      BY <2>2, <2>3, Pushed DEF CallTyped
    <2>5. (s = << >> <=> ToSet(s) = {}) /\ (kept = << >> <=> ToSet(kept) = {})
      BY <2>3, <2>4, Emptiness
    <2>6. ToSet(kept) # {} /\ ToSet(kept) \subseteq Blocking
      BY <2>3, <2>4, <2>5
    <2>7. ToSet(kept) \subseteq Codes
      BY <2>6 DEF Codes
    <2>8. has_blocking_violation(kept)
      BY <2>6, <2>7, BlockingCodes
    <2> QED
      BY <1>2, <2>1, <2>2, <2>8 DEF verify
  <1>3. CASE /\ validate_structure(p) /\ ~ShapeBlocked(v, p)
             /\ c.phase # "preflight" /\ c.target_step \notin Ids(p)
    BY <1>3 DEF verify
  <1> QED
    BY <1>1, <1>2, <1>3 DEF Reached

LEMMA LateVerdict ==
    ASSUME NEW v, NEW p, NEW c, CallTyped(v, p, c), Reached(v, p, c)
    PROVE  verify(v, p, c).status = Status(push(v, Phase(p, c)))
  <1>1. PICK s : s = Shape(v, p)
    OBVIOUS
  <1>2. s \in Seq(Codes) /\ ToSet(s) = {}
    BY <1>1, ShapeList DEF CallTyped, Reached
  <1>3. s = << >>
    BY <1>2, Emptiness
  <1>4. push(v, s) = << >>
    BY <1>2, <1>3, Pushed DEF CallTyped
  <1>5. ~has_blocking_violation(<< >>)
    BY DEF has_blocking_violation, ToSet
  <1>6. << >> \o Phase(p, c) = Phase(p, c)
    <2>1. Phase(p, c) \in Seq(Codes)
      BY PhaseIsSound DEF PhaseSound
    <2> QED
      BY <2>1
  <1> QED
    BY <1>1, <1>4, <1>5, <1>6 DEF verify, Reached

LEMMA StatusOfPhase ==
    ASSUME NEW v, NEW p, NEW c, CallTyped(v, p, c), Reached(v, p, c),
           NEW status, status = Status(push(v, Phase(p, c)))
    PROVE  /\ status = "valid" <=> Expected(v, p, c) = "valid"
           /\ v.max_violations >= v.max_conditions_per_step => status = Expected(v, p, c)
  <1>1. PICK list : list = Phase(p, c)
    OBVIOUS
  <1>2. PICK kept : kept = push(v, list)
    OBVIOUS
  <1>3. PhaseSound(v, p, c, list)
    BY <1>1, PhaseIsSound
  <1>4. list \in Seq(Codes) /\ (list = << >> <=> ~PhaseBlocked(p, c) /\ ~Unapproved(p, c))
    BY <1>3 DEF PhaseSound
  <1>5. /\ kept \in Seq(Codes) /\ (kept = << >> <=> list = << >>)
        /\ ToSet(kept) \subseteq ToSet(list)
        /\ \A i \in 1..Len(list) : i = 1 \/ i <= v.max_violations => list[i] \in ToSet(kept)
    BY <1>2, <1>4, Pushed DEF CallTyped
  <1>6. (kept = << >> <=> ToSet(kept) = {}) /\ ToSet(kept) \subseteq Codes
    BY <1>5, Emptiness
  <1>7. has_blocking_violation(kept) <=> ToSet(kept) \cap Blocking # {}
    BY <1>6, BlockingCodes
  <1>8. has_blocking_violation(kept) => PhaseBlocked(p, c)
    BY <1>3, <1>5, <1>7 DEF PhaseSound
  <1>9. v.max_violations >= v.max_conditions_per_step /\ PhaseBlocked(p, c)
          => has_blocking_violation(kept)
    <2> SUFFICES ASSUME v.max_violations >= v.max_conditions_per_step, PhaseBlocked(p, c)
                 PROVE  has_blocking_violation(kept)
      OBVIOUS
    <2>1. PICK i \in 1..Len(list) :
            list[i] \in Blocking /\ (i = 1 \/ i <= v.max_conditions_per_step)
      BY <1>3 DEF PhaseSound
    <2>2. i = 1 \/ i <= v.max_violations
      <3>1. v.max_violations \in Nat /\ v.max_conditions_per_step \in Nat /\ i \in Nat
        BY <1>4 DEF CallTyped
      <3> QED
        BY <2>1, <3>1
    <2>3. list[i] \in ToSet(kept)
      BY <1>5, <2>2
    <2> QED
      BY <1>7, <2>1, <2>3
  <1>10. Blocked(v, p, c) <=> PhaseBlocked(p, c)
    BY BlockedBy
  <1>11. status = IF has_blocking_violation(kept) THEN "invalid"
                  ELSE IF kept # << >> THEN "requires_approval" ELSE "valid"
    BY <1>1, <1>2 DEF Status
  <1>12. ~has_blocking_violation(<< >>)
    BY DEF has_blocking_violation, ToSet
  <1>13. Expected(v, p, c) = IF PhaseBlocked(p, c) THEN "invalid"
                             ELSE IF Unapproved(p, c) THEN "requires_approval" ELSE "valid"
    BY <1>10 DEF Expected
  <1>14. status = "valid" <=> Expected(v, p, c) = "valid"
    BY <1>4, <1>5, <1>11, <1>12, <1>13
  <1>15. v.max_violations >= v.max_conditions_per_step => status = Expected(v, p, c)
    BY <1>4, <1>5, <1>8, <1>9, <1>11, <1>12, <1>13
  <1> QED
    BY <1>14, <1>15

LEMMA VerdictOfCall ==
    ASSUME NEW v, NEW p, NEW c, CallTyped(v, p, c), NEW status, status = verify(v, p, c).status
    PROVE  /\ status = "valid" <=> Expected(v, p, c) = "valid"
           /\ v.max_violations >= v.max_conditions_per_step => status = Expected(v, p, c)
           /\ status = "valid" => EffectsApproved(p, c)
  <1>1. /\ status = "valid" <=> Expected(v, p, c) = "valid"
        /\ v.max_violations >= v.max_conditions_per_step => status = Expected(v, p, c)
    <2>1. CASE Reached(v, p, c)
      BY <2>1, LateVerdict, StatusOfPhase
    <2>2. CASE ~Reached(v, p, c)
      BY <2>2, EarlyVerdict, BlockedBy DEF Expected
    <2> QED
      BY <2>1, <2>2
  <1>2. ASSUME status = "valid" PROVE EffectsApproved(p, c)
    <2>1. ~Blocked(v, p, c) /\ ~Unapproved(p, c)
      BY <1>1, <1>2 DEF Expected
    <2>2. Reached(v, p, c)
      BY <2>1, BlockedBy
    <2>3. CASE c.phase = "step_ready"
      <3>1. validate_structure(p) /\ c.target_step \in Ids(p)
        BY <2>2, <2>3 DEF Reached
      <3> QED
        BY <2>1, <2>3, <3>1, EffectsHeld
    <2>4. CASE c.phase # "step_ready"
      BY <2>4 DEF EffectsApproved
    <2> QED
      BY <2>3, <2>4
  <1> QED
    BY <1>1, <1>2

-----------------------------------------------------------------------------
(* The report is the one that verify gives for the input.                  *)
Answered ==
    /\ \E k \in DOMAIN Inputs : input \in Inputs[k]
    /\ report = None \/ report = verify(input.verifier, input.plan, input.context)

LEMMA AnsweredSound == Answered => VerdictSound
  <1> SUFFICES ASSUME Answered, report # None PROVE VerdictSound
    BY DEF VerdictSound
  <1>1. PICK v, p, c : v = input.verifier /\ p = input.plan /\ c = input.context
    OBVIOUS
  <1>2. CallTyped(v, p, c)
    BY <1>1, InputsAssumption DEF Answered
  <1>3. report = verify(v, p, c)
    BY <1>1 DEF Answered
  <1>4. /\ report.status = "valid" <=> Expected(v, p, c) = "valid"
        /\ v.max_violations >= v.max_conditions_per_step => report.status = Expected(v, p, c)
        /\ report.status = "valid" => EffectsApproved(p, c)
    BY <1>2, <1>3, VerdictOfCall
  <1> QED
    BY <1>1, <1>4 DEF VerdictSound

(* The verdict of PlanVerifier::verify: a plan is executable exactly when  *)
(* nothing stands against it, however few violations the report keeps; it  *)
(* is refused or waits exactly as it must when the report keeps as many    *)
(* as a step may have conditions; and an executable step that acts on      *)
(* something has the approval its action asks for.                         *)
THEOREM VerdictHolds == Spec => []VerdictSound
  <1>1. Init => Answered
    BY DEF Init, Answered
  <1>2. Answered /\ [Next]_vars => Answered'
    <2> SUFFICES ASSUME Answered, [Next]_vars PROVE Answered'
      OBVIOUS
    <2>1. CASE Next
      BY <2>1 DEF Answered, Next
    <2>2. CASE UNCHANGED vars
      BY <2>2 DEF Answered, vars
    <2> QED
      BY <2>1, <2>2
  <1>3. Spec => []Answered
    BY <1>1, <1>2, PTL DEF Spec
  <1> QED
    BY <1>3, AnsweredSound, PTL
-----------------------------------------------------------------------------
(* The search for a cycle                                                  *)

(* The visited steps wait only for visited steps, and not in a circle.     *)
VisitedSettled ==
    /\ \A v \in visited : graph[v] \subseteq visited
    /\ \A S \in SUBSET visited : S # {} => \E s \in S : graph[s] \cap S = {}

(* The calls are a path of different steps, each waiting for the next one. *)
(* What a step no longer has to look at was visited or is the next one.    *)
OnePath ==
    /\ \A i \in 1..Len(stack) :
         /\ stack[i].id \notin visited
         /\ stack[i].todo \subseteq graph[stack[i].id]
         /\ \A j \in 1..Len(stack) : stack[i].id = stack[j].id => i = j
    /\ \A i \in 1..Len(stack) : i + 1 \in 1..Len(stack) =>
         /\ stack[i + 1].id \in graph[stack[i].id]
         /\ graph[stack[i].id] \ stack[i].todo \subseteq visited \cup {stack[i + 1].id}
    /\ stack # << >> => graph[Top.id] \ Top.todo \subseteq visited

NoRootForgotten == verdict # "cyclic" => StepId \ roots \subseteq visited \cup Visiting

VerdictBacked ==
    /\ verdict = "acyclic" => visited = StepId
    /\ verdict = "cyclic" => ~WithoutCycle(graph)

SearchInv ==
    SearchType /\ VisitedSettled /\ OnePath /\ NoRootForgotten /\ VerdictBacked

(* The stack after visit enters a step, looks at one and returns.          *)
LEMMA Entered ==
    ASSUME NEW S, NEW s \in Seq(S), NEW e \in S
    PROVE  /\ Append(s, e) \in Seq(S) /\ Len(Append(s, e)) = Len(s) + 1
           /\ Len(s) \in Nat /\ Append(s, e)[Len(s) + 1] = e
           /\ \A i \in 1..Len(s) : Append(s, e)[i] = s[i]
  OBVIOUS

LEMMA OneLooked ==
    ASSUME stack \in Seq(Frame), stack # << >>, NEW d
    PROVE  /\ LookedAt(d) \in Seq(Frame) /\ Len(LookedAt(d)) = Len(stack)
           /\ \A i \in 1..Len(stack) : /\ LookedAt(d)[i].id = stack[i].id
                                       /\ i # Len(stack) => LookedAt(d)[i].todo = stack[i].todo
           /\ LookedAt(d)[Len(stack)].todo = stack[Len(stack)].todo \ {d}
  <1>1. PICK n \in Nat \ {0} : n = Len(stack)
    OBVIOUS
  <1>2. PICK e : e = [stack[n] EXCEPT !.todo = @ \ {d}]
    OBVIOUS
  <1>3. stack[n] \in Frame
    BY <1>1
  <1>4. e \in Frame /\ e.id = stack[n].id /\ e.todo = stack[n].todo \ {d}
    BY <1>2, <1>3 DEF Frame
  <1>5. LookedAt(d) = [stack EXCEPT ![n] = e]
    BY <1>1, <1>2 DEF LookedAt
  <1>6. n \in 1..Len(stack)
    BY <1>1
  <1>7. /\ [stack EXCEPT ![n] = e] \in Seq(Frame)
        /\ Len([stack EXCEPT ![n] = e]) = Len(stack)
        /\ \A i \in 1..Len(stack) : [stack EXCEPT ![n] = e][i] = IF i = n THEN e ELSE stack[i]
    BY <1>4, <1>6, ExceptSeq
  <1>8. LookedAt(d)[n] = e /\ \A i \in 1..n : i # n => LookedAt(d)[i] = stack[i]
    BY <1>1, <1>5, <1>6, <1>7
  <1> QED
    BY <1>1, <1>4, <1>5, <1>7, <1>8

LEMMA Returned ==
    ASSUME NEW S, NEW s \in Seq(S), s # << >>
    PROVE  /\ SubSeq(s, 1, Len(s) - 1) \in Seq(S)
           /\ Len(SubSeq(s, 1, Len(s) - 1)) = Len(s) - 1
           /\ Len(s) \in Nat \ {0}
           /\ \A i \in 1..Len(s) - 1 : SubSeq(s, 1, Len(s) - 1)[i] = s[i]
  <1>1. PICK n \in Nat \ {0} : n = Len(s)
    OBVIOUS
  <1>2. n - 1 \in Int /\ \A i \in 1..n - 1 : s[i] \in S
    BY <1>1
  <1> QED
    BY <1>1, <1>2, SubSeqProperties

LEMMA SearchStarts == InitSearch => SearchInv
  <1> SUFFICES ASSUME InitSearch PROVE SearchInv
    OBVIOUS
  <1>1. SearchType
    BY DEF InitSearch, SearchType
  <1>2. VisitedSettled
    BY DEF InitSearch, VisitedSettled
  <1>3. OnePath
    BY DEF InitSearch, OnePath
  <1>4. NoRootForgotten /\ VerdictBacked
    BY DEF InitSearch, NoRootForgotten, VerdictBacked
  <1> QED
    BY <1>1, <1>2, <1>3, <1>4 DEF SearchInv

LEMMA RootKeeps == SearchInv /\ next_root => SearchInv'
  <1> SUFFICES ASSUME SearchInv, next_root PROVE SearchInv'
    OBVIOUS
  <1> USE DEF SearchInv
  <1>1. PICK d \in roots : roots' = roots \ {d} /\ visit(d, << >>)
    BY DEF next_root
  <1>2. d \in StepId /\ stack = << >> /\ verdict = "searching"
        /\ graph' = graph /\ visited' = visited
    BY DEF next_root, SearchType
  <1>3. Visiting = {}
    BY <1>2 DEF Visiting
  <1>4. VisitedSettled'
    BY <1>2 DEF VisitedSettled
  <1>5. CASE d \in visited
    <2>1. stack' = << >> /\ verdict' = verdict
      BY <1>1, <1>5 DEF visit
    <2>2. SearchType'
      BY <1>1, <1>2, <2>1 DEF SearchType
    <2>3. OnePath'
      BY <2>1 DEF OnePath
    <2>4. NoRootForgotten'
      BY <1>1, <1>2, <1>3, <1>5 DEF NoRootForgotten
    <2>5. VerdictBacked'
      BY <1>2, <2>1 DEF VerdictBacked
    <2> QED
      BY <1>4, <2>2, <2>3, <2>4, <2>5
  <1>6. CASE d \notin visited
    <2>1. PICK f : f = [id |-> d, todo |-> graph[d]]
      OBVIOUS
    <2>2. f \in Frame /\ f.id = d /\ f.todo = graph[d]
      BY <1>2, <2>1 DEF Frame, SearchType
    <2>3. stack' = <<f>> /\ verdict' = verdict
      BY <1>1, <1>3, <1>6, <2>1 DEF visit
    <2>4. stack' \in Seq(Frame) /\ Len(stack') = 1 /\ stack'[1] = f
      BY <2>2, <2>3
    <2>5. SearchType'
      BY <1>1, <1>2, <2>3, <2>4 DEF SearchType
    <2>6. OnePath'
      BY <1>2, <1>6, <2>2, <2>4 DEF OnePath, Top
    <2>7. Visiting' = {d}
      BY <2>2, <2>4 DEF Visiting
    <2>8. NoRootForgotten'
      BY <1>1, <1>2, <1>3, <2>7 DEF NoRootForgotten
    <2>9. VerdictBacked'
      BY <1>2, <2>3 DEF VerdictBacked
    <2> QED
      BY <1>4, <2>5, <2>6, <2>8, <2>9
  <1> QED
    BY <1>5, <1>6

(* A step that is being visited again closes a circle: the calls from the  *)
(* one that visits it to the last.                                         *)
LEMMA CircleFound ==
    ASSUME SearchInv, verdict = "searching", stack # << >>,
           NEW d \in Top.todo, d \in Visiting
    PROVE  ~WithoutCycle(graph)
  <1> USE DEF SearchInv
  <1>1. PICK n \in Nat \ {0} : n = Len(stack)
    BY DEF SearchType
  <1>2. PICK k \in 1..n : stack[k].id = d
    BY <1>1 DEF Visiting
  <1>3. PICK S : S = {stack[i].id : i \in k..n}
    OBVIOUS
  <1>4. ASSUME NEW i \in 1..n PROVE stack[i].id \in StepId
    <2>1. stack[i] \in Frame
      BY <1>1 DEF SearchType
    <2> QED
      BY <2>1 DEF Frame
  <1>5. S \in SUBSET DOMAIN graph /\ d \in S
    <2>1. \A i \in k..n : i \in 1..n
      BY <1>1, <1>2
    <2>2. k \in k..n
      BY <1>1, <1>2
    <2> QED
      BY <1>2, <1>3, <1>4, <2>1, <2>2 DEF SearchType
  <1>6. ASSUME NEW i \in k..n PROVE \E x \in S : x \in graph[stack[i].id]
    <2>1. i \in 1..n
      BY <1>1, <1>2
    <2>2. CASE i = n
      <3>1. d \in graph[stack[i].id]
        BY <1>1, <2>1, <2>2 DEF OnePath, Top
      <3> QED
        BY <1>5, <3>1
    <2>3. CASE i # n
      <3>1. i + 1 \in k..n /\ i + 1 \in 1..n
        BY <1>1, <1>2, <2>1, <2>3
      <3>2. stack[i + 1].id \in graph[stack[i].id]
        BY <1>1, <2>1, <3>1 DEF OnePath
      <3> QED
        BY <1>3, <3>1, <3>2
    <2> QED
      BY <2>2, <2>3
  <1>7. \A s \in S : graph[s] \cap S # {}
    BY <1>3, <1>6
  <1> QED
    BY <1>5, <1>7 DEF WithoutCycle

LEMMA DependencyKeeps == SearchInv /\ next_dependency => SearchInv'
  <1> SUFFICES ASSUME SearchInv, next_dependency PROVE SearchInv'
    OBVIOUS
  <1> USE DEF SearchInv
  <1>1. PICK d \in Top.todo : visit(d, LookedAt(d))
    BY DEF next_dependency
  <1>2. PICK c : c = LookedAt(d)
    OBVIOUS
  <1>3. PICK n \in Nat \ {0} : n = Len(stack)
    BY DEF SearchType, next_dependency
  <1>4. /\ stack \in Seq(Frame) /\ stack # << >> /\ verdict = "searching"
        /\ graph' = graph /\ visited' = visited /\ roots' = roots
    BY DEF next_dependency, SearchType
  <1>5. /\ c \in Seq(Frame) /\ Len(c) = n
        /\ \A i \in 1..n : c[i].id = stack[i].id /\ (i # n => c[i].todo = stack[i].todo)
        /\ c[n].todo = stack[n].todo \ {d}
    BY <1>2, <1>3, <1>4, OneLooked
  <1>6. stack[n] \in Frame /\ Top = stack[n] /\ d \in stack[n].todo
    BY <1>1, <1>3, <1>4 DEF Top
  <1>7. d \in StepId /\ d \in graph[stack[n].id]
    BY <1>3, <1>6 DEF Frame, OnePath
  <1>8. VisitedSettled'
    BY <1>4 DEF VisitedSettled
  <1>9. Visiting = {c[i].id : i \in 1..n}
    BY <1>3, <1>5 DEF Visiting
  <1>10. CASE d \in visited
    <2>1. stack' = c /\ verdict' = verdict
      BY <1>1, <1>2, <1>10 DEF visit
    <2>2. SearchType'
      BY <1>4, <1>5, <2>1 DEF SearchType
    <2>3. OnePath'
      <3>1. graph[stack[n].id] \ stack[n].todo \subseteq visited
        BY <1>4, <1>6 DEF OnePath
      <3>2. graph[c[n].id] \ c[n].todo \subseteq visited
        BY <1>5, <1>10, <3>1
      <3>3. ASSUME NEW i \in 1..n
            PROVE  /\ c[i].id \notin visited /\ c[i].todo \subseteq graph[c[i].id]
                   /\ \A j \in 1..n : c[i].id = c[j].id => i = j
        BY <1>3, <1>5 DEF OnePath
      <3>4. ASSUME NEW i \in 1..n, i + 1 \in 1..n
            PROVE  /\ c[i + 1].id \in graph[c[i].id]
                   /\ graph[c[i].id] \ c[i].todo \subseteq visited \cup {c[i + 1].id}
        BY <1>3, <1>5, <3>4 DEF OnePath
      <3> QED
        BY <1>4, <1>5, <2>1, <3>2, <3>3, <3>4 DEF OnePath, Top
    <2>4. Visiting' = Visiting
      BY <1>5, <1>9, <2>1 DEF Visiting
    <2>5. NoRootForgotten'
      BY <1>4, <2>1, <2>4 DEF NoRootForgotten
    <2>6. VerdictBacked'
      BY <1>4, <2>1 DEF VerdictBacked
    <2> QED
      BY <1>8, <2>2, <2>3, <2>5, <2>6
  <1>11. CASE d \notin visited /\ d \in Visiting
    <2>1. stack' = << >> /\ verdict' = "cyclic"
      BY <1>1, <1>11 DEF visit
    <2>2. ~WithoutCycle(graph)
      BY <1>4, <1>11, CircleFound
    <2>3. SearchType'
      BY <1>4, <2>1 DEF SearchType
    <2>4. OnePath'
      BY <2>1 DEF OnePath
    <2>5. NoRootForgotten' /\ VerdictBacked'
      BY <1>4, <2>1, <2>2 DEF NoRootForgotten, VerdictBacked
    <2> QED
      BY <1>8, <2>3, <2>4, <2>5
  <1>12. CASE d \notin visited /\ d \notin Visiting
    <2>1. PICK f : f = [id |-> d, todo |-> graph[d]]
      OBVIOUS
    <2>2. f \in Frame /\ f.id = d /\ f.todo = graph[d]
      BY <1>7, <2>1 DEF Frame, SearchType
    <2>3. stack' = Append(c, f) /\ verdict' = verdict
      BY <1>1, <1>2, <1>12, <2>1 DEF visit
    <2>4. /\ stack' \in Seq(Frame) /\ Len(stack') = n + 1 /\ stack'[n + 1] = f
          /\ \A i \in 1..n : stack'[i] = c[i]
      BY <1>5, <2>2, <2>3, Entered
    <2>5. SearchType'
      BY <1>4, <2>3, <2>4 DEF SearchType
    <2>6. OnePath'
      <3>1. graph[stack[n].id] \ stack[n].todo \subseteq visited
        BY <1>4, <1>6 DEF OnePath
      <3>2. graph[c[n].id] \ c[n].todo \subseteq visited \cup {d} /\ d \in graph[c[n].id]
        BY <1>5, <1>7, <3>1
      <3>3. \A i \in 1..n : c[i].id # d
        BY <1>9, <1>12
      <3>4. ASSUME NEW i \in 1..n
            PROVE  /\ c[i].id \notin visited /\ c[i].todo \subseteq graph[c[i].id]
                   /\ \A j \in 1..n : c[i].id = c[j].id => i = j
        BY <1>3, <1>5 DEF OnePath
      <3>5. ASSUME NEW i \in 1..n, i + 1 \in 1..n
            PROVE  /\ c[i + 1].id \in graph[c[i].id]
                   /\ graph[c[i].id] \ c[i].todo \subseteq visited \cup {c[i + 1].id}
        BY <1>3, <1>5, <3>5 DEF OnePath
      <3>6. ASSUME NEW i \in 1..n + 1
            PROVE  /\ stack'[i].id \notin visited /\ stack'[i].todo \subseteq graph[stack'[i].id]
                   /\ \A j \in 1..n + 1 : stack'[i].id = stack'[j].id => i = j
        <4>1. \A j \in 1..n + 1 : j \in 1..n \/ j = n + 1
          OBVIOUS
        <4> QED
          BY <1>12, <2>2, <2>4, <3>3, <3>4, <4>1
      <3>7. ASSUME NEW i \in 1..n + 1, i + 1 \in 1..n + 1
            PROVE  /\ stack'[i + 1].id \in graph[stack'[i].id]
                   /\ graph[stack'[i].id] \ stack'[i].todo \subseteq visited \cup {stack'[i + 1].id}
        <4>1. CASE i = n
          BY <2>2, <2>4, <3>2, <4>1
        <4>2. CASE i # n
          <5>1. i \in 1..n /\ i + 1 \in 1..n
            BY <3>7, <4>2
          <5> QED
            BY <2>4, <3>5, <5>1
        <4> QED
          BY <4>1, <4>2
      <3>8. graph[stack'[n + 1].id] \ stack'[n + 1].todo \subseteq visited
        BY <2>2, <2>4
      <3> QED
        BY <1>4, <2>4, <3>6, <3>7, <3>8 DEF OnePath, Top
    <2>7. Visiting \subseteq Visiting'
      <3>1. \A i \in 1..n : i \in 1..Len(stack') /\ stack'[i].id = c[i].id
        BY <2>4
      <3> QED
        BY <1>9, <3>1 DEF Visiting
    <2>8. NoRootForgotten'
      BY <1>4, <2>3, <2>7 DEF NoRootForgotten
    <2>9. VerdictBacked'
      BY <1>4, <2>3 DEF VerdictBacked
    <2> QED
      BY <1>8, <2>5, <2>6, <2>8, <2>9
  <1> QED
    BY <1>10, <1>11, <1>12

LEMMA ReturnKeeps == SearchInv /\ visit_returns => SearchInv'
  <1> SUFFICES ASSUME SearchInv, visit_returns PROVE SearchInv'
    OBVIOUS
  <1> USE DEF SearchInv
  <1>1. PICK n \in Nat \ {0} : n = Len(stack)
    BY DEF SearchType, visit_returns
  <1>2. PICK s : s = stack[n].id
    OBVIOUS
  <1>3. /\ stack \in Seq(Frame) /\ stack # << >> /\ Top = stack[n]
        /\ verdict = "searching" /\ verdict' = verdict /\ graph' = graph /\ roots' = roots
        /\ visited' = visited \cup {s} /\ stack' = SubSeq(stack, 1, Len(stack) - 1)
    BY <1>1, <1>2 DEF visit_returns, Top, SearchType
  <1>4. /\ stack' \in Seq(Frame) /\ Len(stack') = n - 1
        /\ \A i \in 1..n - 1 : i \in 1..n /\ stack'[i] = stack[i]
    BY <1>1, <1>3, Returned
  <1>5. s \in StepId /\ s \notin visited /\ graph[s] \subseteq visited
    <2>1. stack[n] \in Frame /\ stack[n].todo = {}
      BY <1>1, <1>3 DEF visit_returns
    <2>2. graph[stack[n].id] \ stack[n].todo \subseteq visited /\ stack[n].id \notin visited
      BY <1>1, <1>3 DEF OnePath
    <2> QED
      BY <1>2, <2>1, <2>2 DEF Frame
  <1>6. SearchType'
    BY <1>3, <1>4, <1>5 DEF SearchType
  <1>7. VisitedSettled'
    <2>1. \A v \in visited' : graph[v] \subseteq visited'
      BY <1>3, <1>5 DEF VisitedSettled
    <2>2. ASSUME NEW S \in SUBSET visited', S # {} PROVE \E x \in S : graph[x] \cap S = {}
      <3>1. CASE S \cap visited = {}
        <4>1. S = {s}
          BY <1>3, <2>2, <3>1
        <4> QED
          BY <1>5, <4>1
      <3>2. CASE S \cap visited # {}
        <4>1. PICK x \in S \cap visited : graph[x] \cap (S \cap visited) = {}
          BY <3>2 DEF VisitedSettled
        <4>2. graph[x] \subseteq visited
          BY <4>1 DEF VisitedSettled
        <4> QED
          BY <4>1, <4>2
      <3> QED
        BY <3>1, <3>2
    <2> QED
      BY <1>3, <2>1, <2>2 DEF VisitedSettled
  <1>8. OnePath'
    <2>1. ASSUME NEW i \in 1..n - 1
          PROVE  /\ stack'[i].id \notin visited'
                 /\ stack'[i].todo \subseteq graph[stack'[i].id]
                 /\ \A j \in 1..n - 1 : stack'[i].id = stack'[j].id => i = j
      <3>1. i \in 1..n /\ n \in 1..n /\ i # n
        OBVIOUS
      <3>2. stack[i].id \notin visited /\ stack[i].id # s
        BY <1>1, <1>2, <3>1 DEF OnePath
      <3>3. /\ stack[i].todo \subseteq graph[stack[i].id]
            /\ \A j \in 1..n : stack[i].id = stack[j].id => i = j
        BY <1>1, <3>1 DEF OnePath
      <3> QED
        BY <1>3, <1>4, <3>2, <3>3
    <2>2. ASSUME NEW i \in 1..n - 1
          PROVE  /\ stack[i + 1].id \in graph[stack[i].id]
                 /\ graph[stack[i].id] \ stack[i].todo \subseteq visited \cup {stack[i + 1].id}
      <3>1. i \in 1..n /\ i + 1 \in 1..n
        OBVIOUS
      <3> QED
        BY <1>1, <3>1 DEF OnePath
    <2>3. ASSUME NEW i \in 1..n - 1, i + 1 \in 1..n - 1
          PROVE  /\ stack'[i + 1].id \in graph[stack'[i].id]
                 /\ graph[stack'[i].id] \ stack'[i].todo
                      \subseteq visited' \cup {stack'[i + 1].id}
      BY <1>3, <1>4, <2>2, <2>3
    <2>4. CASE n = 1
      BY <1>4, <2>4 DEF OnePath
    <2>5. CASE n # 1
      <3>1. n - 1 \in 1..n - 1 /\ (n - 1) + 1 = n
        BY <2>5
      <3>2. graph[stack[n - 1].id] \ stack[n - 1].todo \subseteq visited \cup {stack[n].id}
        BY <2>2, <3>1
      <3>3. graph[stack'[n - 1].id] \ stack'[n - 1].todo \subseteq visited'
        BY <1>2, <1>3, <1>4, <3>1, <3>2
      <3> QED
        BY <1>3, <1>4, <2>1, <2>3, <3>3 DEF OnePath, Top
    <2> QED
      BY <2>4, <2>5
  <1>9. Visiting \subseteq Visiting' \cup {s}
    <2>1. ASSUME NEW i \in 1..n PROVE stack[i].id \in Visiting' \cup {s}
      <3>1. CASE i = n
        BY <1>2, <3>1
      <3>2. CASE i # n
        <4>1. i \in 1..n - 1
          BY <3>2
        <4> QED
          BY <1>4, <4>1 DEF Visiting
      <3> QED
        BY <3>1, <3>2
    <2> QED
      BY <1>1, <2>1 DEF Visiting
  <1>10. NoRootForgotten'
    BY <1>3, <1>9 DEF NoRootForgotten
  <1>11. VerdictBacked'
    BY <1>3 DEF VerdictBacked
  <1> QED
    BY <1>6, <1>7, <1>8, <1>10, <1>11

LEMMA AcceptKeeps == SearchInv /\ accept => SearchInv'
  <1> SUFFICES ASSUME SearchInv, accept PROVE SearchInv'
    OBVIOUS
  <1> USE DEF SearchInv
  <1>1. /\ stack = << >> /\ roots = {} /\ verdict = "searching" /\ verdict' = "acyclic"
        /\ graph' = graph /\ roots' = roots /\ stack' = stack /\ visited' = visited
    BY DEF accept
  <1>2. SearchType' /\ VisitedSettled'
    BY <1>1 DEF SearchType, VisitedSettled
  <1>3. OnePath'
    BY <1>1 DEF OnePath
  <1>4. Visiting = {} /\ Visiting' = {}
    BY <1>1 DEF Visiting
  <1>5. StepId \subseteq visited
    BY <1>1, <1>4 DEF NoRootForgotten
  <1>6. NoRootForgotten' /\ VerdictBacked'
    BY <1>1, <1>5 DEF NoRootForgotten, VerdictBacked, SearchType
  <1> QED
    BY <1>2, <1>3, <1>6

LEMMA SearchInduction == Search => []SearchInv
  <1>1. SearchInv /\ [NextSearch]_searchVars => SearchInv'
    <2> SUFFICES ASSUME SearchInv, [NextSearch]_searchVars PROVE SearchInv'
      OBVIOUS
    <2>1. CASE UNCHANGED searchVars
      BY <2>1 DEF searchVars, SearchInv, SearchType, VisitedSettled, OnePath, Top,
                  NoRootForgotten, Visiting, VerdictBacked
    <2> QED
      BY <2>1, RootKeeps, DependencyKeeps, ReturnKeeps, AcceptKeeps DEF NextSearch
  <1> QED
    BY <1>1, SearchStarts, PTL DEF Search

(* ensure_acyclic accepts a plan only when no set of its steps waits for   *)
(* itself, and refuses it only when one does, in whatever order the steps  *)
(* and their dependencies are visited.                                     *)
THEOREM SearchHolds == Search => []SearchSound
  <1>1. SearchInv => SearchSound
    <2> SUFFICES ASSUME SearchInv PROVE SearchSound
      OBVIOUS
    <2>1. ASSUME verdict = "acyclic" PROVE WithoutCycle(graph)
      <3>1. DOMAIN graph = visited
        BY <2>1 DEF SearchInv, SearchType, VerdictBacked
      <3> QED
        BY <3>1 DEF SearchInv, VisitedSettled, WithoutCycle
    <2> QED
      BY <2>1 DEF SearchInv, VerdictBacked, SearchSound
  <1> QED
    BY <1>1, SearchInduction, PTL

(* The calls of visit that have not returned are for different steps, so   *)
(* the recursion is never deeper than the plan has steps.                  *)
THEOREM DepthHolds ==
    ASSUME IsFiniteSet(StepId)
    PROVE  Search => []DepthBounded
  <1>1. SearchInv => DepthBounded
    <2> SUFFICES ASSUME SearchInv PROVE DepthBounded
      OBVIOUS
    <2>1. PICK n \in Nat : n = Len(stack)
      BY DEF SearchInv, SearchType
    <2>2. PICK ids : ids = [i \in 1..n |-> stack[i].id]
      OBVIOUS
    <2>3. ASSUME NEW i \in 1..n PROVE ids[i] \in StepId
      <3>1. stack[i] \in Frame
        BY <2>1 DEF SearchInv, SearchType
      <3> QED
        BY <2>2, <3>1 DEF Frame
    <2>4. \A i, j \in 1..n : ids[i] = ids[j] => i = j
      BY <2>1, <2>2 DEF SearchInv, OnePath
    <2>5. ids \in Injection(1..n, StepId)
      <3>1. ids \in [1..n -> StepId]
        BY <2>2, <2>3
      <3> QED
        BY <2>4, <3>1 DEF Injection, IsInjective
    <2>6. Cardinality(1..n) <= Cardinality(StepId)
      BY <2>5, FS_Injection
    <2>7. Cardinality(1..n) = n
      BY FS_Interval
    <2> QED
      BY <2>1, <2>6, <2>7 DEF DepthBounded
  <1> QED
    BY <1>1, SearchInduction, PTL

(* The variables of the search keep their types (ensure_acyclic).          *)
THEOREM SearchTyped == Search => []SearchType
  BY SearchInduction, PTL DEF SearchInv

(* What each step of the plan waits for, as ensure_acyclic maps it.        *)
DependsOn(p) == [i \in Ids(p) |-> ToSet((CHOOSE s \in Steps(p) : s.id = i).depends_on)]

(* The search decides what PlanVerifier calls acyclic, for the plans that  *)
(* reach it: their steps have different ids.                               *)
THEOREM SearchDecides ==
    ASSUME NEW p, \A s, t \in Steps(p) : s.id = t.id => s = t
    PROVE  acyclic(p) <=> WithoutCycle(DependsOn(p))
  <1>1. ASSUME NEW s \in Steps(p)
        PROVE  s.id \in Ids(p) /\ DependsOn(p)[s.id] = ToSet(s.depends_on)
    <2>1. s.id \in Ids(p)
      BY DEF Ids
    <2>2. (CHOOSE t \in Steps(p) : t.id = s.id) = s
      OBVIOUS
    <2> QED
      BY <2>1, <2>2 DEF DependsOn
  <1>2. DOMAIN DependsOn(p) = Ids(p)
    BY DEF DependsOn
  <1>3. ASSUME acyclic(p), NEW S \in SUBSET Ids(p), S # {}
        PROVE  \E i \in S : DependsOn(p)[i] \cap S = {}
    <2>1. PICK T : T = {s \in Steps(p) : s.id \in S}
      OBVIOUS
    <2>2. S = {t.id : t \in T}
      BY <1>3, <2>1 DEF Ids
    <2>3. T \in SUBSET Steps(p) /\ T # {}
      BY <1>3, <2>1, <2>2
    <2>4. PICK s \in T : ToSet(s.depends_on) \cap {t.id : t \in T} = {}
      BY <1>3, <2>3 DEF acyclic
    <2> QED
      BY <1>1, <2>1, <2>2, <2>4
  <1>4. ASSUME WithoutCycle(DependsOn(p)), NEW T \in SUBSET Steps(p), T # {}
        PROVE  \E s \in T : ToSet(s.depends_on) \cap {t.id : t \in T} = {}
    <2>1. PICK S : S = {t.id : t \in T}
      OBVIOUS
    <2>2. S \in SUBSET Ids(p) /\ S # {}
      BY <1>4, <2>1 DEF Ids
    <2>3. PICK i \in S : DependsOn(p)[i] \cap S = {}
      BY <1>2, <1>4, <2>2 DEF WithoutCycle
    <2>4. PICK s \in T : s.id = i
      BY <2>1
    <2> QED
      BY <1>1, <2>1, <2>3, <2>4
  <1> QED
    BY <1>2, <1>3, <1>4 DEF acyclic, WithoutCycle
=============================================================================
