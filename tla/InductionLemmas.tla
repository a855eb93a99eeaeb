-------------------------- MODULE InductionLemmas --------------------------
(* Induction in the form the other proofs use: over a set of numbers or a  *)
(* set of sets instead of a predicate.  What follows about sums rests on   *)
(* it.                                                                     *)
EXTENDS Integers, FiniteSets, Functions, FiniteSetTheorems, TLAPS

(* Induction on the natural numbers, from the fact that < is well founded. *)
LEMMA NatSetInduction ==
    ASSUME NEW S, 0 \in S, \A n \in Nat : n \in S => n + 1 \in S
    PROVE  Nat \subseteq S
<1> DEFINE R == {p \in Nat \X Nat : p[1] < p[2]}
<1> SUFFICES ASSUME Nat \ S # {} PROVE FALSE
  OBVIOUS
<1>1. IsWellFoundedOn(R, Nat)
  BY NatLessThanWellFounded DEF OpToRel
<1>2. PICK x \in Nat \ S : \A y \in Nat \ S : ~ (<<y, x>> \in R)
  <2> HIDE DEF R
  <2> QED
    BY <1>1, WFMin, Zenon
<1>3. \A y \in Nat \ S : ~ (y < x)
  BY <1>2
<1>4. x - 1 \in Nat /\ x - 1 \in S
  BY <1>3
<1> QED
  BY <1>2, <1>4

(* Induction on the size of the finite subsets of a set.                   *)
LEMMA SizeInduction ==
    ASSUME NEW U, IsFiniteSet(U), NEW P,
           \A T \in SUBSET U :
             (\A V \in SUBSET U : Cardinality(V) < Cardinality(T) => V \in P) => T \in P
    PROVE  SUBSET U \subseteq P
<1> DEFINE N == {n \in Nat : \A T \in SUBSET U : Cardinality(T) <= n => T \in P}
<1>1. \A T \in SUBSET U : Cardinality(T) \in Nat
  BY FS_Subset, FS_CardinalityType
<1>2. 0 \in N
  BY <1>1
<1>3. ASSUME NEW n \in Nat, n \in N PROVE n + 1 \in N
  <2>1. ASSUME NEW T \in SUBSET U, Cardinality(T) <= n + 1 PROVE T \in P
    <3>1. \A V \in SUBSET U : Cardinality(V) < Cardinality(T) => Cardinality(V) <= n
      BY <1>1, <2>1
    <3> QED
      BY <1>3, <2>1, <3>1
  <2> QED
    BY <2>1
<1>4. Nat \subseteq N
  <2> HIDE DEF N
  <2> QED
    BY <1>2, <1>3, NatSetInduction
<1> QED
  BY <1>1, <1>4

-----------------------------------------------------------------------------
(* Sums over finite functions: SumFunction of the community modules.       *)

Pick(s) == CHOOSE x \in s : TRUE

(* g gives the sum of f over each subset of U, by the recursion of the     *)
(* fold.                                                                   *)
IsSum(g, f, U) ==
    g = [s \in SUBSET U |-> IF s = {} THEN 0 ELSE f[Pick(s)] + g[s \ {Pick(s)}]]

LEMMA SmallerSet ==
    ASSUME NEW U, IsFiniteSet(U), NEW s \in SUBSET U, NEW x \in s
    PROVE  /\ s \ {x} \in SUBSET U
           /\ Cardinality(s) \in Nat /\ Cardinality(s \ {x}) = Cardinality(s) - 1
           /\ Cardinality(s) # 0
<1>1. IsFiniteSet(s)
  BY FS_Subset
<1> QED
  BY <1>1, FS_RemoveElement, FS_CardinalityType, FS_EmptySet

(* The recursion has a solution, with values in Nat.                       *)
LEMMA SumExists ==
    ASSUME NEW U, IsFiniteSet(U), NEW f \in [U -> Nat]
    PROVE  \E g \in [SUBSET U -> Nat] : IsSum(g, f, U)
<1> DEFINE Upto(g, n) ==
             \A s \in SUBSET U : Cardinality(s) <= n =>
               g[s] = IF s = {} THEN 0 ELSE f[Pick(s)] + g[s \ {Pick(s)}]
           N == {n \in Nat : \E g \in [SUBSET U -> Nat] : Upto(g, n)}
<1>0. \A s \in SUBSET U : /\ IsFiniteSet(s) /\ Cardinality(s) \in Nat
                          /\ Cardinality(s) = 0 <=> s = {}
                          /\ Cardinality(s) <= Cardinality(U)
  BY FS_Subset, FS_CardinalityType, FS_EmptySet
<1>1. 0 \in N
  <2> DEFINE g == [s \in SUBSET U |-> 0]
  <2>1. g \in [SUBSET U -> Nat]
    OBVIOUS
  <2>2. Upto(g, 0)
    BY <1>0
  <2> QED
    BY <2>1, <2>2
<1>2. ASSUME NEW n \in Nat, n \in N PROVE n + 1 \in N
  <2>1. PICK g \in [SUBSET U -> Nat] : Upto(g, n)
    BY <1>2
  <2> DEFINE h == [s \in SUBSET U |-> IF Cardinality(s) = n + 1
                                      THEN f[Pick(s)] + g[s \ {Pick(s)}] ELSE g[s]]
  <2>2. ASSUME NEW s \in SUBSET U, s # {}
        PROVE  /\ Pick(s) \in s /\ Pick(s) \in U /\ f[Pick(s)] \in Nat
               /\ s \ {Pick(s)} \in SUBSET U
               /\ Cardinality(s \ {Pick(s)}) = Cardinality(s) - 1
               /\ g[s \ {Pick(s)}] \in Nat
    <3>1. Pick(s) \in s
      BY <2>2 DEF Pick
    <3> QED
      BY <3>1, SmallerSet
  <2>3. h \in [SUBSET U -> Nat]
    <3>1. ASSUME NEW s \in SUBSET U PROVE h[s] \in Nat
      <4>1. CASE s = {}
        BY <1>0, <4>1
      <4>2. CASE s # {}
        BY <2>2, <4>2
      <4> QED
        BY <4>1, <4>2
    <3> QED
      BY <3>1
  <2>4. Upto(h, n + 1)
    <3> SUFFICES ASSUME NEW s \in SUBSET U, Cardinality(s) <= n + 1
                 PROVE  h[s] = IF s = {} THEN 0 ELSE f[Pick(s)] + h[s \ {Pick(s)}]
      OBVIOUS
    <3>1. CASE s = {}
      <4>1. Cardinality(s) = 0
        BY <1>0, <3>1
      <4>2. h[s] = g[s]
        BY <4>1
      <4>3. g[s] = 0
        BY <2>1, <3>1, <4>1
      <4> QED
        BY <3>1, <4>2, <4>3
    <3>2. CASE s # {}
      <4>1. h[s \ {Pick(s)}] = g[s \ {Pick(s)}]
        BY <1>0, <2>2, <3>2
      <4>2. h[s] = f[Pick(s)] + g[s \ {Pick(s)}]
        <5>1. CASE Cardinality(s) = n + 1
          BY <5>1
        <5>2. CASE Cardinality(s) # n + 1
          <6>1. Cardinality(s) <= n /\ h[s] = g[s]
            BY <1>0, <5>2
          <6> QED
            BY <2>1, <3>2, <6>1
        <5> QED
          BY <5>1, <5>2
      <4> QED
        BY <3>2, <4>1, <4>2
    <3> QED
      BY <3>1, <3>2
  <2> HIDE DEF h
  <2> HIDE DEF Upto
  <2> QED
    BY <2>3, <2>4
<1>3. Nat \subseteq N
  <2> HIDE DEF N
  <2> QED
    BY <1>1, <1>2, NatSetInduction
<1>4. PICK g \in [SUBSET U -> Nat] : Upto(g, Cardinality(U))
  <2>1. Cardinality(U) \in Nat
    BY FS_CardinalityType
  <2> QED
    BY <1>3, <2>1
<1>5. IsSum(g, f, U)
  BY <1>0, <1>4 DEF IsSum
<1> QED
  BY <1>5

(* A solution for a set is one for its subsets, also for another function  *)
(* with the same values there.                                             *)
LEMMA SumUnique ==
    ASSUME NEW U, IsFiniteSet(U), NEW W \in SUBSET U, NEW f, NEW e,
           \A x \in W : f[x] = e[x],
           NEW g, IsSum(g, f, U), NEW h, IsSum(h, e, W)
    PROVE  \A s \in SUBSET W : g[s] = h[s]
<1> DEFINE P == {s \in SUBSET W : g[s] = h[s]}
<1>1. IsFiniteSet(W)
  BY FS_Subset
<1>2. ASSUME NEW T \in SUBSET W,
             \A V \in SUBSET W : Cardinality(V) < Cardinality(T) => V \in P
      PROVE  T \in P
  <2>1. CASE T = {}
    BY <2>1 DEF IsSum
  <2>2. CASE T # {}
    <3>1. Pick(T) \in T
      BY <2>2 DEF Pick
    <3>2. T \ {Pick(T)} \in SUBSET W /\ Cardinality(T \ {Pick(T)}) < Cardinality(T)
      BY <1>1, <3>1, SmallerSet
    <3>3. g[T \ {Pick(T)}] = h[T \ {Pick(T)}]
      BY <1>2, <3>2
    <3>4. f[Pick(T)] = e[Pick(T)]
      BY <3>1
    <3>5. g[T] = f[Pick(T)] + g[T \ {Pick(T)}] /\ h[T] = e[Pick(T)] + h[T \ {Pick(T)}]
      BY <2>2 DEF IsSum
    <3> QED
      BY <3>3, <3>4, <3>5
  <2> QED
    BY <2>1, <2>2
<1>3. SUBSET W \subseteq P
  <2> HIDE DEF P
  <2> QED
    BY <1>1, <1>2, SizeInduction
<1> QED
  BY <1>3

(* The order in which elements are taken does not matter.                  *)
AnyElement(g, f, U) ==
    \A s \in SUBSET U : \A x \in s : g[s] = f[x] + g[s \ {x}]

LEMMA SumAnyElement ==
    ASSUME NEW U, IsFiniteSet(U), NEW f \in [U -> Nat],
           NEW g \in [SUBSET U -> Nat], IsSum(g, f, U)
    PROVE  AnyElement(g, f, U)
<1> DEFINE P == {s \in SUBSET U : \A x \in s : g[s] = f[x] + g[s \ {x}]}
<1>1. ASSUME NEW T \in SUBSET U,
             \A V \in SUBSET U : Cardinality(V) < Cardinality(T) => V \in P,
             NEW x \in T
      PROVE  g[T] = f[x] + g[T \ {x}]
  <2> DEFINE y == Pick(T)
  <2>1. y \in T
    BY DEF Pick
  <2>2. g[T] = f[y] + g[T \ {y}]
    BY <2>1 DEF IsSum
  <2> HIDE DEF y
  <2>3. CASE x = y
    BY <2>2, <2>3
  <2>4. CASE x # y
    <3>1. /\ T \ {x} \in SUBSET U /\ Cardinality(T \ {x}) < Cardinality(T)
          /\ T \ {y} \in SUBSET U /\ Cardinality(T \ {y}) < Cardinality(T)
      BY <2>1, SmallerSet
    <3>2. x \in T \ {y} /\ y \in T \ {x} /\ (T \ {x}) \ {y} = (T \ {y}) \ {x}
          /\ (T \ {x}) \ {y} \in SUBSET U
      BY <2>1, <2>4
    <3>3. g[T \ {y}] = f[x] + g[(T \ {y}) \ {x}] /\ g[T \ {x}] = f[y] + g[(T \ {x}) \ {y}]
      BY <1>1, <3>1, <3>2
    <3>4. f[x] \in Nat /\ f[y] \in Nat /\ g[(T \ {x}) \ {y}] \in Nat
      BY <2>1, <3>2
    <3>5. g[(T \ {y}) \ {x}] = g[(T \ {x}) \ {y}]
      BY <3>2
    <3> DEFINE rest == g[(T \ {x}) \ {y}]
    <3>6. g[T] = f[y] + (f[x] + rest) /\ g[T \ {x}] = f[y] + rest
      BY <2>2, <3>3, <3>5
    <3>7. rest \in Nat
      BY <3>4
    <3> HIDE DEF rest
    <3> QED
      BY <3>4, <3>6, <3>7
  <2> QED
    BY <2>3, <2>4
<1>2. SUBSET U \subseteq P
  <2>1. \A T \in SUBSET U :
          (\A V \in SUBSET U : Cardinality(V) < Cardinality(T) => V \in P) => T \in P
    BY <1>1
  <2> HIDE DEF P
  <2> QED
    BY <2>1, SizeInduction
<1> QED
  BY <1>2 DEF AnyElement

LEMMA SumIsSum ==
    ASSUME NEW U, IsFiniteSet(U), NEW f \in [U -> Nat]
    PROVE  \E g \in [SUBSET U -> Nat] : IsSum(g, f, U) /\ SumFunction(f) = g[U]
<1> DEFINE g == CHOOSE g : IsSum(g, f, U)
<1>1. \E h : IsSum(h, f, U)
  BY SumExists
<1>2. IsSum(g, f, U)
  BY <1>1
<1>3. PICK h \in [SUBSET U -> Nat] : IsSum(h, f, U)
  BY SumExists
<1>4. SumFunction(f) = g[U]
  BY DEF SumFunction, SumFunctionOnSet, FoldFunctionOnSet, MapThenFoldSet, IsSum, Pick
<1> HIDE DEF g
<1>5. \A s \in SUBSET U : g[s] = h[s]
  BY <1>2, <1>3, SumUnique
<1>6. SumFunction(f) = h[U]
  BY <1>4, <1>5
<1> QED
  BY <1>3, <1>6

(* Sums of natural numbers are natural numbers.                            *)
LEMMA SumType ==
    ASSUME NEW U, IsFiniteSet(U), NEW f \in [U -> Nat]
    PROVE  SumFunction(f) \in Nat
<1>1. PICK g \in [SUBSET U -> Nat] : SumFunction(f) = g[U]
  BY SumIsSum
<1> QED
  BY <1>1

(* One more element adds its value.                                        *)
LEMMA SumAdd ==
    ASSUME NEW U, IsFiniteSet(U), NEW x, x \notin U, NEW f \in [U -> Nat],
           NEW h \in [U \cup {x} -> Nat], \A y \in U : f[y] = h[y]
    PROVE  SumFunction(h) = SumFunction(f) + h[x]
<1> DEFINE V == U \cup {x}
<1>1. IsFiniteSet(V) /\ U \in SUBSET V /\ V \ {x} = U /\ x \in V
  BY FS_AddElement
<1>2. PICK g \in [SUBSET U -> Nat] : IsSum(g, f, U) /\ SumFunction(f) = g[U]
  BY SumIsSum
<1>3. PICK k \in [SUBSET V -> Nat] : IsSum(k, h, V) /\ SumFunction(h) = k[V]
  BY <1>1, SumIsSum
<1> HIDE DEF V
<1>4. k[V] = h[x] + k[U]
  <2>1. h \in [V -> Nat]
    BY DEF V
  <2>2. AnyElement(k, h, V)
    BY <1>1, <1>3, <2>1, SumAnyElement
  <2> QED
    BY <1>1, <2>2 DEF AnyElement
<1>5. k[U] = g[U]
  <2>1. \A y \in U : h[y] = f[y]
    OBVIOUS
  <2>2. \A s \in SUBSET U : k[s] = g[s]
    BY <1>1, <1>2, <1>3, <2>1, SumUnique
  <2> QED
    BY <2>2
<1>6. g[U] \in Nat /\ h[x] \in Nat
  BY <1>2
<1> QED
  BY <1>2, <1>3, <1>4, <1>5, <1>6

(* Fewer elements have no larger sum.                                      *)
LEMMA SumMonotonic ==
    ASSUME NEW U, IsFiniteSet(U), NEW W \in SUBSET U, NEW h \in [U -> Nat],
           NEW f \in [W -> Nat], \A y \in W : f[y] = h[y]
    PROVE  SumFunction(f) <= SumFunction(h)
<1>1. IsFiniteSet(W)
  BY FS_Subset
<1>2. PICK g \in [SUBSET W -> Nat] : IsSum(g, f, W) /\ SumFunction(f) = g[W]
  BY <1>1, SumIsSum
<1>3. PICK k \in [SUBSET U -> Nat] : IsSum(k, h, U) /\ SumFunction(h) = k[U]
  BY SumIsSum
<1>4. k[W] = g[W]
  <2>1. \A y \in W : h[y] = f[y]
    OBVIOUS
  <2>2. \A s \in SUBSET W : k[s] = g[s]
    BY <1>2, <1>3, <2>1, SumUnique
  <2> QED
    BY <2>2
<1> DEFINE P == {s \in SUBSET U : W \subseteq s => k[W] <= k[s]}
<1>5. ASSUME NEW T \in SUBSET U,
             \A V \in SUBSET U : Cardinality(V) < Cardinality(T) => V \in P
      PROVE  T \in P
  <2> SUFFICES ASSUME W \subseteq T PROVE k[W] <= k[T]
    OBVIOUS
  <2>1. CASE T = W
    BY <1>3, <2>1
  <2>2. CASE T # W
    <3>1. PICK x \in T : x \notin W
      BY <2>2
    <3>2. k[T] = h[x] + k[T \ {x}]
      <4>1. AnyElement(k, h, U)
        BY <1>3, SumAnyElement
      <4> QED
        BY <4>1 DEF AnyElement
    <3>3. T \ {x} \in SUBSET U /\ Cardinality(T \ {x}) < Cardinality(T)
      BY SmallerSet
    <3>4. k[W] <= k[T \ {x}]
      BY <1>5, <3>1, <3>3
    <3>5. h[x] \in Nat /\ k[T \ {x}] \in Nat /\ k[W] \in Nat
      BY <1>3, <3>3
    <3> QED
      BY <3>2, <3>4, <3>5
  <2> QED
    BY <2>1, <2>2
<1>6. SUBSET U \subseteq P
  <2> HIDE DEF P
  <2> QED
    BY <1>5, SizeInduction
<1>7. k[W] <= k[U]
  BY <1>6
<1> QED
  BY <1>2, <1>3, <1>4, <1>7

-----------------------------------------------------------------------------
(* A finite set of numbers, in order.                                      *)

LEMMA GreatestExists ==
    ASSUME NEW A \in SUBSET Nat, IsFiniteSet(A), A # {}
    PROVE  \E m \in A : \A y \in A : y <= m
<1> DEFINE P == {T \in SUBSET A : T # {} => \E m \in T : \A y \in T : y <= m}
<1>1. ASSUME NEW T \in SUBSET A,
             \A V \in SUBSET A : Cardinality(V) < Cardinality(T) => V \in P
      PROVE  T \in P
  <2> SUFFICES ASSUME T # {} PROVE \E m \in T : \A y \in T : y <= m
    OBVIOUS
  <2>1. PICK x \in T : TRUE
    OBVIOUS
  <2>2. /\ T \ {x} \in SUBSET A
        /\ Cardinality(T) \in Nat /\ Cardinality(T \ {x}) = Cardinality(T) - 1
    BY SmallerSet
  <2>3. T \ {x} \in P
    BY <1>1, <2>2
  <2>4. CASE T \ {x} = {}
    <3>1. \A y \in T : y = x /\ y \in Nat
      BY <2>4
    <3> QED
      BY <2>1, <3>1
  <2>5. CASE T \ {x} # {}
    <3>1. PICK m \in T \ {x} : \A y \in T \ {x} : y <= m
      BY <2>3, <2>5
    <3>2. x \in Nat /\ m \in Nat
      OBVIOUS
    <3>3. CASE x <= m
      BY <3>1, <3>3
    <3>4. CASE m < x
      <4>1. \A y \in T : y <= x
        BY <3>1, <3>2, <3>4
      <4> QED
        BY <4>1
    <3> QED
      BY <3>2, <3>3, <3>4
  <2> QED
    BY <2>4, <2>5
<1>2. SUBSET A \subseteq P
  <2> HIDE DEF P
  <2> QED
    BY <1>1, SizeInduction
<1> QED
  BY <1>2

Sorted(f, A) ==
    /\ f \in [1..Cardinality(A) -> A]
    /\ \A i, j \in DOMAIN f : i < j => f[i] < f[j]

(* A finite set of numbers can be listed in order.                         *)
LEMMA SortedExists ==
    ASSUME NEW A \in SUBSET Nat, IsFiniteSet(A)
    PROVE  \E f : Sorted(f, A)
<1> DEFINE P == {T \in SUBSET A : \E f : Sorted(f, T)}
<1>1. ASSUME NEW T \in SUBSET A,
             \A V \in SUBSET A : Cardinality(V) < Cardinality(T) => V \in P
      PROVE  T \in P
  <2>1. CASE T = {}
    <3>1. Cardinality(T) = 0
      BY <2>1, FS_EmptySet
    <3>2. Sorted([i \in 1..0 |-> i], T)
      BY <2>1, <3>1 DEF Sorted
    <3> QED
      BY <3>2
  <2>2. CASE T # {}
    <3>1. IsFiniteSet(T) /\ T \in SUBSET Nat
      BY FS_Subset
    <3>2. PICK m \in T : \A y \in T : y <= m
      BY <2>2, <3>1, GreatestExists
    <3>3. /\ T \ {m} \in SUBSET A
          /\ Cardinality(T) \in Nat /\ Cardinality(T \ {m}) = Cardinality(T) - 1
          /\ Cardinality(T) # 0
      BY SmallerSet
    <3>4. PICK f : Sorted(f, T \ {m})
      BY <1>1, <3>3
    <3>5. PICK n \in Nat : n + 1 = Cardinality(T)
      BY <3>3
    <3>6. /\ f \in [1..n -> T \ {m}]
          /\ \A i, j \in 1..n : i < j => f[i] < f[j]
      <4>1. Cardinality(T \ {m}) = n
        BY <3>3, <3>5
      <4> QED
        BY <3>4, <4>1 DEF Sorted
    <3> DEFINE h == [i \in 1..n + 1 |-> IF i = n + 1 THEN m ELSE f[i]]
    <3>7. \A i \in 1..n + 1 : /\ i = n + 1 => h[i] = m
                              /\ i # n + 1 => i \in 1..n /\ h[i] = f[i]
                              /\ h[i] \in T
      BY <3>2, <3>6
    <3>8. h \in [1..n + 1 -> T]
      BY <3>7
    <3> HIDE DEF h
    <3>9. \A i \in 1..n : f[i] < m
      <4>1. ASSUME NEW i \in 1..n PROVE f[i] < m
        <5>1. f[i] \in T /\ f[i] # m /\ f[i] \in Nat /\ m \in Nat
          BY <3>1, <3>6
        <5> QED
          BY <3>2, <5>1
      <4> QED
        BY <4>1
    <3>10. ASSUME NEW i \in 1..n + 1, NEW j \in 1..n + 1, i < j PROVE h[i] < h[j]
      <4>1. i \in 1..n /\ h[i] = f[i]
        BY <3>7, <3>10
      <4>2. CASE j = n + 1
        BY <3>7, <3>9, <4>1, <4>2
      <4>3. CASE j # n + 1
        BY <3>6, <3>7, <3>10, <4>1, <4>3
      <4> QED
        BY <4>2, <4>3
    <3>11. Sorted(h, T)
      BY <3>5, <3>8, <3>10 DEF Sorted
    <3> QED
      BY <3>11
  <2> QED
    BY <2>1, <2>2
<1>2. SUBSET A \subseteq P
  <2> HIDE DEF P
  <2> QED
    BY <1>1, SizeInduction
<1> QED
  BY <1>2

(* Listed in order, each element is listed once and none is left out.      *)
LEMMA SortedOnto ==
    ASSUME NEW A \in SUBSET Nat, IsFiniteSet(A), NEW f, Sorted(f, A)
    PROVE  /\ \A i, j \in 1..Cardinality(A) : f[i] = f[j] => i = j
           /\ \A x \in A : \E i \in 1..Cardinality(A) : f[i] = x
<1>1. PICK n \in Nat : n = Cardinality(A)
  BY FS_CardinalityType
<1>2. f \in [1..n -> A] /\ \A i, j \in 1..n : i < j => f[i] < f[j]
  BY <1>1 DEF Sorted
<1>3. ASSUME NEW i \in 1..n, NEW j \in 1..n, f[i] = f[j] PROVE i = j
  <2>1. f[i] \in Nat /\ f[j] \in Nat
    BY <1>2
  <2> QED
    BY <1>2, <1>3, <2>1
<1>4. ASSUME NEW x \in A, ~ \E i \in 1..n : f[i] = x PROVE FALSE
  <2>1. IsFiniteSet(A \ {x}) /\ Cardinality(A \ {x}) = n - 1
    BY <1>1, FS_RemoveElement
  <2>2. IsFiniteSet(1..n) /\ Cardinality(1..n) = n
    <3>1. 1 \in Int /\ n \in Int
      OBVIOUS
    <3>2. IsFiniteSet(1..n) /\ Cardinality(1..n) = IF 1 > n THEN 0 ELSE n - 1 + 1
      BY <3>1, FS_Interval
    <3> QED
      BY <3>2
  <2>3. f \in [1..n -> A \ {x}]
    BY <1>2, <1>4
  <2>4. Cardinality(A \ {x}) < Cardinality(1..n)
    BY <2>1, <2>2
  <2>5. \E a, b \in 1..n : a # b /\ f[a] = f[b]
    BY <2>1, <2>2, <2>3, <2>4, FS_PigeonHole
  <2> QED
    BY <1>3, <2>5
<1> QED
  BY <1>1, <1>3, <1>4
=============================================================================
