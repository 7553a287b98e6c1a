---------------------------- MODULE DataInduction ----------------------------
(***************************************************************************)
(* Induction over the natural numbers, stated of sets and functions so     *)
(* that provers without operators as parameters can use it.  It rests on   *)
(* inclusion among finite sets being well-founded.                         *)
(***************************************************************************)
EXTENDS Naturals, FiniteSetTheorems, TLAPS

\* A set of numbers that is not empty has a least one.
LEMMA NatMin ==
    ASSUME NEW S, S \subseteq Nat, S # {}
    PROVE  \E n \in S : \A m \in S : n <= m
<1> DEFINE T == {0..n : n \in S}
           R == StrictSubsetOrdering(Nat)
<1>1. T \subseteq FiniteSubsetsOf(Nat)
  <2>1. \A n \in S : IsFiniteSet(0..n)
    <3> TAKE n \in S
    <3>1. n \in Int /\ 0 \in Int
      OBVIOUS
    <3> QED
      BY <3>1, FS_Interval
  <2>2. \A n \in S : 0..n \in SUBSET Nat
    OBVIOUS
  <2> QED
    BY <2>1, <2>2 DEF FiniteSubsetsOf
<1>2. T # {}
  OBVIOUS
<1>3. IsWellFoundedOn(R, FiniteSubsetsOf(Nat))
  BY FS_StrictSubsetOrderingWellFounded
<1>4. \E x \in T : \A y \in T : ~ (<<y, x>> \in R)
  <2> HIDE DEF T, R
  <2> QED
    BY <1>1, <1>2, <1>3, WFMin
<1>5. PICK n \in S : \A m \in S : ~ (<<0..m, 0..n>> \in R)
  BY <1>4
<1>6. ASSUME NEW m \in S, ~ (n <= m)
      PROVE  FALSE
  <2>1. m \in Nat /\ n \in Nat /\ m < n
    BY <1>6
  <2>2. 0..m \subseteq 0..n
    BY <2>1
  <2>3. n \in 0..n /\ n \notin 0..m
    BY <2>1
  <2>4. <<0..m, 0..n>> \in (SUBSET Nat) \X (SUBSET Nat)
    BY <2>1
  <2>5. <<0..m, 0..n>> \in R
    BY <2>2, <2>3, <2>4 DEF StrictSubsetOrdering
  <2> QED
    BY <1>5, <2>5
<1> QED
  BY <1>6

\* A bounded one has a greatest.
LEMMA NatMax ==
    ASSUME NEW m \in Nat, NEW S, S \subseteq 0..m, S # {}
    PROVE  \E n \in S : \A k \in S : k <= n
<1> DEFINE Below == {m - k : k \in S}
<1>1. PICK low \in Below : \A other \in Below : low <= other
  <2>1. Below \subseteq Nat
    <3>1. \A k \in S : k \in Nat /\ k <= m
      OBVIOUS
    <3>2. ASSUME NEW k \in S
          PROVE  m - k \in Nat
      BY <3>1
    <3> QED
      BY <3>2
  <2>2. Below # {}
    <3>1. PICK k : k \in S
      OBVIOUS
    <3>2. m - k \in Below
      BY <3>1
    <3> QED
      BY <3>2
  <2> HIDE DEF Below
  <2> QED
    BY <2>1, <2>2, NatMin
<1>2. PICK n \in S : low = m - n
  BY <1>1
<1>3. \A k \in S : m - n <= m - k
  BY <1>1, <1>2
<1> QED
  BY <1>2, <1>3

\* What holds of 0, and of every successor of a number it holds of, holds of all.
LEMMA NatInduct ==
    ASSUME NEW S, 0 \in S, \A n \in Nat : n \in S => n + 1 \in S
    PROVE  Nat \subseteq S
<1>1. SUFFICES ASSUME Nat \ S # {}
               PROVE  FALSE
  OBVIOUS
<1>2. PICK n \in Nat \ S : \A m \in Nat \ S : n <= m
  BY <1>1, NatMin
<1>3. n # 0 /\ n - 1 \in Nat /\ (n - 1) + 1 = n
  BY <1>2
<1>4. n - 1 \in S
  BY <1>2, <1>3
<1> QED
  BY <1>2, <1>3, <1>4

\* A function that is defined step by step, from a start, exists: each step maps
\* what there is to what comes next.
Steps(m, V) == [1..m -> [V -> V]]
Iterated(g, start, m, F) == g[0] = start /\ \A n \in 1..m : g[n] = F[n][g[n - 1]]

LEMMA Iterates ==
    ASSUME NEW V, NEW start \in V, NEW m \in Nat, NEW F \in Steps(m, V)
    PROVE  \E g \in [0..m -> V] : Iterated(g, start, m, F)
<1> USE DEF Steps, Iterated
<1> DEFINE Reached == {k \in Nat : k <= m => \E g \in [0..k -> V] : Iterated(g, start, k, F)}
<1>1. 0 \in Reached
  <2> DEFINE g == [n \in 0..0 |-> start]
  <2>1. g \in [0..0 -> V] /\ Iterated(g, start, 0, F)
    OBVIOUS
  <2> QED
    BY <2>1
<1>2. ASSUME NEW k \in Nat, k \in Reached
      PROVE  k + 1 \in Reached
  <2>1. SUFFICES ASSUME k + 1 <= m
                 PROVE  \E g \in [0..(k + 1) -> V] : Iterated(g, start, k + 1, F)
    BY <1>2
  <2>2. PICK g \in [0..k -> V] : Iterated(g, start, k, F)
    BY <1>2, <2>1
  <2> DEFINE h == [n \in 0..(k + 1) |-> IF n = k + 1 THEN F[k + 1][g[k]] ELSE g[n]]
  <2>3. F[k + 1][g[k]] \in V
    BY <2>1, <2>2
  <2>4. h \in [0..(k + 1) -> V] /\ h[0] = start
    BY <2>2, <2>3
  <2>5. ASSUME NEW n \in 1..(k + 1)
        PROVE  h[n] = F[n][h[n - 1]]
    <3>1. CASE n = k + 1
      <4>1. h[n] = F[n][g[k]] /\ h[n - 1] = g[k]
        BY <3>1
      <4> QED
        BY <4>1
    <3>2. CASE n # k + 1
      <4>1. n \in 1..k /\ h[n] = g[n] /\ h[n - 1] = g[n - 1]
        BY <3>2
      <4>2. g[n] = F[n][g[n - 1]]
        BY <2>2, <4>1
      <4> QED
        BY <4>1, <4>2
    <3> QED
      BY <3>1, <3>2
  <2> HIDE DEF h
  <2> QED
    BY <2>4, <2>5
<1> HIDE DEF Reached
<1>3. Nat \subseteq Reached
  BY <1>1, <1>2, NatInduct
<1> USE DEF Reached
<1>4. m \in Reached
  BY <1>3
<1> QED
  BY <1>4

\* Two sets that differ in one element at most.
LEMMA OneMoves ==
    ASSUME NEW S, NEW T, NEW t, IsFiniteSet(S), S \ {t} = T \ {t}
    PROVE  /\ Cardinality(S \ {t}) \in Nat
           /\ Cardinality(S) = Cardinality(S \ {t}) + (IF t \in S THEN 1 ELSE 0)
           /\ Cardinality(T) = Cardinality(S \ {t}) + (IF t \in T THEN 1 ELSE 0)
<1>1. IsFiniteSet(S \ {t}) /\ t \notin S \ {t}
  BY FS_Subset
<1>2. Cardinality(S \ {t}) \in Nat
  BY <1>1, FS_CardinalityType
<1>3. Cardinality((S \ {t}) \cup {t}) = Cardinality(S \ {t}) + 1
  BY <1>1, FS_AddElement
<1>4. (t \in S => S = (S \ {t}) \cup {t}) /\ (t \notin S => S = S \ {t})
  OBVIOUS
<1>5. (t \in T => T = (S \ {t}) \cup {t}) /\ (t \notin T => T = S \ {t})
  OBVIOUS
<1>6. Cardinality(S) = Cardinality(S \ {t}) + (IF t \in S THEN 1 ELSE 0)
  <2>1. CASE t \in S
    BY <1>3, <1>4, <2>1
  <2>2. CASE t \notin S
    BY <1>2, <1>4, <2>2
  <2> QED
    BY <2>1, <2>2
<1>7. Cardinality(T) = Cardinality(S \ {t}) + (IF t \in T THEN 1 ELSE 0)
  <2>1. CASE t \in T
    BY <1>3, <1>5, <2>1
  <2>2. CASE t \notin T
    <3>1. T = S \ {t}
      BY <1>5, <2>2
    <3>2. Cardinality(T) = Cardinality(S \ {t})
      BY <3>1, Zenon
    <3> QED
      BY <1>2, <2>2, <3>2
  <2> QED
    BY <2>1, <2>2
<1> QED
  BY <1>2, <1>6, <1>7

-----------------------------------------------------------------------------
(* A set that grows, step by step, by what is above its members.           *)

Climbs(climb, S, up, steps) ==
    climb = [n \in 0..steps |-> IF n = 0 THEN S ELSE climb[n - 1] \cup up[climb[n - 1]]]

\* A set that has what is above any of its members together.
HasAbove(T, M, up) == \A X \in SUBSET M : X \subseteq T => up[X] \subseteq T

\* The least one that holds all of S.
LeastAbove(T, S, M, up) ==
    /\ T \in SUBSET M /\ S \subseteq T /\ up[T] \subseteq T
    /\ \A R : S \subseteq R /\ HasAbove(R, M, up) => T \subseteq R

LEMMA ClimbExists ==
    ASSUME NEW M, NEW S \in SUBSET M, NEW up \in [SUBSET M -> SUBSET M], NEW steps \in Nat
    PROVE  \E climb \in [0..steps -> SUBSET M] : Climbs(climb, S, up, steps)
<1> DEFINE Grow == [n \in 1..steps |-> [X \in SUBSET M |-> X \cup up[X]]]
           V == SUBSET M
<1>1. \A X \in V : X \cup up[X] \in V
  OBVIOUS
<1>2. Grow \in Steps(steps, V) /\ \A n \in 1..steps, X \in V : Grow[n][X] = X \cup up[X]
  BY <1>1 DEF Steps
<1> HIDE DEF Grow, V
<1>3. S \in V
  BY DEF V
<1>4. PICK g \in [0..steps -> V] : Iterated(g, S, steps, Grow)
  BY <1>2, <1>3, Iterates
<1>5. ASSUME NEW n \in 0..steps
      PROVE  g[n] = IF n = 0 THEN S ELSE g[n - 1] \cup up[g[n - 1]]
  <2>1. CASE n = 0
    BY <1>4, <2>1 DEF Iterated
  <2>2. CASE n # 0
    <3>1. n \in 1..steps /\ g[n - 1] \in V
      BY <1>4, <2>2
    <3>2. g[n] = Grow[n][g[n - 1]]
      BY <1>4, <3>1 DEF Iterated
    <3> QED
      BY <1>2, <2>2, <3>1, <3>2
  <2> QED
    BY <2>1, <2>2
<1>6. Climbs(g, S, up, steps)
  BY <1>4, <1>5 DEF Climbs
<1> QED
  BY <1>4, <1>6 DEF V

\* After as many steps as there can be members, it is the least set that has what it
\* began with and what is above its members.
LEMMA ClimbCloses ==
    ASSUME NEW M, IsFiniteSet(M), NEW S \in SUBSET M, NEW up \in [SUBSET M -> SUBSET M], up[{}] = {},
           NEW steps \in Nat, Cardinality(M) <= steps + 1, NEW climb, Climbs(climb, S, up, steps)
    PROVE  LeastAbove(climb[steps], S, M, up)
<1>1. climb[0] = S /\ \A n \in Nat : n + 1 <= steps => climb[n + 1] = climb[n] \cup up[climb[n]]
  <2>1. \A n \in 0..steps : climb[n] = IF n = 0 THEN S ELSE climb[n - 1] \cup up[climb[n - 1]]
    BY DEF Climbs
  <2>2. climb[0] = S
    <3>1. 0 \in 0..steps
      OBVIOUS
    <3>2. climb[0] = IF 0 = 0 THEN S ELSE climb[0 - 1] \cup up[climb[0 - 1]]
      BY <2>1, <3>1, Zenon
    <3> QED
      BY <3>2, Zenon
  <2>3. ASSUME NEW n \in Nat, n + 1 <= steps
        PROVE  climb[n + 1] = climb[n] \cup up[climb[n]]
    <3>1. n + 1 \in 0..steps /\ n + 1 # 0 /\ (n + 1) - 1 = n
      BY <2>3
    <3> QED
      BY <2>1, <3>1
  <2> QED
    BY <2>2, <2>3
<1> DEFINE Within == {n \in Nat : n <= steps => climb[n] \in SUBSET M /\ S \subseteq climb[n]}
<1>2. steps \in Within
  <2>1. 0 \in Within
    BY <1>1
  <2>2. ASSUME NEW n \in Nat, n \in Within
        PROVE  n + 1 \in Within
    <3>1. SUFFICES ASSUME n + 1 <= steps
                   PROVE  climb[n + 1] \in SUBSET M /\ S \subseteq climb[n + 1]
      BY <2>2
    <3>2. climb[n] \in SUBSET M /\ S \subseteq climb[n] /\ up[climb[n]] \in SUBSET M
      BY <2>2, <3>1
    <3> QED
      BY <1>1, <3>1, <3>2
  <2> HIDE DEF Within
  <2>3. Nat \subseteq Within
    BY <2>1, <2>2, NatInduct
  <2> QED
    BY <2>3
<1>3. ASSUME NEW T, S \subseteq T, HasAbove(T, M, up)
      PROVE  climb[steps] \subseteq T
  <2> DEFINE Inside == {n \in Nat : n <= steps => climb[n] \in SUBSET M /\ climb[n] \subseteq T}
  <2>1. 0 \in Inside
    BY <1>1, <1>3
  <2>2. ASSUME NEW n \in Nat, n \in Inside
        PROVE  n + 1 \in Inside
    <3>1. SUFFICES ASSUME n + 1 <= steps
                   PROVE  climb[n + 1] \in SUBSET M /\ climb[n + 1] \subseteq T
      BY <2>2
    <3>2. climb[n] \in SUBSET M /\ climb[n] \subseteq T /\ up[climb[n]] \in SUBSET M
      BY <2>2, <3>1
    <3>3. up[climb[n]] \subseteq T
      BY <1>3, <3>2 DEF HasAbove
    <3> QED
      BY <1>1, <3>1, <3>2, <3>3
  <2> HIDE DEF Inside
  <2>3. steps \in Inside
    BY <2>1, <2>2, NatInduct
  <2> QED
    BY <2>3 DEF Inside
<1> DEFINE Stable(n) == up[climb[n]] \subseteq climb[n]
           Growing == {n \in Nat : n <= steps => /\ climb[n] \in SUBSET M
                                                 /\ Stable(n) \/ Cardinality(climb[n]) >= n + 1}
<1>4. 0 \in Growing
  <2>1. CASE S = {}
    BY <1>1, <2>1
  <2>2. CASE S # {}
    <3>1. IsFiniteSet(S)
      BY FS_Subset
    <3>2. Cardinality(S) \in Nat /\ Cardinality(S) # 0
      BY <2>2, <3>1, FS_CardinalityType, FS_EmptySet
    <3>3. Cardinality(climb[0]) >= 0 + 1
      BY <1>1, <3>2
    <3> QED
      BY <1>1, <3>3
  <2> QED
    BY <2>1, <2>2
<1>5. ASSUME NEW n \in Nat, n \in Growing
      PROVE  n + 1 \in Growing
  <2>1. SUFFICES ASSUME n + 1 <= steps
                 PROVE  climb[n + 1] \in SUBSET M /\ (Stable(n + 1) \/ Cardinality(climb[n + 1]) >= (n + 1) + 1)
    BY <1>5
  <2>2. climb[n] \in SUBSET M /\ (Stable(n) \/ Cardinality(climb[n]) >= n + 1) /\ up[climb[n]] \in SUBSET M
    BY <1>5, <2>1
  <2>3. climb[n + 1] = climb[n] \cup up[climb[n]] /\ climb[n + 1] \in SUBSET M
    BY <1>1, <2>1, <2>2
  <2>4. CASE Stable(n)
    <3>1. climb[n + 1] = climb[n]
      BY <2>3, <2>4
    <3> QED
      BY <2>3, <2>4, <3>1
  <2>5. CASE ~Stable(n)
    <3>1. IsFiniteSet(climb[n + 1]) /\ IsFiniteSet(climb[n])
      BY <2>2, <2>3, FS_Subset
    <3>2. climb[n] \subseteq climb[n + 1] /\ climb[n] # climb[n + 1]
      BY <2>3, <2>5
    <3>3. Cardinality(climb[n]) \in Nat /\ Cardinality(climb[n + 1]) \in Nat
      BY <3>1, FS_CardinalityType
    <3> DEFINE now == climb[n]
               grown == climb[n + 1]
    <3>4. now \subseteq grown /\ now # grown /\ IsFiniteSet(grown)
      BY <3>1, <3>2
    <3> HIDE DEF now, grown
    <3>5. Cardinality(now) <= Cardinality(grown) /\ Cardinality(now) # Cardinality(grown)
      BY <3>4, FS_Subset
    <3> USE DEF now, grown
    <3>6. Cardinality(climb[n]) < Cardinality(climb[n + 1])
      BY <3>3, <3>5
    <3> QED
      BY <2>2, <2>3, <2>5, <3>3, <3>6
  <2> QED
    BY <2>4, <2>5
<1>6. Stable(steps)
  <2> HIDE DEF Growing
  <2>1. Nat \subseteq Growing
    BY <1>4, <1>5, NatInduct
  <2> USE DEF Growing
  <2>2. climb[steps] \in SUBSET M /\ (Stable(steps) \/ Cardinality(climb[steps]) >= steps + 1)
    BY <2>1
  <2>3. CASE Stable(steps)
    BY <2>3
  <2>4. CASE Cardinality(climb[steps]) >= steps + 1
    <3>1. Cardinality(M) \in Nat /\ Cardinality(climb[steps]) \in Nat /\ IsFiniteSet(climb[steps])
      BY <2>2, FS_Subset, FS_CardinalityType
    <3>2. Cardinality(climb[steps]) >= Cardinality(M)
      BY <2>4, <3>1
    <3>3. climb[steps] = M
      BY <2>2, <3>1, <3>2, FS_Subset
    <3> QED
      BY <2>2, <3>3
  <2> QED
    BY <2>2, <2>3, <2>4
<1> QED
  BY <1>2, <1>3, <1>6 DEF LeastAbove

==============================================================================
