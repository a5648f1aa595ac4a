----------------------- MODULE DependencyLevelsProofs -----------------------
(***************************************************************************)
(* What the levels of a graph are, whoever computes them: there is at most *)
(* one way to level a graph, and none if it has a cycle.                   *)
(***************************************************************************)
EXTENDS DependencyLevels, FiniteSetTheorems, WellFoundedInduction, TLAPS

\* Counting from one ends at the number of what was counted.
LEMMA CountFromOne ==
  ASSUME NEW l \in Nat
  PROVE  IsFiniteSet(1 .. l) /\ Cardinality(1 .. l) = l
<1>1. IsFiniteSet(1 .. l) /\ Cardinality(1 .. l) = IF 1 > l THEN 0 ELSE l - 1 + 1
  BY FS_Interval
<1> DEFINE c == Cardinality(1 .. l)
<1> HIDE DEF c
<1>2. c = IF 1 > l THEN 0 ELSE l - 1 + 1
  BY <1>1 DEF c
<1>3. c = l
  BY <1>2
<1> QED
  BY <1>1, <1>3 DEF c

\* A set of numbers has a least one.
LEMMA LeastNumber ==
  ASSUME NEW T \in SUBSET Nat, T # {}
  PROVE  \E l \in T : \A m \in T : l =< m
<1> DEFINE R == {p \in Nat \X Nat : p[1] < p[2]}
<1>1. IsWellFoundedOn(R, Nat)
  BY NatLessThanWellFounded DEF OpToRel
<1>2. \E l \in T : \A m \in T : ~ (<<m, l>> \in R)
  <2> HIDE DEF R
  <2> QED
    BY <1>1, WFMin
<1>3. PICK l \in T : \A m \in T : <<m, l>> \notin R
  BY <1>2
<1>4. ASSUME NEW m \in T PROVE l =< m
  <2>1. l \in Nat /\ m \in Nat /\ <<m, l>> \notin R
    BY <1>3
  <2>2. ~(m < l)
    BY <2>1
  <2> QED
    BY <2>1, <2>2
<1> QED
  BY <1>4

\* Of some nodes one has the lowest level.
LEMMA LowestNode ==
  ASSUME NEW C, NEW L \in [C -> Nat], NEW S \in SUBSET C, S # {}
  PROVE  \E c \in S : \A d \in S : L[c] =< L[d]
<1> DEFINE T == {L[c] : c \in S}
<1>1. T \in SUBSET Nat /\ T # {}
  OBVIOUS
<1>2. PICK l \in T : \A m \in T : l =< m
  <2> HIDE DEF T
  <2> QED
    BY <1>1, LeastNumber
<1>3. PICK c \in S : l = L[c]
  OBVIOUS
<1> QED
  BY <1>2, <1>3

\* Two levellings of a graph agree: on the lowest node on which they did not, both
\* would stand right above a dependency on which they do.
LEMMA LevelsAreUnique ==
  ASSUME NEW C, NEW D, \A c \in C : D[c] \subseteq C,
         NEW L \in [C -> Nat], LevelledOver(C, D, L),
         NEW M \in [C -> Nat], LevelledOver(C, D, M)
  PROVE  L = M
<1> DEFINE S == {c \in C : L[c] # M[c]}
<1>1. SUFFICES ASSUME S # {} PROVE FALSE
  <2>1. \A c \in C : L[c] = M[c]
    BY <1>1
  <2> QED
    BY <2>1
<1>2. PICK c \in S : \A d \in S : L[c] =< L[d]
  <2> HIDE DEF S
  <2>1. S \in SUBSET C
    BY DEF S
  <2> QED
    BY <1>1, <2>1, LowestNode
<1>3. \A d \in D[c] : L[d] = M[d] /\ L[d] \in Nat /\ L[d] < L[c] /\ M[d] < M[c]
  BY <1>2 DEF LevelledOver
<1>4. L[c] = 0 \/ \E d \in D[c] : L[d] = L[c] - 1
  BY <1>2 DEF LevelledOver
<1>5. M[c] = 0 \/ \E d \in D[c] : M[d] = M[c] - 1
  BY <1>2 DEF LevelledOver
<1>6. L[c] \in Nat /\ M[c] \in Nat /\ L[c] # M[c]
  BY <1>2
<1> QED
  BY <1>3, <1>4, <1>5, <1>6

\* The lowest node of a cycle would need one that is lower.
LEMMA CyclesHaveNoLevels ==
  ASSUME NEW C, NEW D, Cyclic(C, D), NEW L \in [C -> Nat]
  PROVE  ~LevelledOver(C, D, L)
<1>1. PICK S \in SUBSET C : S # {} /\ \A c \in S : D[c] \cap S # {}
  BY DEF Cyclic
<1>2. PICK c \in S : \A d \in S : L[c] =< L[d]
  BY <1>1, LowestNode
<1>3. PICK d \in D[c] : d \in S
  BY <1>1
<1>4. L[c] =< L[d] /\ L[c] \in Nat /\ L[d] \in Nat
  BY <1>2, <1>3
<1> QED
  BY <1>4 DEF LevelledOver

\* A levelling of some nodes, which only depend on each other.
LevelsOf(D, S) == {L \in [S -> 0 .. Cardinality(S) - 1] : LevelledOver(S, D, L)}
Levellable(C, D, S) == S \subseteq C /\ (\A c \in S : D[c] \subseteq S) /\ LevelsOf(D, S) # {}

\* A node that depends on levelled nodes only gets the least level above them all.
LEMMA OneMoreLevelled ==
  ASSUME NEW C, NEW D, IsFiniteSet(C), NEW S, Levellable(C, D, S),
         NEW n \in C \ S, D[n] \subseteq S
  PROVE  Levellable(C, D, S \cup {n})
<1>1. S \subseteq C /\ (\A c \in S : D[c] \subseteq S) /\ IsFiniteSet(S)
  BY FS_Subset DEF Levellable
<1> DEFINE N == Cardinality(S)
<1>2. N \in Nat /\ Cardinality(S \cup {n}) = N + 1
  BY <1>1, FS_CardinalityType, FS_AddElement
<1>3. PICK L \in [S -> 0 .. N - 1] : LevelledOver(S, D, L)
  BY DEF Levellable, LevelsOf
<1> HIDE DEF N
<1> DEFINE U == {u \in Nat : \A d \in D[n] : L[d] < u}
<1>4. N \in U
  BY <1>1, <1>2, <1>3
<1>5. PICK u \in U : \A v \in U : u =< v
  <2>1. U \in SUBSET Nat /\ U # {}
    BY <1>4
  <2> HIDE DEF U
  <2> QED
    BY <2>1, LeastNumber
<1>6. u \in 0 .. N
  BY <1>2, <1>4, <1>5
<1>7. u = 0 \/ \E d \in D[n] : L[d] = u - 1
  <2> SUFFICES ASSUME u # 0 PROVE \E d \in D[n] : L[d] = u - 1
    OBVIOUS
  <2>1. u - 1 \in Nat /\ ~(u =< u - 1)
    BY <1>6
  <2>2. u - 1 \notin U
    BY <1>5, <2>1
  <2>3. PICK d \in D[n] : ~(L[d] < u - 1)
    BY <2>1, <2>2
  <2>4. L[d] \in 0 .. N - 1 /\ L[d] < u
    BY <1>3, <1>5, <2>3
  <2>5. L[d] = u - 1
    BY <1>2, <1>6, <2>3, <2>4
  <2> QED
    BY <2>5
<1>8. \A d \in D[n] : L[d] < u
  BY <1>5
<1> HIDE DEF U
<1> DEFINE M == [c \in S \cup {n} |-> IF c = n THEN u ELSE L[c]]
<1>9. M \in [S \cup {n} -> 0 .. (N + 1) - 1]
  <2>1. 0 .. N - 1 \subseteq 0 .. (N + 1) - 1 /\ u \in 0 .. (N + 1) - 1
    BY <1>2, <1>6
  <2>2. \A c \in S : L[c] \in 0 .. (N + 1) - 1
    BY <1>3, <2>1
  <2> QED
    BY <2>1, <2>2
<1>10. M[n] = u /\ \A c \in S : M[c] = L[c]
  OBVIOUS
<1> HIDE DEF M
<1>11. LevelledOver(S \cup {n}, D, M)
  <2> SUFFICES ASSUME NEW c \in S \cup {n}
               PROVE  /\ \A d \in D[c] : M[d] < M[c]
                      /\ M[c] = 0 \/ \E d \in D[c] : M[d] = M[c] - 1
    BY DEF LevelledOver
  <2>1. CASE c = n
    BY <1>7, <1>8, <1>10, <2>1
  <2>2. CASE c \in S
    <3>1. /\ \A d \in D[c] : L[d] < L[c]
          /\ L[c] = 0 \/ \E d \in D[c] : L[d] = L[c] - 1
      BY <1>3, <2>2 DEF LevelledOver
    <3> QED
      BY <1>1, <1>10, <2>2, <3>1
  <2> QED
    BY <2>1, <2>2
<1> QED
  BY <1>1, <1>2, <1>9, <1>11 DEF Levellable, LevelsOf, N

\* A graph without a cycle has levels: of the sets that can be levelled take one that
\* leaves out the fewest nodes; were there any, one of them could be added.
LEMMA AcyclicHasLevels ==
  ASSUME NEW C, NEW D, IsFiniteSet(C), \A c \in C : D[c] \subseteq C, ~Cyclic(C, D)
  PROVE  LevelsOf(D, C) # {}
<1> DEFINE T == {Cardinality(C \ S) : S \in {S \in SUBSET C : Levellable(C, D, S)}}
<1>1. \A S \in SUBSET C : IsFiniteSet(C \ S) /\ Cardinality(C \ S) \in Nat
  BY FS_Difference, FS_CardinalityType
<1>2. Levellable(C, D, {})
  <2> DEFINE L == [c \in {} |-> 0]
  <2>1. L \in [{} -> 0 .. Cardinality({}) - 1] /\ LevelledOver({}, D, L)
    BY DEF LevelledOver
  <2> QED
    BY <2>1 DEF Levellable, LevelsOf
<1>3. T \in SUBSET Nat /\ T # {}
  BY <1>1, <1>2
<1>4. PICK l \in T : \A m \in T : l =< m
  <2> HIDE DEF T
  <2> QED
    BY <1>3, LeastNumber
<1>5. PICK S \in SUBSET C : Levellable(C, D, S) /\ l = Cardinality(C \ S)
  OBVIOUS
<1>6. C \ S = {}
  <2> SUFFICES ASSUME C \ S # {} PROVE FALSE
    OBVIOUS
  <2>1. PICK n \in C \ S : D[n] \cap (C \ S) = {}
    BY DEF Cyclic
  <2>2. D[n] \subseteq S
    BY <2>1
  <2>3. Levellable(C, D, S \cup {n})
    BY <1>5, <2>2, OneMoreLevelled
  <2>4. C \ (S \cup {n}) = (C \ S) \ {n}
    OBVIOUS
  <2>5. Cardinality((C \ S) \ {n}) = Cardinality(C \ S) - 1
    BY <1>1, FS_RemoveElement
  <2>6. Cardinality(C \ (S \cup {n})) \in T
    BY <2>3
  <2>7. l =< Cardinality(C \ S) - 1
    BY <1>4, <2>4, <2>5, <2>6
  <2>8. l \in Nat
    BY <1>1, <1>5
  <2> QED
    BY <1>5, <2>7, <2>8
<1>7. S = C
  BY <1>6
<1> QED
  BY <1>5, <1>7 DEF Levellable

\* A finite graph has levels exactly when it has no cycle, and then it has one
\* levelling, however it is found: what the controller scales by is what
\* computeScalingLevels computes.
THEOREM LevelsExistOnce ==
  ASSUME NEW C, NEW D, IsFiniteSet(C), \A c \in C : D[c] \subseteq C
  PROVE  /\ LevelsOf(D, C) # {} <=> ~Cyclic(C, D)
         /\ \A L \in LevelsOf(D, C) : \A M \in [C -> Nat] : LevelledOver(C, D, M) => M = L
<1>1. Cardinality(C) \in Nat
  BY FS_CardinalityType
<1>2. 0 .. Cardinality(C) - 1 \subseteq Nat
  BY <1>1
<1>3. \A L \in LevelsOf(D, C) : L \in [C -> Nat] /\ LevelledOver(C, D, L)
  BY <1>2 DEF LevelsOf
<1>4. LevelsOf(D, C) # {} => ~Cyclic(C, D)
  BY <1>3, CyclesHaveNoLevels
<1>5. ~Cyclic(C, D) => LevelsOf(D, C) # {}
  BY AcyclicHasLevels
<1>6. ASSUME NEW L \in LevelsOf(D, C), NEW M \in [C -> Nat], LevelledOver(C, D, M)
      PROVE  M = L
  BY <1>3, <1>6, LevelsAreUnique
<1> QED
  BY <1>4, <1>5, <1>6
=============================================================================
