------------------------ MODULE ScalingLevelsProofs ------------------------
(***************************************************************************)
(* The verdict on a dependency graph and the levels made of it, for every  *)
(* list of components and whatever order the maps are visited in.          *)
(*                                                                         *)
(* The search.  Whatever it has left depends on what it has left only, and *)
(* no part of that is cyclic; a node that is left joins it above all of    *)
(* it.  What is on the stack is a path, so meeting it again closes a       *)
(* cycle.                                                                  *)
(*                                                                         *)
(* The peeling.  An in-degree counts the entries of a list that have still *)
(* to be peeled, and the queue is what waits for nothing.  Were a node     *)
(* left over in the end, each such node would wait for another, in a       *)
(* circle the search has ruled out.                                        *)
(***************************************************************************)
EXTENDS ScalingLevels, VersionLemmas, DependencyLevelsProofs

(***************************************************************************)
(* The inductive invariant                                                 *)
(***************************************************************************)
\* What the phases have found out about the list.
Searched == pc \in {"kahn", "ok"}

Findings ==
  /\ pc \in {"dfs", "kahn", "ok"} => ~Duplicate /\ ~Unknown
  /\ Searched => ~Cyclic(Names, Deps)
  /\ pc = "error" => Duplicate \/ Unknown \/ Cyclic(Names, Deps)
  /\ pc = "build" => path = <<>> /\ visited = {}

\* The stack is a path in the graph, and holds what has not been left.
Path ==
  /\ recStack = Range(path) /\ recStack \subseteq visited
  /\ \A i, j \in 1 .. Len(path) : path[i] = path[j] => i = j
  /\ \A i \in 1 .. Len(path) - 1 : path[i + 1] \in Deps[path[i]]
  /\ \A i \in 1 .. Len(path) : Range(rest[i]) \subseteq Deps[path[i]]

\* What has been left is closed and without a cycle.
Left == visited \ recStack

LeftIsSound == (\A n \in Left : Deps[n] \subseteq Left) /\ ~Cyclic(Left, Deps)

\* A node on the stack has looked at its dependencies but for the rest and, unless it
\* is the innermost, the one the search has entered from there.
Looked ==
  \A i \in 1 .. Len(path) : \A d \in Deps[path[i]] :
    d \in Left \cup Range(rest[i]) \/ (i < Len(path) /\ d = path[i + 1])

\* The nodes that have got a level, and those whose dependents know.
Placed == UNION Range(levels)
Peeled == Placed \ current

\* An in-degree counts the entries that have still to be peeled; the queue holds what
\* waits for none.
Waiting(n) == {i \in 1 .. Len(List(n)) : List(n)[i] \notin Peeled}

Counted ==
  Searched =>
    /\ \A n \in Names : inDegree[n] = Cardinality(Waiting(n))
    /\ queue = {n \in Names \ Placed : Deps[n] \subseteq Peeled}

\* Every level stands right above the one before it.
Stacked ==
  Searched =>
    /\ \A j, k \in 1 .. Len(levels) : \A n \in levels[j] \cap levels[k] : j = k
    /\ \A k \in 1 .. Len(levels) : \A n \in levels[k] :
         /\ \A d \in Deps[n] : d \in Peeled /\ \E j \in 1 .. k - 1 : d \in levels[j]
         /\ k > 1 => \E d \in Deps[n] : d \in levels[k - 1]
    /\ levels # <<>> => \A n \in queue : \E d \in Deps[n] : d \in Last(levels)
    /\ IF levels = <<>> THEN current = {} ELSE current \subseteq Last(levels)
    /\ pc = "ok" => Placed = Names

Untouched == ~Searched => levels = <<>> /\ current = {} /\ queue = {}

Inv ==
  /\ TypeOK /\ Findings /\ Path /\ LeftIsSound /\ Looked
  /\ Counted /\ Stacked /\ Untouched /\ CycleIsReported

(***************************************************************************)
(* The list and the graph                                                  *)
(***************************************************************************)
\* The lists of dependencies are sequences of names, and of names that are listed once
\* that has been found out.
LEMMA Listed ==
  ASSUME spec \in Specs
  PROVE  /\ \A n \in Names : List(n) \in Seq(STRING) /\ Deps[n] = Range(List(n))
         /\ ~Unknown => \A n \in Names : List(n) \in Seq(Names) /\ Deps[n] \subseteq Names
<1>1. spec \in Seq(ComponentType)
  BY SpecsAssumption
<1>2. \A n \in Names : \E i \in DOMAIN spec : List(n) = spec[i].dependsOn
  <2> SUFFICES ASSUME NEW n \in Names
               PROVE  \E i \in DOMAIN spec : List(n) = spec[i].dependsOn
    OBVIOUS
  <2>1. \E i \in DOMAIN spec : spec[i].name = n
    BY DEF Names
  <2> QED
    BY <2>1 DEF List
<1>3. \A i \in DOMAIN spec : spec[i].dependsOn \in Seq(STRING)
  <2> SUFFICES ASSUME NEW i \in DOMAIN spec PROVE spec[i].dependsOn \in Seq(STRING)
    OBVIOUS
  <2>1. i \in 1 .. Len(spec)
    BY <1>1, LenProperties
  <2>2. spec[i] \in ComponentType
    BY <1>1, <2>1, ElementOfSeq
  <2> QED
    BY <2>2 DEF ComponentType
<1>4. \A n \in Names : List(n) \in Seq(STRING)
  BY <1>2, <1>3
<1>5. \A n \in Names : Deps[n] = Range(List(n))
  BY DEF Deps
<1>6. ASSUME ~Unknown, NEW n \in Names
      PROVE  List(n) \in Seq(Names) /\ Deps[n] \subseteq Names
  <2>1. Range(List(n)) \subseteq Names
    BY <1>2, <1>6 DEF Unknown
  <2>2. List(n) \in Seq(Range(List(n)))
    BY <1>4, SeqOfRange
  <2>3. List(n) \in Seq(Names)
    BY <2>1, <2>2
  <2> QED
    BY <1>5, <2>1, <2>3
<1> QED
  BY <1>4, <1>5, <1>6

\* No step touches the list, so the graph stays what it is.
LEMMA SameList ==
  ASSUME [Next]_vars
  PROVE  /\ spec' = spec /\ Names' = Names /\ Deps' = Deps
         /\ Duplicate' = Duplicate /\ Unknown' = Unknown
         /\ \A n : List(n)' = List(n)
<1>1. spec' = spec
  BY DEF Next, vars, Build, Look, Return, Accept, NextLevel, Finish, Done, Start, Peel
<1> QED
  BY <1>1 DEF Names, Deps, Duplicate, Unknown, List

\* What the innermost frame leaves.
LEMMA FrontOf ==
  ASSUME NEW T, NEW s \in Seq(T), s # <<>>
  PROVE  /\ Front(s) \in Seq(T) /\ Len(Front(s)) = Len(s) - 1
         /\ \A i \in 1 .. Len(s) - 1 : Front(s)[i] = s[i]
         /\ Len(s) \in Nat \ {0} /\ Last(s) = s[Len(s)] /\ Last(s) \in T
<1>1. Len(s) \in Nat \ {0} /\ \A i \in 1 .. Len(s) : s[i] \in T
  BY EmptySeq, ElementOfSeq, LenProperties
<1>2. Front(s) = SubSeq(s, 1, Len(s) - 1)
  BY DEF Front
<1>3. \A i \in 1 .. Len(s) - 1 : s[i] \in T
  BY <1>1
<1>4. /\ Front(s) \in Seq(T)
      /\ Len(Front(s)) = IF 1 =< Len(s) - 1 THEN Len(s) - 1 - 1 + 1 ELSE 0
      /\ \A i \in 1 .. Len(s) - 1 - 1 + 1 : Front(s)[i] = s[1 + i - 1]
  BY <1>1, <1>2, <1>3, SubSeqProperties
<1>5. \A i \in 1 .. Len(s) - 1 : Front(s)[i] = s[i]
  <2> SUFFICES ASSUME NEW i \in 1 .. Len(s) - 1 PROVE Front(s)[i] = s[i]
    OBVIOUS
  <2>1. i \in 1 .. Len(s) - 1 - 1 + 1 /\ 1 + i - 1 = i
    BY <1>1
  <2> QED
    BY <1>4, <2>1
<1>6. Len(Front(s)) = Len(s) - 1
  <2> DEFINE m == Len(s)
             l == Len(Front(s))
  <2>1. m \in Nat \ {0} /\ l = IF 1 =< m - 1 THEN m - 1 - 1 + 1 ELSE 0
    BY <1>1, <1>4
  <2> HIDE DEF m, l
  <2>2. l = m - 1
    BY <2>1
  <2> QED
    BY <2>2 DEF m, l
<1>7. Last(s) = s[Len(s)] /\ Len(s) \in 1 .. Len(s)
  BY <1>1 DEF Last
<1> QED
  BY <1>1, <1>4, <1>5, <1>6, <1>7

\* The innermost frame has looked at one more dependency.
LEMMA MovedFrame ==
  ASSUME NEW T, NEW q \in Seq(Seq(T)), q # <<>>, Last(q) # <<>>
  PROVE  LET moved == [q EXCEPT ![Len(q)] = Tail(@)]
         IN  /\ moved \in Seq(Seq(T)) /\ Len(moved) = Len(q)
             /\ \A i \in 1 .. Len(q) - 1 : moved[i] = q[i]
             /\ Head(Last(q)) \in T
             /\ Range(q[Len(q)]) = {Head(Last(q))} \cup Range(moved[Len(q)])
<1> DEFINE t == Tail(q[Len(q)])
           moved == [q EXCEPT ![Len(q)] = t]
<1>1. Len(q) \in Nat \ {0} /\ Last(q) = q[Len(q)] /\ Last(q) \in Seq(T)
  BY FrontOf
<1>2. /\ t \in Seq(T) /\ Head(Last(q)) \in T
      /\ Range(q[Len(q)]) = {Head(Last(q))} \cup Range(t)
  BY <1>1, HeadAndTail
<1> HIDE DEF t
<1>3. moved \in Seq(Seq(T)) /\ Len(moved) = Len(q)
      /\ \A i \in 1 .. Len(q) : moved[i] = IF i = Len(q) THEN t ELSE q[i]
  BY <1>1, <1>2, ExceptSeq
<1>4. \A i \in 1 .. Len(q) - 1 : i \in 1 .. Len(q) /\ i # Len(q)
  BY <1>1
<1>5. Len(q) \in 1 .. Len(q)
  BY <1>1
<1>6. moved[Len(q)] = t
  BY <1>3, <1>5
<1> QED
  BY <1>2, <1>3, <1>4, <1>6 DEF t
(***************************************************************************)
(* The search                                                              *)
(***************************************************************************)
\* The search goes into a node it has not visited: the node joins the stack, and what
\* has been left stays.
LEMMA PushStep ==
  ASSUME TypeOK, Findings, Path, LeftIsSound, Looked, [Next]_vars, pc = "dfs",
         NEW n \in Names \ visited, NEW frames \in Seq(Seq(Names)),
         Len(frames) = Len(path), \A i \in 1 .. Len(path) - 1 : frames[i] = rest[i],
         path # <<>> => Range(rest[Len(path)]) = {n} \cup Range(frames[Len(path)]),
         Visit(n, frames)
  PROVE  /\ path' \in Seq(Names) /\ rest' \in Seq(Seq(Names)) /\ Len(rest') = Len(path')
         /\ Path' /\ LeftIsSound' /\ Looked'
<1> DEFINE k == Len(path)
<1>1. path \in Seq(Names) /\ k \in Nat /\ spec \in Specs
  BY DEF TypeOK
<1>2. List(n) \in Seq(Names) /\ \A m \in Names : Deps[m] = Range(List(m))
  BY <1>1, Listed DEF Findings
<1>3. /\ path' \in Seq(Names) /\ Len(path') = k + 1 /\ path'[k + 1] = n
      /\ \A i \in 1 .. k : path'[i] = path[i]
      /\ Range(path') = Range(path) \cup {n}
  BY <1>1, AppendProperties, RangeOfAppend DEF Visit
<1>4. /\ rest' \in Seq(Seq(Names)) /\ Len(rest') = k + 1 /\ rest'[k + 1] = List(n)
      /\ \A i \in 1 .. k : rest'[i] = frames[i]
  BY <1>2, AppendProperties DEF Visit
<1>5. Names' = Names /\ Deps' = Deps
  BY SameList
<1>6. Range(path) = {path[i] : i \in 1 .. k} /\ \A i \in 1 .. k : path[i] \in Names
  BY <1>1, RangeEquality, ElementOfSeq
<1>7. recStack = Range(path) /\ recStack \subseteq visited /\ n \notin Range(path)
  BY DEF Path
<1>8. visited' = visited \cup {n} /\ recStack' = recStack \cup {n} /\ Left' = Left
  BY <1>7 DEF Visit, Left
<1>9. k # 0 => path # <<>>
  BY <1>1, EmptySeq
<1> DEFINE Edge(i) == path'[i + 1] \in Deps[path'[i]]
           Frame(i) == Range(rest'[i]) \subseteq Deps[path'[i]]
           Done1(i) == \A d \in Deps[path'[i]] :
             d \in Left \cup Range(rest'[i]) \/ (i < k + 1 /\ d = path'[i + 1])
<1>10. \A i, j \in 1 .. k + 1 : path'[i] = path'[j] => i = j
  <2> SUFFICES ASSUME NEW i \in 1 .. k + 1, NEW j \in 1 .. k + 1, path'[i] = path'[j]
               PROVE  i = j
    OBVIOUS
  <2>1. CASE i \in 1 .. k /\ j \in 1 .. k
    BY <1>3, <2>1 DEF Path
  <2>2. CASE i = k + 1 /\ j \in 1 .. k
    <3>1. path[j] = n
      BY <1>3, <2>2
    <3> QED
      BY <1>6, <1>7, <2>2, <3>1
  <2>3. CASE j = k + 1 /\ i \in 1 .. k
    <3>1. path[i] = n
      BY <1>3, <2>3
    <3> QED
      BY <1>6, <1>7, <2>3, <3>1
  <2> QED
    BY <1>1, <2>1, <2>2, <2>3
<1>11. \A i \in 1 .. k - 1 : Edge(i) /\ Frame(i) /\ Done1(i)
  <2> SUFFICES ASSUME NEW i \in 1 .. k - 1 PROVE Edge(i) /\ Frame(i) /\ Done1(i)
    OBVIOUS
  <2>1. i \in 1 .. k /\ i + 1 \in 1 .. k /\ i < k /\ i < k + 1
    BY <1>1
  <2>2. path'[i] = path[i] /\ path'[i + 1] = path[i + 1] /\ rest'[i] = rest[i]
    BY <1>3, <1>4, <2>1
  <2>3. path[i + 1] \in Deps[path[i]] /\ Range(rest[i]) \subseteq Deps[path[i]]
    BY <2>1 DEF Path
  <2>4. \A d \in Deps[path[i]] : d \in Left \cup Range(rest[i]) \/ d = path[i + 1]
    BY <2>1 DEF Looked
  <2> QED
    BY <2>1, <2>2, <2>3, <2>4
<1>12. k # 0 => Edge(k) /\ Frame(k) /\ Done1(k)
  <2> SUFFICES ASSUME k # 0 PROVE Edge(k) /\ Frame(k) /\ Done1(k)
    OBVIOUS
  <2>1. k \in 1 .. k /\ ~(k < k) /\ k < k + 1
    BY <1>1
  <2>2. path'[k] = path[k] /\ path'[k + 1] = n /\ rest'[k] = frames[k]
    BY <1>3, <1>4, <2>1
  <2>3. Range(rest[k]) = {n} \cup Range(frames[k])
    BY <1>9
  <2>4. Range(rest[k]) \subseteq Deps[path[k]]
    BY <2>1 DEF Path
  <2>5. \A d \in Deps[path[k]] : d \in Left \cup Range(rest[k])
    BY <2>1 DEF Looked
  <2> QED
    BY <2>1, <2>2, <2>3, <2>4, <2>5
<1>13. Frame(k + 1) /\ Done1(k + 1)
  BY <1>2, <1>3, <1>4
<1>14. /\ \A i \in 1 .. k : Edge(i)
       /\ \A i \in 1 .. k + 1 : Frame(i) /\ Done1(i)
  <2> HIDE DEF Edge, Frame, Done1
  <2>1. \A i \in 1 .. k + 1 : i \in 1 .. k - 1 \/ (i = k /\ k # 0) \/ i = k + 1
    BY <1>1
  <2>2. \A i \in 1 .. k : i \in 1 .. k - 1 \/ (i = k /\ k # 0)
    BY <1>1
  <2> QED
    BY <1>11, <1>12, <1>13, <2>1, <2>2
<1>15. Path'
  <2>1. Len(path') - 1 = k
    BY <1>1, <1>3
  <2> QED
    BY <1>3, <1>5, <1>7, <1>8, <1>10, <1>14, <2>1 DEF Path
<1>16. LeftIsSound'
  BY <1>5, <1>8 DEF LeftIsSound
<1>17. Looked'
  BY <1>3, <1>5, <1>8, <1>14 DEF Looked
<1> QED
  BY <1>3, <1>4, <1>15, <1>16, <1>17
\* A dependency that has been left needs no second look.
LEMMA SkipStep ==
  ASSUME TypeOK, Path, LeftIsSound, Looked, [Next]_vars, path # <<>>, Last(rest) # <<>>,
         Head(Last(rest)) \in Left,
         rest' = [rest EXCEPT ![Len(rest)] = Tail(@)],
         UNCHANGED <<visited, recStack, path>>
  PROVE  /\ rest' \in Seq(Seq(Names)) /\ Len(rest') = Len(path')
         /\ Path' /\ LeftIsSound' /\ Looked'
<1> DEFINE k == Len(path)
           d == Head(Last(rest))
<1>1. /\ path \in Seq(Names) /\ rest \in Seq(Seq(Names)) /\ Len(rest) = k
      /\ k \in Nat \ {0} /\ rest # <<>>
  BY EmptySeq DEF TypeOK
<1>2. /\ rest' \in Seq(Seq(Names)) /\ Len(rest') = k
      /\ \A i \in 1 .. k - 1 : rest'[i] = rest[i]
      /\ Range(rest[k]) = {d} \cup Range(rest'[k])
  BY <1>1, MovedFrame
<1>3. \A i \in 1 .. k : Range(rest'[i]) \subseteq Range(rest[i])
                        /\ Range(rest[i]) \subseteq Left \cup Range(rest'[i])
  <2> SUFFICES ASSUME NEW i \in 1 .. k
               PROVE  Range(rest'[i]) \subseteq Range(rest[i])
                      /\ Range(rest[i]) \subseteq Left \cup Range(rest'[i])
    OBVIOUS
  <2>1. i = k \/ i \in 1 .. k - 1
    BY <1>1
  <2> QED
    BY <1>2, <2>1
<1>4. Names' = Names /\ Deps' = Deps /\ Left' = Left
  BY SameList DEF Left
<1>5. Path'
  BY <1>3, <1>4 DEF Path
<1>6. LeftIsSound' /\ Looked'
  BY <1>3, <1>4 DEF LeftIsSound, Looked
<1> QED
  BY <1>2, <1>5, <1>6

\* A dependency that is on the stack closes a cycle, which is the end of the path.
LEMMA CloseStep ==
  ASSUME TypeOK, Path, path # <<>>, Last(rest) # <<>>, Head(Last(rest)) \in recStack
  PROVE  /\ Cyclic(Names, Deps)
         /\ \E i \in DOMAIN path :
              /\ path[i] = Head(Last(rest)) /\ Head(Last(rest)) \in Deps[Last(path)]
              /\ \A j \in i .. Len(path) - 1 : path[j + 1] \in Deps[path[j]]
<1> DEFINE k == Len(path)
           d == Head(Last(rest))
<1>1. /\ path \in Seq(Names) /\ rest \in Seq(Seq(Names)) /\ Len(rest) = k
      /\ k \in Nat \ {0} /\ rest # <<>>
  BY EmptySeq DEF TypeOK
<1>2. d \in Range(rest[k])
  <2>1. Last(rest) = rest[Len(rest)] /\ Last(rest) \in Seq(Names)
    BY <1>1, FrontOf
  <2>2. d \in Range(Last(rest))
    BY <2>1, HeadAndTail
  <2> QED
    BY <1>1, <2>1, <2>2
<1>3. Last(path) = path[k] /\ d \in Deps[path[k]] /\ k \in 1 .. k
  <2>1. k \in 1 .. k
    BY <1>1
  <2>2. Last(path) = path[k]
    BY <1>1, FrontOf
  <2>3. Range(rest[k]) \subseteq Deps[path[k]]
    BY <2>1 DEF Path
  <2> QED
    BY <1>2, <2>1, <2>2, <2>3
<1>4. DOMAIN path = 1 .. k /\ Range(path) = {path[i] : i \in 1 .. k}
      /\ \A i \in 1 .. k : path[i] \in Names
  BY <1>1, RangeEquality, ElementOfSeq
<1>5. PICK i \in 1 .. k : path[i] = d
  BY <1>4 DEF Path
<1>6. \A j \in i .. k - 1 : path[j + 1] \in Deps[path[j]]
  <2> SUFFICES ASSUME NEW j \in i .. k - 1 PROVE path[j + 1] \in Deps[path[j]]
    OBVIOUS
  <2>1. j \in 1 .. k - 1
    BY <1>1
  <2> QED
    BY <2>1 DEF Path
<1> DEFINE S == {path[j] : j \in i .. k}
<1>7. S \in SUBSET Names /\ S # {}
  <2>1. i \in i .. k /\ \A j \in i .. k : j \in 1 .. k
    BY <1>1
  <2> QED
    BY <1>4, <2>1
<1>8. ASSUME NEW c \in S PROVE Deps[c] \cap S # {}
  <2>1. PICK j \in i .. k : c = path[j]
    OBVIOUS
  <2>2. CASE j = k
    <3>1. path[i] \in S
      BY <1>1
    <3> QED
      BY <1>3, <1>5, <2>1, <2>2, <3>1
  <2>3. CASE j # k
    <3>1. j \in i .. k - 1 /\ j + 1 \in i .. k
      BY <1>1, <2>3
    <3> QED
      BY <1>6, <2>1, <3>1
  <2> QED
    BY <2>2, <2>3
<1>9. Cyclic(Names, Deps)
  BY <1>7, <1>8 DEF Cyclic
<1> QED
  BY <1>3, <1>4, <1>5, <1>6, <1>9

\* A set without a cycle stays one when a node joins it that depends on it only.
LEMMA JoinedAbove ==
  ASSUME NEW L, NEW D, NEW n, ~Cyclic(L, D), n \notin L,
         \A c \in L : D[c] \subseteq L, D[n] \subseteq L
  PROVE  ~Cyclic(L \cup {n}, D)
<1> SUFFICES ASSUME NEW S \in SUBSET (L \cup {n}), S # {}, \A c \in S : D[c] \cap S # {}
             PROVE  FALSE
  BY DEF Cyclic
<1>1. \A c \in S : D[c] \cap S \subseteq S \cap L
  OBVIOUS
<1>2. S \cap L # {}
  BY <1>1
<1>3. \A c \in S \cap L : D[c] \cap (S \cap L) # {}
  BY <1>1
<1> QED
  BY <1>2, <1>3 DEF Cyclic

\* A node that is left joins what has been left above all of it.
LEMMA ReturnStep ==
  ASSUME TypeOK, Path, LeftIsSound, Looked, [Next]_vars, Return
  PROVE  /\ path' \in Seq(Names) /\ rest' \in Seq(Seq(Names)) /\ Len(rest') = Len(path')
         /\ Path' /\ LeftIsSound' /\ Looked'
<1> DEFINE k == Len(path)
           n == path[k]
<1>1. /\ path \in Seq(Names) /\ rest \in Seq(Seq(Names)) /\ Len(rest) = k
      /\ k \in Nat \ {0} /\ path # <<>> /\ rest # <<>>
  BY EmptySeq DEF TypeOK, Return
<1>2. /\ path' \in Seq(Names) /\ Len(path') = k - 1 /\ Last(path) = n
      /\ \A i \in 1 .. k - 1 : path'[i] = path[i]
  BY <1>1, FrontOf DEF Return
<1>3. /\ rest' \in Seq(Seq(Names)) /\ Len(rest') = k - 1 /\ rest[k] = <<>>
      /\ \A i \in 1 .. k - 1 : rest'[i] = rest[i]
  BY <1>1, FrontOf DEF Return
<1>4. Names' = Names /\ Deps' = Deps
  BY SameList
<1>5. /\ Range(path) = {path[i] : i \in 1 .. k}
      /\ Range(path') = {path'[i] : i \in 1 .. k - 1}
  BY <1>1, <1>2, RangeEquality
<1>6. recStack' = recStack \ {n} /\ visited' = visited
  BY <1>2 DEF Return, Leave
<1>7. k \in 1 .. k /\ \A i \in 1 .. k - 1 : i \in 1 .. k /\ i # k /\ i < k
                                             /\ i + 1 \in 1 .. k
  BY <1>1
<1>8. \A i \in 1 .. k : i = k \/ i \in 1 .. k - 1
  BY <1>1
<1>9. recStack' = Range(path')
  <2>1. \A i \in 1 .. k - 1 : path[i] # n
    BY <1>7 DEF Path
  <2>2. Range(path) \ {n} = {path[i] : i \in 1 .. k - 1}
    BY <1>5, <1>7, <1>8, <2>1
  <2> QED
    BY <1>2, <1>5, <1>6, <2>2 DEF Path
<1>10. n \in recStack /\ Left' = Left \cup {n} /\ n \notin Left
  BY <1>5, <1>6, <1>7 DEF Path, Left
<1>11. Deps[n] \subseteq Left
  <2>1. Range(rest[k]) = {}
    BY <1>3 DEF Range
  <2> QED
    BY <1>7, <2>1 DEF Looked
<1>12. LeftIsSound'
  <2>1. ~Cyclic(Left \cup {n}, Deps)
    BY <1>10, <1>11, JoinedAbove DEF LeftIsSound
  <2> QED
    BY <1>4, <1>10, <1>11, <2>1 DEF LeftIsSound
<1>13. Path'
  <2>1. \A i, j \in 1 .. k - 1 : path'[i] = path'[j] => i = j
    BY <1>2, <1>7 DEF Path
  <2>2. \A i \in 1 .. (k - 1) - 1 : path'[i + 1] \in Deps[path'[i]]
    <3> SUFFICES ASSUME NEW i \in 1 .. (k - 1) - 1
                 PROVE  path'[i + 1] \in Deps[path'[i]]
      OBVIOUS
    <3>1. i \in 1 .. k - 1 /\ i + 1 \in 1 .. k - 1
      BY <1>1
    <3> QED
      BY <1>2, <3>1 DEF Path
  <2>3. \A i \in 1 .. k - 1 : Range(rest'[i]) \subseteq Deps[path'[i]]
    BY <1>2, <1>3, <1>7 DEF Path
  <2> QED
    BY <1>2, <1>4, <1>6, <1>9, <2>1, <2>2, <2>3 DEF Path
<1>14. Looked'
  <2> SUFFICES ASSUME NEW i \in 1 .. k - 1, NEW d \in Deps[path[i]]
               PROVE  \/ d \in Left \cup {n} \cup Range(rest[i])
                      \/ i < k - 1 /\ d = path'[i + 1]
    BY <1>2, <1>3, <1>4, <1>10 DEF Looked
  <2>1. d \in Left \cup Range(rest[i]) \/ d = path[i + 1]
    BY <1>7 DEF Looked
  <2>2. i = k - 1 => i + 1 = k
    BY <1>1
  <2>3. i # k - 1 => i < k - 1 /\ i + 1 \in 1 .. k - 1
    BY <1>1
  <2> QED
    BY <1>2, <2>1, <2>2, <2>3
<1> QED
  BY <1>2, <1>3, <1>12, <1>13, <1>14
(***************************************************************************)
(* The steps of the search preserve the invariant                          *)
(***************************************************************************)
\* A step that stays in the search leaves the peeling where it starts.
LEMMA StillSearching ==
  ASSUME Inv, [Next]_vars, pc = "dfs", pc' = "dfs", UNCHANGED peeling,
         visited' \subseteq Names, recStack' \subseteq Names,
         path' \in Seq(Names), rest' \in Seq(Seq(Names)), Len(rest') = Len(path'),
         Path', LeftIsSound', Looked'
  PROVE  Inv'
<1>1. spec' = spec /\ Names' = Names /\ Deps' = Deps
      /\ Duplicate' = Duplicate /\ Unknown' = Unknown
  BY SameList
<1>2. levels' = levels /\ current' = current /\ queue' = queue
  BY DEF peeling
<1>3. TypeOK'
  BY <1>1, <1>2 DEF Inv, TypeOK
<1>4. Findings' /\ CycleIsReported'
  BY <1>1 DEF Inv, Findings, CycleIsReported, Searched
<1>5. Counted' /\ Stacked' /\ Untouched'
  BY <1>2 DEF Inv, Counted, Stacked, Untouched, Searched
<1> QED
  BY <1>3, <1>4, <1>5 DEF Inv

\* The search starts at a component.
LEMMA StartKeeps ==
  ASSUME Inv, [Next]_vars, NEW n \in Names, Start(n)
  PROVE  Inv'
<1>1. /\ rest \in Seq(Seq(Names)) /\ Len(rest) = Len(path) /\ path = <<>>
      /\ visited \subseteq Names /\ recStack \subseteq Names
  BY DEF Inv, TypeOK, Start
<1>2. n \in Names \ visited /\ pc = "dfs" /\ pc' = "dfs" /\ Visit(n, rest)
  BY DEF Start
<1>3. /\ path' \in Seq(Names) /\ rest' \in Seq(Seq(Names)) /\ Len(rest') = Len(path')
      /\ Path' /\ LeftIsSound' /\ Looked'
  BY <1>1, <1>2, PushStep DEF Inv
<1>4. visited' \subseteq Names /\ recStack' \subseteq Names
  BY <1>1, <1>2 DEF Visit
<1>5. UNCHANGED peeling
  BY DEF Start
<1> QED
  BY <1>2, <1>3, <1>4, <1>5, StillSearching

\* The search looks at the next dependency of the innermost node.
LEMMA LookKeeps ==
  ASSUME Inv, [Next]_vars, Look
  PROVE  Inv'
<1> DEFINE d == Head(Last(rest))
           moved == [rest EXCEPT ![Len(rest)] = Tail(@)]
<1>1. /\ path \in Seq(Names) /\ rest \in Seq(Seq(Names)) /\ Len(rest) = Len(path)
      /\ visited \subseteq Names /\ recStack \subseteq Names
  BY DEF Inv, TypeOK
<1>2. /\ pc = "dfs" /\ path # <<>> /\ Last(rest) # <<>> /\ UNCHANGED peeling
  BY DEF Look
<1>3. rest # <<>> /\ Len(path) \in Nat
  BY <1>1, <1>2, EmptySeq
<1>4. /\ moved \in Seq(Seq(Names)) /\ Len(moved) = Len(path) /\ d \in Names
      /\ \A i \in 1 .. Len(path) - 1 : moved[i] = rest[i]
      /\ Range(rest[Len(path)]) = {d} \cup Range(moved[Len(path)])
  BY <1>1, <1>2, <1>3, MovedFrame
<1>5. CASE d \notin visited /\ Visit(d, moved) /\ UNCHANGED pc
  <2>1. /\ path' \in Seq(Names) /\ rest' \in Seq(Seq(Names)) /\ Len(rest') = Len(path')
        /\ Path' /\ LeftIsSound' /\ Looked'
    <3> HIDE DEF d, moved
    <3> QED
      BY <1>2, <1>4, <1>5, PushStep DEF Inv
  <2>2. visited' \subseteq Names /\ recStack' \subseteq Names
    BY <1>1, <1>4, <1>5 DEF Visit
  <2>3. pc' = "dfs"
    BY <1>2, <1>5
  <2> QED
    BY <1>2, <2>1, <2>2, <2>3, StillSearching
<1>6. CASE d \in visited /\ d \notin recStack /\ rest' = moved
           /\ UNCHANGED <<pc, visited, recStack, path>>
  <2>1. d \in Left
    BY <1>6 DEF Left
  <2>2. /\ rest' \in Seq(Seq(Names)) /\ Len(rest') = Len(path')
        /\ Path' /\ LeftIsSound' /\ Looked'
    BY <1>2, <1>6, <2>1, SkipStep DEF Inv
  <2>3. visited' \subseteq Names /\ recStack' \subseteq Names /\ path' \in Seq(Names)
    BY <1>1, <1>6
  <2>4. pc' = "dfs"
    BY <1>2, <1>6
  <2> QED
    BY <1>2, <2>2, <2>3, <2>4, StillSearching
<1>7. CASE d \in visited /\ d \in recStack /\ pc' = "error" /\ UNCHANGED search
  <2>1. /\ Cyclic(Names, Deps)
        /\ \E i \in DOMAIN path :
             /\ path[i] = d /\ d \in Deps[Last(path)]
             /\ \A j \in i .. Len(path) - 1 : path[j + 1] \in Deps[path[j]]
    BY <1>2, <1>7, CloseStep DEF Inv
  <2>2. spec' = spec /\ Names' = Names /\ Deps' = Deps
        /\ Duplicate' = Duplicate /\ Unknown' = Unknown
    BY SameList
  <2>3. /\ visited' = visited /\ recStack' = recStack /\ path' = path /\ rest' = rest
        /\ levels' = levels /\ current' = current /\ queue' = queue
    BY <1>2, <1>7 DEF search, peeling
  <2>4. TypeOK'
    BY <1>7, <2>2, <2>3 DEF Inv, TypeOK
  <2>5. Findings' /\ CycleIsReported'
    BY <1>7, <2>1, <2>2, <2>3 DEF Findings, CycleIsReported, Searched
  <2>6. Path' /\ LeftIsSound' /\ Looked'
    BY <2>2, <2>3 DEF Inv, Path, LeftIsSound, Looked, Left
  <2>7. Counted' /\ Stacked' /\ Untouched'
    BY <1>2, <1>7, <2>3 DEF Inv, Counted, Stacked, Untouched, Searched
  <2> QED
    BY <2>4, <2>5, <2>6, <2>7 DEF Inv
<1> QED
  BY <1>5, <1>6, <1>7 DEF Look

\* The search leaves a node.
LEMMA ReturnKeeps ==
  ASSUME Inv, [Next]_vars, Return
  PROVE  Inv'
<1>1. /\ path' \in Seq(Names) /\ rest' \in Seq(Seq(Names)) /\ Len(rest') = Len(path')
      /\ Path' /\ LeftIsSound' /\ Looked'
  BY ReturnStep DEF Inv
<1>2. visited' \subseteq Names /\ recStack' \subseteq Names
  BY DEF Inv, TypeOK, Return, Leave
<1>3. pc = "dfs" /\ pc' = "dfs" /\ UNCHANGED peeling
  BY DEF Return
<1> QED
  BY <1>1, <1>2, <1>3, StillSearching

\* The list is checked for names before anything is searched.
LEMMA BuildKeeps ==
  ASSUME Inv, [Next]_vars, Build
  PROVE  Inv'
<1>1. /\ spec' = spec /\ Names' = Names /\ Deps' = Deps
      /\ Duplicate' = Duplicate /\ Unknown' = Unknown
  BY SameList
<1>2. /\ visited' = visited /\ recStack' = recStack /\ path' = path /\ rest' = rest
      /\ levels' = levels /\ current' = current /\ queue' = queue
      /\ pc = "build" /\ pc' = IF Duplicate \/ Unknown THEN "error" ELSE "dfs"
  BY DEF Build, search, peeling
<1>3. path = <<>>
  BY <1>2 DEF Inv, Findings
<1>4. TypeOK'
  BY <1>1, <1>2 DEF Inv, TypeOK
<1>5. Findings' /\ CycleIsReported'
  BY <1>1, <1>2, <1>3 DEF Findings, CycleIsReported, Searched
<1>6. Path' /\ LeftIsSound' /\ Looked'
  BY <1>1, <1>2 DEF Inv, Path, LeftIsSound, Looked, Left
<1>7. Counted' /\ Stacked' /\ Untouched'
  BY <1>2 DEF Inv, Counted, Stacked, Untouched, Searched
<1> QED
  BY <1>4, <1>5, <1>6, <1>7 DEF Inv
(***************************************************************************)
(* The peeling                                                             *)
(***************************************************************************)
\* The placed nodes are those on a level.
LEMMA PlacedIs ==
  ASSUME TypeOK
  PROVE  /\ Placed = UNION {levels[k] : k \in 1 .. Len(levels)}
         /\ Placed \subseteq Names /\ Len(levels) \in Nat
         /\ levels # <<>> => Last(levels) = levels[Len(levels)] /\ Len(levels) # 0
         /\ levels # <<>> => Last(levels) \subseteq Placed
         /\ levels = <<>> => Placed = {} /\ Len(levels) = 0
<1>1. levels \in Seq(SUBSET Names) /\ Len(levels) \in Nat
  BY DEF TypeOK
<1>2. /\ Range(levels) = {levels[k] : k \in 1 .. Len(levels)}
      /\ \A k \in 1 .. Len(levels) : levels[k] \in SUBSET Names
  BY <1>1, RangeEquality, ElementOfSeq
<1>3. /\ Placed = UNION {levels[k] : k \in 1 .. Len(levels)}
      /\ Placed \subseteq Names
  BY <1>2 DEF Placed
<1>4. levels # <<>> => Last(levels) = levels[Len(levels)] /\ Len(levels) # 0
  BY <1>1, FrontOf
<1>5. levels # <<>> => Last(levels) \subseteq Placed
  <2>1. levels # <<>> => Len(levels) \in 1 .. Len(levels)
    BY <1>1, <1>4
  <2> QED
    BY <1>3, <1>4, <2>1
<1>6. levels = <<>> => Placed = {} /\ Len(levels) = 0
  <2>1. levels = <<>> => Len(levels) = 0
    OBVIOUS
  <2>2. Len(levels) = 0 => {levels[k] : k \in 1 .. Len(levels)} = {}
    OBVIOUS
  <2> QED
    BY <1>3, <2>1, <2>2
<1> QED
  BY <1>1, <1>3, <1>4, <1>5, <1>6

\* The entries of a list that wait are finitely many, and their names are the
\* dependencies that have not been peeled.
LEMMA WaitingIs ==
  ASSUME spec \in Specs, ~Unknown, NEW n \in Names
  PROVE  /\ IsFiniteSet(Waiting(n)) /\ Cardinality(Waiting(n)) \in Nat
         /\ Cardinality(Waiting(n)) = 0 <=> Deps[n] \subseteq Peeled
         /\ Deps[n] = {List(n)[i] : i \in 1 .. Len(List(n))}
         /\ Len(List(n)) \in Nat /\ DOMAIN List(n) = 1 .. Len(List(n))
<1>1. List(n) \in Seq(Names) /\ Deps[n] = Range(List(n))
  BY Listed
<1>2. /\ Len(List(n)) \in Nat /\ DOMAIN List(n) = 1 .. Len(List(n))
      /\ Deps[n] = {List(n)[i] : i \in 1 .. Len(List(n))}
  BY <1>1, RangeEquality
<1>3. IsFiniteSet(1 .. Len(List(n)))
  BY <1>2, FS_Interval
<1>4. IsFiniteSet(Waiting(n)) /\ Cardinality(Waiting(n)) \in Nat
  <2>1. Waiting(n) \subseteq 1 .. Len(List(n))
    BY DEF Waiting
  <2> QED
    BY <1>3, <2>1, FS_Subset, FS_CardinalityType
<1>5. Cardinality(Waiting(n)) = 0 <=> Waiting(n) = {}
  BY <1>4, FS_EmptySet
<1>6. Waiting(n) = {} <=> Deps[n] \subseteq Peeled
  BY <1>2 DEF Waiting
<1> QED
  BY <1>2, <1>4, <1>5, <1>6

\* The search is over and every dependency is counted.
LEMMA AcceptKeeps ==
  ASSUME Inv, [Next]_vars, Accept
  PROVE  Inv'
<1>1. /\ spec' = spec /\ Names' = Names /\ Deps' = Deps
      /\ Duplicate' = Duplicate /\ Unknown' = Unknown /\ \A n : List(n)' = List(n)
  BY SameList
<1>2. /\ visited' = visited /\ recStack' = recStack /\ path' = path /\ rest' = rest
      /\ levels' = levels /\ current' = current
      /\ pc = "dfs" /\ pc' = "kahn" /\ path = <<>> /\ visited = Names
      /\ inDegree' = [n \in Names |-> Len(List(n))]
      /\ queue' = {n \in Names : Len(List(n)) = 0}
  BY DEF Accept, search, InDegree
<1>3. levels = <<>> /\ current = {} /\ queue = {}
  BY <1>2 DEF Inv, Untouched, Searched
<1>4. ~Cyclic(Names, Deps)
  <2>1. recStack = {}
    BY <1>2 DEF Inv, Path, Range
  <2>2. Left = Names
    BY <1>2, <2>1 DEF Left
  <2> QED
    BY <2>2 DEF Inv, LeftIsSound
<1>5. spec \in Specs /\ ~Duplicate /\ ~Unknown
  BY <1>2 DEF Inv, TypeOK, Findings
<1>6. \A n \in Names : Len(List(n)) \in Nat
  BY <1>5, WaitingIs
<1>7. TypeOK'
  BY <1>1, <1>2, <1>6 DEF Inv, TypeOK
<1>8. Findings' /\ CycleIsReported'
  BY <1>1, <1>2, <1>4, <1>5 DEF Findings, CycleIsReported, Searched
<1>9. Path' /\ LeftIsSound' /\ Looked'
  BY <1>1, <1>2 DEF Inv, Path, LeftIsSound, Looked, Left
<1>10. Placed' = {} /\ Peeled' = {}
  BY <1>2, <1>3 DEF Placed, Peeled, Range
<1>11. Counted'
  <2>1. ASSUME NEW n \in Names
        PROVE  /\ Len(List(n)) = Cardinality(Waiting(n)')
               /\ Len(List(n)) = 0 <=> Deps[n] \subseteq {}
    <3>1. Waiting(n)' = 1 .. Len(List(n))
      BY <1>1, <1>10 DEF Waiting
    <3>2. Cardinality(1 .. Len(List(n))) = Len(List(n))
      BY <1>6, CountFromOne
    <3>3. Deps[n] = {List(n)[i] : i \in 1 .. Len(List(n))}
      BY <1>5, WaitingIs
    <3>4. Len(List(n)) # 0 => 1 \in 1 .. Len(List(n))
      BY <1>6
    <3>5. Len(List(n)) = 0 => 1 .. Len(List(n)) = {}
      OBVIOUS
    <3> QED
      BY <3>1, <3>2, <3>3, <3>4, <3>5
  <2>2. queue' = {n \in Names : Deps[n] \subseteq {}}
    BY <1>2, <2>1
  <2>3. \A n \in Names : inDegree'[n] = Cardinality(Waiting(n)')
    BY <1>2, <2>1
  <2> QED
    BY <1>1, <1>10, <2>2, <2>3 DEF Counted
<1>12. Stacked'
  <2>1. Len(levels') = 0 /\ 1 .. Len(levels') = {}
    BY <1>2, <1>3
  <2> QED
    BY <1>2, <1>3, <2>1 DEF Stacked
<1>13. Untouched'
  BY <1>2 DEF Untouched, Searched
<1> QED
  BY <1>7, <1>8, <1>9, <1>11, <1>12, <1>13 DEF Inv

\* What waits for nothing becomes the next level.
LEMMA NextLevelKeeps ==
  ASSUME Inv, [Next]_vars, NextLevel
  PROVE  Inv'
<1> DEFINE m == Len(levels)
<1>1. /\ spec' = spec /\ Names' = Names /\ Deps' = Deps
      /\ Duplicate' = Duplicate /\ Unknown' = Unknown /\ \A n : List(n)' = List(n)
  BY SameList
<1>2. /\ visited' = visited /\ recStack' = recStack /\ path' = path /\ rest' = rest
      /\ pc = "kahn" /\ pc' = "kahn" /\ inDegree' = inDegree
      /\ current = {} /\ current' = queue /\ queue' = {}
      /\ levels' = Append(levels, queue)
  BY DEF NextLevel, search
<1>3. Searched /\ Searched'
  BY <1>2 DEF Searched
<1>4. /\ levels \in Seq(SUBSET Names) /\ queue \in SUBSET Names /\ m \in Nat
  BY DEF Inv, TypeOK
<1>5. /\ levels' \in Seq(SUBSET Names) /\ levels' # <<>> /\ Last(levels') = queue
      /\ Len(levels') = m + 1 /\ levels'[m + 1] = queue
      /\ \A k \in 1 .. m : levels'[k] = levels[k]
      /\ Range(levels') = Range(levels) \cup {queue}
  BY <1>2, <1>4, AppendProperties, LastOfAppend, RangeOfAppend
<1>6. queue = {n \in Names \ Placed : Deps[n] \subseteq Peeled}
  BY <1>3 DEF Inv, Counted
<1>7. Placed' = Placed \cup queue /\ Peeled = Placed /\ Peeled' = Peeled
  BY <1>2, <1>5, <1>6 DEF Placed, Peeled
<1>8. TypeOK'
  BY <1>1, <1>2, <1>4, <1>5 DEF Inv, TypeOK
<1>9. Findings' /\ CycleIsReported'
  BY <1>1, <1>2, <1>3 DEF Inv, Findings, CycleIsReported, Searched
<1>10. Path' /\ LeftIsSound' /\ Looked'
  BY <1>1, <1>2 DEF Inv, Path, LeftIsSound, Looked, Left
<1>11. Counted'
  <2>1. \A n \in Names : Waiting(n)' = Waiting(n)
    BY <1>1, <1>7 DEF Waiting
  <2>2. \A n \in Names : inDegree'[n] = Cardinality(Waiting(n)')
    BY <1>2, <1>3, <2>1 DEF Inv, Counted
  <2>3. queue' = {n \in Names \ Placed' : Deps[n] \subseteq Peeled'}
    BY <1>2, <1>6, <1>7
  <2> QED
    BY <1>1, <2>2, <2>3 DEF Counted
<1>12. Placed = UNION {levels[k] : k \in 1 .. m}
       /\ (levels # <<>> => Last(levels) = levels[m]) /\ (levels = <<>> => m = 0)
  BY PlacedIs DEF Inv
<1>13. \A k \in 1 .. m + 1 : k \in 1 .. m \/ k = m + 1
  BY <1>4
<1>14. \A j, k \in 1 .. m + 1 : \A n \in levels'[j] \cap levels'[k] : j = k
  <2>1. \A j, k \in 1 .. m : \A n \in levels'[j] \cap levels'[k] : j = k
    BY <1>3, <1>5 DEF Inv, Stacked
  <2>2. \A j \in 1 .. m : levels'[j] \cap levels'[m + 1] = {}
    BY <1>5, <1>6, <1>12
  <2> QED
    BY <1>13, <2>1, <2>2
<1> DEFINE Above(k, n) ==
             /\ \A d \in Deps[n] : d \in Peeled /\ \E j \in 1 .. k - 1 : d \in levels'[j]
             /\ k > 1 => \E d \in Deps[n] : d \in levels'[k - 1]
<1>15. ASSUME NEW k \in 1 .. m, NEW n \in levels[k]
       PROVE  Above(k, n)
  <2>1. \A j \in 1 .. k - 1 : j \in 1 .. m
    BY <1>4
  <2>2. k > 1 => k - 1 \in 1 .. m
    BY <1>4
  <2>3. /\ \A d \in Deps[n] : d \in Peeled /\ \E j \in 1 .. k - 1 : d \in levels[j]
        /\ k > 1 => \E d \in Deps[n] : d \in levels[k - 1]
    BY <1>3 DEF Inv, Stacked
  <2> QED
    BY <1>5, <2>1, <2>2, <2>3
<1>16. ASSUME NEW n \in queue
       PROVE  Above(m + 1, n)
  <2>1. (m + 1) - 1 = m /\ (m + 1 > 1 => m # 0 /\ m \in 1 .. m)
    BY <1>4
  <2>2. \A d \in Deps[n] : d \in Peeled /\ \E j \in 1 .. m : d \in levels'[j]
    BY <1>5, <1>6, <1>7, <1>12
  <2>3. levels # <<>> => \E d \in Deps[n] : d \in Last(levels)
    BY <1>3 DEF Inv, Stacked
  <2>4. m # 0 /\ m \in 1 .. m => \E d \in Deps[n] : d \in levels'[m]
    BY <1>5, <1>12, <2>3
  <2> QED
    BY <2>1, <2>2, <2>4
<1>17. \A k \in 1 .. m + 1 : \A n \in levels'[k] : Above(k, n)
  <2> HIDE DEF Above
  <2> QED
    BY <1>5, <1>13, <1>15, <1>16
<1>18. Stacked'
  BY <1>1, <1>2, <1>5, <1>7, <1>14, <1>17 DEF Stacked
<1>19. Untouched'
  BY <1>3 DEF Untouched
<1> QED
  BY <1>8, <1>9, <1>10, <1>11, <1>18, <1>19 DEF Inv
\* Peeling a node takes its entries off the lists of its dependents.
LEMMA PeelCounts ==
  ASSUME Inv, [Next]_vars, NEW n \in Names, Peel(n), NEW d \in Names
  PROVE  /\ inDegree'[d] = Cardinality(Waiting(d)') /\ inDegree'[d] \in Nat
         /\ Edges(d, n) > 0 <=> n \in Deps[d]
         /\ inDegree'[d] = 0 <=> Deps[d] \subseteq Peeled \cup {n}
<1> DEFINE E == {i \in DOMAIN List(d) : List(d)[i] = n}
<1>1. Searched /\ spec \in Specs /\ ~Unknown /\ levels \in Seq(SUBSET Names)
  BY DEF Inv, TypeOK, Findings, Searched, Peel
<1>2. /\ IsFiniteSet(Waiting(d)) /\ Cardinality(Waiting(d)) \in Nat
      /\ Cardinality(Waiting(d)) = 0 <=> Deps[d] \subseteq Peeled
      /\ Deps[d] = {List(d)[i] : i \in 1 .. Len(List(d))}
      /\ DOMAIN List(d) = 1 .. Len(List(d))
  BY <1>1, WaitingIs
<1>3. n \in current /\ current' = current \ {n} /\ levels' = levels
      /\ inDegree'[d] = inDegree[d] - Edges(d, n)
  BY DEF Peel
<1>4. n \in Placed /\ n \notin Peeled
  <2>1. levels # <<>> /\ current \subseteq Last(levels)
    BY <1>1, <1>3 DEF Inv, Stacked
  <2>2. Last(levels) \subseteq Placed
    BY <2>1, PlacedIs DEF Inv
  <2> QED
    BY <1>3, <2>1, <2>2 DEF Peeled
<1>5. Peeled' = Peeled \cup {n}
  BY <1>3, <1>4 DEF Peeled, Placed
<1>6. List(d)' = List(d)
  BY SameList
<1>7. E \subseteq Waiting(d) /\ Waiting(d)' = Waiting(d) \ E
  BY <1>2, <1>4, <1>5, <1>6 DEF Waiting
<1>8. Edges(d, n) = Cardinality(E)
  BY DEF Edges
<1>9. /\ Cardinality(Waiting(d) \ E) = Cardinality(Waiting(d)) - Cardinality(E)
      /\ IsFiniteSet(Waiting(d) \ E) /\ Cardinality(Waiting(d) \ E) \in Nat
      /\ IsFiniteSet(E) /\ Cardinality(E) \in Nat
  <2> HIDE DEF E
  <2>1. Waiting(d) \cap E = E
    BY <1>7
  <2>2. IsFiniteSet(E) /\ Cardinality(E) \in Nat
    BY <1>2, <1>7, FS_Subset, FS_CardinalityType
  <2>3. /\ IsFiniteSet(Waiting(d) \ E)
        /\ Cardinality(Waiting(d) \ E) = Cardinality(Waiting(d)) - Cardinality(Waiting(d) \cap E)
    BY <1>2, FS_Difference
  <2>4. Cardinality(Waiting(d) \ E) \in Nat
    BY <2>3, FS_CardinalityType
  <2> QED
    BY <2>1, <2>2, <2>3, <2>4
<1>10. inDegree[d] = Cardinality(Waiting(d))
  BY <1>1 DEF Inv, Counted
<1>11. inDegree'[d] = Cardinality(Waiting(d)') /\ inDegree'[d] \in Nat
  <2> HIDE DEF E
  <2> QED
    BY <1>3, <1>7, <1>8, <1>9, <1>10
<1>12. Edges(d, n) > 0 <=> n \in Deps[d]
  <2>1. Cardinality(E) = 0 <=> E = {}
    BY <1>9, FS_EmptySet
  <2>2. E = {} <=> n \notin Deps[d]
    BY <1>2
  <2> HIDE DEF E
  <2> QED
    BY <1>8, <1>9, <2>1, <2>2
<1>13. inDegree'[d] = 0 <=> Deps[d] \subseteq Peeled \cup {n}
  <2>1. Cardinality(Waiting(d)') = 0 <=> Waiting(d)' = {}
    BY <1>7, <1>9, FS_EmptySet
  <2>2. Waiting(d)' = {} <=> Deps[d] \subseteq Peeled \cup {n}
    BY <1>2, <1>5, <1>6 DEF Waiting
  <2> QED
    BY <1>11, <2>1, <2>2
<1> QED
  BY <1>11, <1>12, <1>13

\* A member of the level is peeled: its dependents that wait for no other are queued.
LEMMA PeelKeeps ==
  ASSUME Inv, [Next]_vars, NEW n \in Names, Peel(n)
  PROVE  Inv'
<1>1. /\ spec' = spec /\ Names' = Names /\ Deps' = Deps
      /\ Duplicate' = Duplicate /\ Unknown' = Unknown /\ \A c : List(c)' = List(c)
  BY SameList
<1>2. /\ visited' = visited /\ recStack' = recStack /\ path' = path /\ rest' = rest
      /\ pc = "kahn" /\ pc' = "kahn" /\ levels' = levels
      /\ n \in current /\ current' = current \ {n}
      /\ inDegree' = [d \in Names |-> inDegree[d] - Edges(d, n)]
      /\ queue' = queue \cup {d \in Names : Edges(d, n) > 0 /\ inDegree'[d] = 0}
  BY DEF Peel, search
<1>3. Searched /\ Searched'
  BY <1>2 DEF Searched
<1>4. \A d \in Names :
        /\ inDegree'[d] = Cardinality(Waiting(d)') /\ inDegree'[d] \in Nat
        /\ Edges(d, n) > 0 <=> n \in Deps[d]
        /\ inDegree'[d] = 0 <=> Deps[d] \subseteq Peeled \cup {n}
  BY PeelCounts
<1>5. levels # <<>> /\ current \subseteq Last(levels)
  BY <1>2, <1>3 DEF Inv, Stacked
<1>6. /\ Placed = UNION {levels[k] : k \in 1 .. Len(levels)}
      /\ Last(levels) \subseteq Placed /\ n \in Placed
  BY <1>2, <1>5, PlacedIs DEF Inv
<1>7. n \notin Peeled /\ Placed' = Placed /\ Peeled' = Peeled \cup {n}
  BY <1>2, <1>6 DEF Peeled, Placed
<1>8. inDegree' \in [Names -> Nat]
  <2>1. inDegree' = [d \in Names |-> inDegree'[d]]
    BY <1>2
  <2> QED
    BY <1>4, <2>1
<1>9. TypeOK'
  BY <1>1, <1>2, <1>8 DEF Inv, TypeOK
<1>10. Findings' /\ CycleIsReported'
  BY <1>1, <1>2, <1>3 DEF Inv, Findings, CycleIsReported, Searched
<1>11. Path' /\ LeftIsSound' /\ Looked'
  BY <1>1, <1>2 DEF Inv, Path, LeftIsSound, Looked, Left
<1>12. queue' = queue \cup {d \in Names : n \in Deps[d] /\ Deps[d] \subseteq Peeled'}
  BY <1>2, <1>4, <1>7
<1>13. Counted'
  <2>1. queue = {d \in Names \ Placed : Deps[d] \subseteq Peeled}
    BY <1>3 DEF Inv, Counted
  <2>2. ASSUME NEW d \in Names, n \in Deps[d] PROVE d \notin Placed
    <3>1. \A k \in 1 .. Len(levels) : \A c \in levels[k] : Deps[c] \subseteq Peeled
      BY <1>3 DEF Inv, Stacked
    <3> QED
      BY <1>6, <1>7, <2>2, <3>1
  <2>3. queue' = {d \in Names \ Placed' : Deps[d] \subseteq Peeled'}
    BY <1>7, <1>12, <2>1, <2>2
  <2> QED
    BY <1>1, <1>4, <2>3 DEF Counted
<1>14. \A d \in queue' : \E c \in Deps[d] : c \in Last(levels)
  BY <1>2, <1>3, <1>5, <1>12 DEF Inv, Stacked
<1>15. Stacked'
  <2>1. /\ \A j, k \in 1 .. Len(levels) : \A c \in levels[j] \cap levels[k] : j = k
        /\ \A k \in 1 .. Len(levels) : \A c \in levels[k] :
             /\ \A d \in Deps[c] : d \in Peeled /\ \E j \in 1 .. k - 1 : d \in levels[j]
             /\ k > 1 => \E d \in Deps[c] : d \in levels[k - 1]
    BY <1>3 DEF Inv, Stacked
  <2> QED
    BY <1>1, <1>2, <1>5, <1>7, <1>14, <2>1 DEF Stacked
<1>16. Untouched'
  BY <1>3 DEF Untouched
<1> QED
  BY <1>9, <1>10, <1>11, <1>13, <1>15, <1>16 DEF Inv

\* The queue runs empty.  What has no level then would each wait for another that has
\* none, in a circle.
LEMMA FinishKeeps ==
  ASSUME Inv, [Next]_vars, Finish
  PROVE  Inv'
<1>1. /\ spec' = spec /\ Names' = Names /\ Deps' = Deps
      /\ Duplicate' = Duplicate /\ Unknown' = Unknown /\ \A c : List(c)' = List(c)
  BY SameList
<1>2. /\ visited' = visited /\ recStack' = recStack /\ path' = path /\ rest' = rest
      /\ pc = "kahn" /\ pc' = "ok" /\ levels' = levels /\ current = {} /\ queue = {}
      /\ current' = current /\ queue' = queue /\ inDegree' = inDegree
  BY DEF Finish, search, peeling
<1>3. Searched /\ Searched' /\ spec \in Specs
  BY <1>2 DEF Searched, Inv, TypeOK
<1>4. ~Unknown /\ ~Duplicate /\ ~Cyclic(Names, Deps)
  BY <1>2 DEF Inv, Findings, Searched
<1>5. Placed = Names
  <2> DEFINE U == Names \ Placed
  <2>1. queue = {n \in Names \ Placed : Deps[n] \subseteq Peeled} /\ Peeled = Placed
    BY <1>2, <1>3 DEF Inv, Counted, Peeled
  <2>2. \A n \in Names : Deps[n] \subseteq Names
    BY <1>3, <1>4, Listed
  <2>3. \A n \in U : Deps[n] \cap U # {}
    BY <1>2, <2>1, <2>2
  <2>4. U = {}
    BY <1>4, <2>3 DEF Cyclic
  <2>5. Placed \subseteq Names
    BY PlacedIs DEF Inv
  <2> QED
    BY <2>4, <2>5
<1>6. TypeOK'
  BY <1>1, <1>2 DEF Inv, TypeOK
<1>7. Findings' /\ CycleIsReported'
  BY <1>1, <1>2, <1>4 DEF Findings, CycleIsReported, Searched
<1>8. Path' /\ LeftIsSound' /\ Looked'
  BY <1>1, <1>2 DEF Inv, Path, LeftIsSound, Looked, Left
<1>9. Placed' = Placed /\ Peeled' = Peeled
  BY <1>2 DEF Placed, Peeled
<1>10. Counted'
  <2>1. \A n \in Names : Waiting(n)' = Waiting(n)
    BY <1>1, <1>9 DEF Waiting
  <2> QED
    BY <1>1, <1>2, <1>3, <1>9, <2>1 DEF Inv, Counted
<1>11. Stacked' /\ Untouched'
  BY <1>1, <1>2, <1>3, <1>5, <1>9 DEF Inv, Stacked, Untouched
<1> QED
  BY <1>6, <1>7, <1>8, <1>10, <1>11 DEF Inv
(***************************************************************************)
(* The theorems                                                            *)
(***************************************************************************)
\* At first nothing is searched and nothing is peeled.
LEMMA InitInv == Init => Inv
<1> SUFFICES ASSUME Init PROVE Inv
  OBVIOUS
<1>1. /\ pc = "build" /\ visited = {} /\ recStack = {} /\ path = <<>> /\ rest = <<>>
      /\ inDegree = <<>> /\ queue = {} /\ levels = <<>> /\ current = {} /\ spec \in Specs
  BY DEF Init
<1>2. TypeOK
  BY <1>1 DEF TypeOK
<1>3. Findings /\ CycleIsReported /\ Untouched /\ Counted /\ Stacked
  BY <1>1 DEF Findings, Searched, CycleIsReported, Untouched, Counted, Stacked
<1>4. Len(path) = 0 /\ Range(path) = {}
  BY <1>1 DEF Range
<1>5. Path /\ LeftIsSound /\ Looked
  BY <1>1, <1>4 DEF Path, LeftIsSound, Left, Looked, Cyclic
<1> QED
  BY <1>2, <1>3, <1>5 DEF Inv

\* Every step keeps what the search and the peeling rely on.
LEMMA StepInv == Inv /\ [Next]_vars => Inv'
<1> SUFFICES ASSUME Inv, [Next]_vars PROVE Inv'
  OBVIOUS
<1>1. CASE Build
  BY <1>1, BuildKeeps
<1>2. CASE Look
  BY <1>2, LookKeeps
<1>3. CASE Return
  BY <1>3, ReturnKeeps
<1>4. CASE Accept
  BY <1>4, AcceptKeeps
<1>5. CASE NextLevel
  BY <1>5, NextLevelKeeps
<1>6. CASE Finish
  BY <1>6, FinishKeeps
<1>7. ASSUME NEW n \in Names, Start(n) PROVE Inv'
  BY <1>7, StartKeeps
<1>8. ASSUME NEW n \in Names, Peel(n) PROVE Inv'
  BY <1>8, PeelKeeps
<1>9. CASE UNCHANGED vars
  <2>1. /\ spec' = spec /\ pc' = pc /\ visited' = visited /\ recStack' = recStack
        /\ path' = path /\ rest' = rest /\ inDegree' = inDegree /\ queue' = queue
        /\ levels' = levels /\ current' = current
    BY <1>9 DEF vars
  <2>2. /\ Names' = Names /\ Deps' = Deps /\ \A n : List(n)' = List(n)
        /\ Duplicate' = Duplicate /\ Unknown' = Unknown
    BY SameList
  <2>3. TypeOK' /\ Findings' /\ CycleIsReported'
    BY <2>1, <2>2 DEF Inv, TypeOK, Findings, Searched, CycleIsReported
  <2>4. Path' /\ LeftIsSound' /\ Looked'
    BY <2>1, <2>2 DEF Inv, Path, LeftIsSound, Left, Looked
  <2>5. Placed' = Placed /\ Peeled' = Peeled /\ \A n \in Names : Waiting(n)' = Waiting(n)
    BY <2>1, <2>2 DEF Placed, Peeled, Waiting
  <2>6. Counted' /\ Stacked' /\ Untouched'
    BY <2>1, <2>2, <2>5 DEF Inv, Counted, Stacked, Untouched, Searched
  <2> QED
    BY <2>3, <2>4, <2>6 DEF Inv
<1> QED
  BY <1>1, <1>2, <1>3, <1>4, <1>5, <1>6, <1>7, <1>8, <1>9 DEF Next, Done

\* What the search has left is acyclic, the stack is a path, an in-degree counts what
\* has still to be peeled, and each level stands right above the one before it.
THEOREM Invariance == Spec => []Inv
BY InitInv, StepInv, PTL DEF Spec

\* Every variable has its type; no in-degree drops below zero, however often a
\* dependency is repeated on a list.
THEOREM TypeCorrect == Spec => []TypeOK
<1>1. Inv => TypeOK
  BY DEF Inv
<1> QED
  BY <1>1, Invariance, PTL

\* A list is refused only if a name is listed twice, a dependency is not listed or
\* some components wait for each other, and accepted only if none of these is so, in
\* whatever order the maps of validateDependencies are visited.
THEOREM VerdictIsRight == Spec => []Verdict
<1>1. Inv => Verdict
  BY DEF Inv, Findings, Searched, Verdict
<1> QED
  BY <1>1, Invariance, PTL

\* The error of validateDependencies can always print the cycle it has found.
THEOREM CycleIsFound == Spec => []CycleIsReported
<1>1. Inv => CycleIsReported
  BY DEF Inv
<1> QED
  BY <1>1, Invariance, PTL

\* A component is on one level only.
LEMMA OneLevel ==
  ASSUME Inv, pc = "ok", NEW n \in Names
  PROVE  \E k \in 1 .. Len(levels) :
           n \in levels[k] /\ {i \in DOMAIN levels : n \in levels[i]} = {k}
<1>1. Searched /\ levels \in Seq(SUBSET Names) /\ DOMAIN levels = 1 .. Len(levels)
  BY DEF Searched, Inv, TypeOK
<1>2. Placed = Names /\ Placed = UNION {levels[k] : k \in 1 .. Len(levels)}
  BY <1>1, PlacedIs DEF Inv, Stacked
<1>3. PICK k \in 1 .. Len(levels) : n \in levels[k]
  BY <1>2
<1>4. \A i \in 1 .. Len(levels) : n \in levels[i] => i = k
  BY <1>1, <1>3 DEF Inv, Stacked
<1> QED
  BY <1>1, <1>3, <1>4

\* ... and every component is right above its highest dependency.
LEMMA LevelsCorrectNow ==
  ASSUME Inv
  PROVE  LevelsCorrect
<1> SUFFICES ASSUME pc = "ok"
             PROVE  /\ \A n \in Names : Cardinality({i \in DOMAIN levels : n \in levels[i]}) = 1
                    /\ LET L == [n \in Names |-> (CHOOSE i \in DOMAIN levels : n \in levels[i]) - 1]
                       IN  LevelledOver(Names, Deps, L)
  BY DEF LevelsCorrect
<1> DEFINE L == [n \in Names |-> (CHOOSE i \in DOMAIN levels : n \in levels[i]) - 1]
<1>1. Searched /\ levels \in Seq(SUBSET Names) /\ DOMAIN levels = 1 .. Len(levels)
      /\ Len(levels) \in Nat
  BY DEF Searched, Inv, TypeOK
<1>2. \A n \in Names : Cardinality({i \in DOMAIN levels : n \in levels[i]}) = 1
  BY OneLevel, FS_Singleton
<1>3. ASSUME NEW n \in Names, NEW k \in 1 .. Len(levels), n \in levels[k]
      PROVE  L[n] = k - 1
  <2>1. \A i \in DOMAIN levels : n \in levels[i] => i = k
    BY <1>1, <1>3 DEF Inv, Stacked
  <2> QED
    BY <1>1, <1>3, <2>1
<1>4. ASSUME NEW n \in Names
      PROVE  /\ \A d \in Deps[n] : L[d] < L[n]
             /\ L[n] = 0 \/ \E d \in Deps[n] : L[d] = L[n] - 1
  <2>1. PICK k \in 1 .. Len(levels) : n \in levels[k]
    BY OneLevel
  <2>2. L[n] = k - 1 /\ k \in Nat
    BY <1>1, <1>3, <2>1
  <2>3. \A i \in 1 .. Len(levels) : levels[i] \subseteq Names
    BY <1>1, ElementOfSeq
  <2>4. /\ \A d \in Deps[n] : \E j \in 1 .. k - 1 : d \in levels[j]
        /\ k > 1 => \E d \in Deps[n] : d \in levels[k - 1]
    BY <1>1, <2>1 DEF Inv, Stacked
  <2>5. \A j \in 1 .. k - 1 : j \in 1 .. Len(levels) /\ j - 1 < k - 1
    BY <1>1, <2>2
  <2>6. ASSUME NEW d \in Deps[n] PROVE L[d] < L[n]
    <3>1. PICK j \in 1 .. k - 1 : d \in levels[j]
      BY <2>4
    <3>2. d \in Names /\ L[d] = j - 1
      BY <1>3, <2>3, <2>5, <3>1
    <3> HIDE DEF L
    <3> QED
      BY <2>2, <2>5, <3>2
  <2>7. ASSUME k > 1 PROVE \E d \in Deps[n] : L[d] = L[n] - 1
    <3>1. PICK d \in Deps[n] : d \in levels[k - 1]
      BY <2>4, <2>7
    <3>2. k - 1 \in 1 .. Len(levels)
      BY <1>1, <2>7
    <3>3. L[d] = (k - 1) - 1
      BY <1>3, <2>3, <3>1, <3>2
    <3> HIDE DEF L
    <3> QED
      BY <2>2, <3>3
  <2>8. k = 1 \/ k > 1
    BY <1>1
  <2> HIDE DEF L
  <2> QED
    BY <2>2, <2>6, <2>7, <2>8
<1>5. LevelledOver(Names, Deps, L)
  <2> HIDE DEF L
  <2> QED
    BY <1>4 DEF LevelledOver
<1> QED
  BY <1>2, <1>5

\* There are finitely many components.
LEMMA FinitelyMany ==
  ASSUME spec \in Specs
  PROVE  IsFiniteSet(Names)
<1>1. spec \in Seq(ComponentType)
  BY SpecsAssumption
<1>2. DOMAIN spec = 1 .. Len(spec) /\ Len(spec) \in Nat
  BY <1>1
<1>3. IsFiniteSet({spec[i].name : i \in 1 .. Len(spec)})
  <2> DEFINE f == [i \in 1 .. Len(spec) |-> spec[i].name]
  <2>1. f \in Surjection(1 .. Len(spec), {spec[i].name : i \in 1 .. Len(spec)})
    BY DEF Surjection
  <2>2. IsFiniteSet(1 .. Len(spec))
    BY <1>2, FS_Interval
  <2> HIDE DEF f
  <2> QED
    BY <2>1, <2>2, FS_Surjection
<1> QED
  BY <1>2, <1>3 DEF Names

\* computeScalingLevels puts every component on exactly one level, right above its
\* highest dependency.
THEOREM LevelsAreCorrect == Spec => []LevelsCorrect
BY LevelsCorrectNow, Invariance, PTL

\* The list is accepted exactly when its graph has levels, and then computeScalingLevels
\* has found the ones there are, the same that a pass of the controller scales by.
THEOREM ComputesTheLevels ==
  Spec => [](/\ pc = "ok" => \E L \in LevelsOf(Deps, Names) :
                              \A n \in Names : n \in levels[L[n] + 1]
             /\ pc = "error" => Duplicate \/ Unknown \/ LevelsOf(Deps, Names) = {})
<1>1. ASSUME Inv, pc = "ok"
      PROVE  \E L \in LevelsOf(Deps, Names) : \A n \in Names : n \in levels[L[n] + 1]
  <2> DEFINE L == [n \in Names |-> (CHOOSE i \in DOMAIN levels : n \in levels[i]) - 1]
  <2>1. /\ spec \in Specs /\ ~Unknown /\ ~Cyclic(Names, Deps)
        /\ levels \in Seq(SUBSET Names) /\ DOMAIN levels = 1 .. Len(levels)
    BY <1>1 DEF Inv, TypeOK, Findings, Searched
  <2>2. IsFiniteSet(Names)
    BY <2>1, FinitelyMany
  <2>3. \A n \in Names : Deps[n] \subseteq Names
    BY <2>1, Listed
  <2>4. PICK M \in LevelsOf(Deps, Names) : TRUE
    BY <2>1, <2>2, <2>3, LevelsExistOnce
  <2>5. ASSUME NEW n \in Names PROVE L[n] \in Nat /\ n \in levels[L[n] + 1]
    <3>1. PICK k \in 1 .. Len(levels) : n \in levels[k]
      BY <1>1, OneLevel
    <3> DEFINE i == CHOOSE i \in DOMAIN levels : n \in levels[i]
    <3>2. i \in DOMAIN levels /\ n \in levels[i]
      BY <2>1, <3>1
    <3>3. L[n] = i - 1
      OBVIOUS
    <3> HIDE DEF i, L
    <3>4. i \in Nat \ {0}
      BY <2>1, <3>2
    <3>5. L[n] + 1 = i /\ L[n] \in Nat
      BY <3>3, <3>4
    <3> QED
      BY <3>2, <3>5
  <2>6. LevelledOver(Names, Deps, L)
    BY <1>1, LevelsCorrectNow DEF LevelsCorrect
  <2>7. L \in [Names -> Nat]
    <3>1. L = [n \in Names |-> L[n]]
      OBVIOUS
    <3> HIDE DEF L
    <3> QED
      BY <2>5, <3>1
  <2> HIDE DEF L
  <2>8. L = M
    BY <2>1, <2>2, <2>3, <2>6, <2>7, LevelsExistOnce
  <2> QED
    BY <2>4, <2>5, <2>8
<1>2. ASSUME Inv, pc = "error", ~Duplicate, ~Unknown
      PROVE  LevelsOf(Deps, Names) = {}
  <2>1. spec \in Specs /\ Cyclic(Names, Deps)
    BY <1>2 DEF Inv, TypeOK, Findings
  <2>2. IsFiniteSet(Names)
    BY <2>1, FinitelyMany
  <2>3. \A n \in Names : Deps[n] \subseteq Names
    BY <1>2, <2>1, Listed
  <2> QED
    BY <2>1, <2>2, <2>3, LevelsExistOnce
<1> QED
  BY <1>1, <1>2, Invariance, PTL
=============================================================================
