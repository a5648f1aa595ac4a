---------------------------- MODULE ScalingLevels ----------------------------
(***************************************************************************)
(* How the controller turns spec.components into scaling levels:           *)
(* buildDependencyGraph registers names and edges, validateDependencies    *)
(* searches depth first for a cycle, computeScalingLevels peels the graph  *)
(* with Kahn's algorithm.  Go visits maps in any order, so both searches   *)
(* are nondeterministic; a level is kept as the set of its members.        *)
(*                                                                         *)
(* EdgesOnce, InDegreeDistinct, VisitUnmarked and LeaveMarked are bugs the *)
(* code does not have; each is put in the place of the definition after it *)
(* to see that a property notices.                                         *)
(***************************************************************************)
EXTENDS Integers, Sequences, SequencesExt, DependencyLevels

CONSTANT Specs  \* the lists of components, [name, dependsOn], to try

ComponentType == [name : STRING, dependsOn : Seq(STRING)]
ASSUME SpecsAssumption == \A s \in Specs : s \in Seq(ComponentType)

VARIABLES
  spec,      \* spec.components
  pc,        \* "build", "dfs", "kahn", and the two results "ok" and "error"
  visited, recStack,
  path,      \* the nodes the search is in, outermost first
  rest,      \* for each of them, the dependencies it has still to look at
  inDegree, queue, levels,
  current    \* members of the level being peeled whose dependents are not done

vars == <<spec, pc, visited, recStack, path, rest, inDegree, queue, levels, current>>
search == <<visited, recStack, path, rest>>
peeling == <<inDegree, queue, levels, current>>

Names == {spec[i].name : i \in DOMAIN spec}
List(n) == spec[CHOOSE i \in DOMAIN spec : spec[i].name = n].dependsOn
Deps == [n \in Names |-> Range(List(n))]

EdgesOnce(n, d) == IF d \in Range(List(n)) THEN 1 ELSE 0

\* How many times d is on the list of n: duplicated edges are kept on both sides.
Edges(n, d) == Cardinality({i \in DOMAIN List(n) : List(n)[i] = d})

InDegreeDistinct(n) == Cardinality(Range(List(n)))
InDegree(n) == Len(List(n))

Duplicate == Cardinality(Names) < Len(spec)
Unknown == \E i \in DOMAIN spec : ~(Range(spec[i].dependsOn) \subseteq Names)

-----------------------------------------------------------------------------
Init ==
  /\ spec \in Specs
  /\ pc = "build"
  /\ visited = {} /\ recStack = {} /\ path = <<>> /\ rest = <<>>
  /\ inDegree = <<>> /\ queue = {} /\ levels = <<>> /\ current = {}

\* The two passes of buildDependencyGraph.
Build ==
  /\ pc = "build"
  /\ pc' = IF Duplicate \/ Unknown THEN "error" ELSE "dfs"
  /\ UNCHANGED <<spec, search, peeling>>

\* dfs(n) is entered while the callers are at frames.
VisitUnmarked(n, frames) ==
  /\ visited' = visited \cup {n} /\ UNCHANGED recStack
  /\ path' = Append(path, n) /\ rest' = Append(frames, List(n))

Visit(n, frames) ==
  /\ visited' = visited \cup {n} /\ recStack' = recStack \cup {n}
  /\ path' = Append(path, n) /\ rest' = Append(frames, List(n))

Start(n) ==
  /\ pc = "dfs" /\ path = <<>> /\ n \notin visited
  /\ Visit(n, rest)
  /\ UNCHANGED <<spec, pc, peeling>>

\* One turn of the innermost loop over dependencies.
Look ==
  /\ pc = "dfs" /\ path # <<>> /\ Last(rest) # <<>>
  /\ LET d == Head(Last(rest))
         moved == [rest EXCEPT ![Len(rest)] = Tail(@)]
     IN  \/ d \notin visited /\ Visit(d, moved) /\ UNCHANGED pc
         \/ d \in visited /\ d \in recStack /\ pc' = "error" /\ UNCHANGED search
         \/ /\ d \in visited /\ d \notin recStack
            /\ rest' = moved
            /\ UNCHANGED <<pc, visited, recStack, path>>
  /\ UNCHANGED <<spec, peeling>>

LeaveMarked == UNCHANGED recStack
Leave == recStack' = recStack \ {Last(path)}

\* The loop is over and dfs returns nil.
Return ==
  /\ pc = "dfs" /\ path # <<>> /\ Last(rest) = <<>>
  /\ Leave
  /\ path' = Front(path) /\ rest' = Front(rest)
  /\ UNCHANGED <<spec, pc, visited, peeling>>

\* No cycle: count the dependencies of every component.
Accept ==
  /\ pc = "dfs" /\ path = <<>> /\ visited = Names
  /\ pc' = "kahn"
  /\ inDegree' = [n \in Names |-> InDegree(n)]
  /\ queue' = {n \in Names : InDegree(n) = 0}
  /\ UNCHANGED <<spec, search, levels, current>>

NextLevel ==
  /\ pc = "kahn" /\ current = {} /\ queue # {}
  /\ levels' = Append(levels, queue) /\ current' = queue /\ queue' = {}
  /\ UNCHANGED <<spec, pc, search, inDegree>>

\* Reduce the in-degree of the dependents of one member of the level.
Peel(n) ==
  /\ pc = "kahn" /\ n \in current
  /\ inDegree' = [d \in Names |-> inDegree[d] - Edges(d, n)]
  /\ queue' = queue \cup {d \in Names : Edges(d, n) > 0 /\ inDegree'[d] = 0}
  /\ current' = current \ {n}
  /\ UNCHANGED <<spec, pc, search, levels>>

Finish ==
  /\ pc = "kahn" /\ current = {} /\ queue = {}
  /\ pc' = "ok"
  /\ UNCHANGED <<spec, search, peeling>>

Done == pc \in {"ok", "error"} /\ UNCHANGED vars

Next ==
  \/ Build \/ Look \/ Return \/ Accept \/ NextLevel \/ Finish \/ Done
  \/ \E n \in Names : Start(n) \/ Peel(n)

Spec == Init /\ [][Next]_vars

-----------------------------------------------------------------------------
\* Every variable has its type; an in-degree never drops below zero.
TypeOK ==
  /\ spec \in Specs /\ pc \in {"build", "dfs", "kahn", "ok", "error"}
  /\ visited \subseteq Names /\ recStack \subseteq Names
  /\ path \in Seq(Names) /\ rest \in Seq(Seq(Names)) /\ Len(rest) = Len(path)
  /\ pc \in {"kahn", "ok"} => inDegree \in [Names -> Nat]
  /\ queue \subseteq Names /\ current \subseteq Names
  /\ levels \in Seq(SUBSET Names)

\* The list is refused exactly when a name is listed twice, a dependency is not
\* listed at all, or some components wait for each other in a circle, in whatever
\* order the maps are visited.
Verdict ==
  /\ pc = "ok" => ~Duplicate /\ ~Unknown /\ ~Cyclic(Names, Deps)
  /\ pc = "error" => Duplicate \/ Unknown \/ Cyclic(Names, Deps)

\* The path the cycle error prints is a cycle of the graph, starting where the
\* search finds it: the fallback message "involving" is never needed.
CycleIsReported ==
  pc = "error" /\ path # <<>> =>
    LET d == Head(Last(rest))
    IN  \E i \in DOMAIN path :
          /\ path[i] = d /\ d \in Deps[Last(path)]
          /\ \A j \in i .. Len(path) - 1 : path[j + 1] \in Deps[path[j]]

\* Kahn's levels are the levels of the graph: every component is on exactly one,
\* right above its highest dependency, however often a dependency is repeated.
LevelsCorrect ==
  pc = "ok" =>
    /\ \A n \in Names : Cardinality({i \in DOMAIN levels : n \in levels[i]}) = 1
    /\ LET L == [n \in Names |-> (CHOOSE i \in DOMAIN levels : n \in levels[i]) - 1]
       IN  LevelledOver(Names, Deps, L)
=============================================================================
