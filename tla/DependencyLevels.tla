-------------------------- MODULE DependencyLevels --------------------------
(***************************************************************************)
(* What the levels of a dependency graph are.  Module Reconciler scales by *)
(* them; module ScalingLevels is the code that computes them.              *)
(***************************************************************************)
EXTENDS Integers

\* L[c] is the length of the longest chain of dependencies below c.
LevelledOver(C, Deps, L) ==
  \A c \in C :
    /\ \A d \in Deps[c] : L[d] < L[c]
    /\ L[c] = 0 \/ \E d \in Deps[c] : L[d] = L[c] - 1

\* A cycle: a set of components each of which needs another one of the set.
Cyclic(C, Deps) == \E S \in SUBSET C : S # {} /\ \A c \in S : Deps[c] \cap S # {}
=============================================================================
