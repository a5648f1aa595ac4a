--------------------------- MODULE MCScalingLevels ---------------------------
(* Every graph over three components whose lists have at most two entries,   *)
(* and a few lists that are malformed.                                       *)
EXTENDS ScalingLevels

MCNames == {"db", "api", "web"}
MCLists == UNION {[1..k -> MCNames] : k \in 0..2}

Component(n, l) == [name |-> n, dependsOn |-> l]

MCSpecs ==
  {<<Component("db", l), Component("api", m), Component("web", n)>> :
     l \in MCLists, m \in MCLists, n \in MCLists}
  \cup {<<Component("db", <<>>), Component("db", l)>> : l \in MCLists}
  \cup {<<Component("db", <<>>), Component("api", l)>> : l \in MCLists}
=============================================================================
