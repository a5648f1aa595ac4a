SPECIFICATION WokenSpec
CONSTANTS
  N = 2
  DependsOn <- MCDependsOn
  Kind <- MCKind
  Replicas <- MCReplicas
  MaxLag = 2
  MaxFaults = 1
  MaxWrites = 1
PROPERTIES
  SleepingIsDown
