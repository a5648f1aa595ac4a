SPECIFICATION FairSpec
CONSTANTS
  N = 3
  DependsOn <- MCDependsOn3
  Kind <- MCKind3
  Replicas <- MCReplicas3
  MaxLag = 2
  MaxFaults = 1
  MaxWrites = 2
INVARIANTS
  TypeOK
  NoForgottenRequest
  AwakeOnlyIfReady
PROPERTIES
  NoSleepAgainstRequest
  Contract
  DependencyOrder
  WakeCompletes
