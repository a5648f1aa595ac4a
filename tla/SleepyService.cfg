SPECIFICATION BusySpec
CONSTANTS
  r1 = r1
  w1 = w1
  N = 1
  DependsOn <- MCDependsOn
  Kind <- MCKind
  Replicas <- MCReplicas
  Requests <- MCRequests
  Wakers <- MCWakers
  Api <- NoRequests
  MaxLag = 2
  MaxNaps = 1
  MaxRewrites = 1
PROPERTIES
  Contract
  TrafficIsServed
