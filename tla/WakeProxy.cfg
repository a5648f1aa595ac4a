SPECIFICATION BusySpec
CONSTANTS
  r1 = r1
  w1 = w1
  w2 = w2
  Requests <- MCRequests
  Wakers <- MCWakers
  Debug = TRUE
  MaxFaults = 1
INVARIANTS
  TypeOK
PROPERTIES
  Contract
  WakerEnds
  TrafficGetsThrough
