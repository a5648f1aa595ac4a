SPECIFICATION BusySpec
CONSTANTS
  r1 = r1
  w1 = w1
  w2 = w2
  Requests <- MCRequests
  Wakers <- TwoWakers
  Debug = FALSE
  MaxFaults = 0
PROPERTIES
  WakerEnds
  TrafficGetsThrough
