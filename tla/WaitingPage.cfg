SPECIFICATION FairSpec
CHECK_DEADLOCK FALSE
CONSTANTS
  r1 = r1
  w1 = w1
  g1 = g1
  Requests <- MCRequests
  Wakers <- MCWakers
  Pages <- MCPages
  MaxCuts = 1
  Buffer = 2
INVARIANTS
  TypeOK
  NoOneForgotten
PROPERTIES
  PageGetsThrough
