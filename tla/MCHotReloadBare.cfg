SPECIFICATION Spec
CONSTANTS
  Pickers = {p1}
  NEvents = 3
  NParsers = 2
  NSinks = 0
  NInfra = 0
  Route <- MCNoRoute
  ChanCap = 1
  OutCap = 1
  PendCap = 2
  MaxGen = 3
  MaxFaults = 0
INVARIANTS  QuiescedMeansEmpty
CHECK_DEADLOCK FALSE
