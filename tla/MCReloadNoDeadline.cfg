SPECIFICATION SpecBeforeDeadline
CONSTANTS
  Pickers = {p1}
  NEvents = 2
  NParsers = 1
  NSinks = 1
  NInfra = 1
  Route <- MCRoute
  ChanCap = 1
  OutCap = 1
  PendCap = 2
  MaxGen = 2
  MaxFaults = 0
PROPERTY DrainEndsByItself
CHECK_DEADLOCK FALSE
