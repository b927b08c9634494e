SPECIFICATION Spec
CONSTANTS
  Pickers = {p1}
  NEvents = 2
  NParsers = 1
  NSinks = 1
  NInfra = 1
  Route <- MCRoute
  ChanCap = 1
  OutCap = 1
  PendCap = 2
  MaxGen = 2
  MaxFaults = 1
INVARIANTS TypeOK EveryEventInOnePlace OldGenerationIsOver PickersResumed
PROPERTIES FollowsDrainHandshake 
CHECK_DEADLOCK FALSE
