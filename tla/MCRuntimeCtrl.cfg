SPECIFICATION CtrlSpec
CONSTANTS
  Reqs = {r1, r2, r3}
  Results = {done, forced}
  NoReq = NoReq
  NoResult = NoResult
  Buffer = 1
INVARIANTS CtrlTypeOK SingleFlight SendNeverBlocks StatusTruthful
PROPERTIES AnswerIsFinal 
CHECK_DEADLOCK FALSE
