SPECIFICATION Spec
CONSTANTS
  Modes = {"Daemon"}
  NEvents = 2
  ChanCap = 1
  CmdCap = 6
  MaxReloads = 1
  Collectors = {1, 2, 3}
  TargetOf <- MCTargetOf
  StatMax = 1
  MinCache = 2
  MonitorCap = 1
  DropSinks = {"sink"}
  Ops <- MCOps
  MaxOps = 1
PROPERTY PickersEndEndsService
CHECK_DEADLOCK FALSE
