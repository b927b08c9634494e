SPECIFICATION Spec
CONSTANTS
  Modes = {"Daemon"}
  NEvents = 2
  ChanCap = 1
  CmdCap = 2
  MaxReloads = 2
  Collectors = {1, 2, 3}
  TargetOf <- MCTargetOf
  StatMax = 1
  MinCache = 2
  MonitorCap = 1
  DropSinks = {"sink"}
  Ops <- MCOps
  MaxOps = 1
PROPERTY ReloadReturns
CHECK_DEADLOCK FALSE
