SPECIFICATION Spec
CONSTANTS
  NSinks = 2
  NRec = 3
  LossyIn <- MCLossy
  Wants <- MCWants
  NameOf <- MCNames
  MetaOf <- MCMeta
  BatchSize = 2
  QueueCap = 2
  InboxCap = 1
  MaxFiles = 3
  MaxFaults = 2
  Unit = 1
  MaxInterrupts = 1
  MaxReplayFaults = 1
INVARIANTS TypeOK OneOwner HandleSendsNeverWait OneFilePerOutage SettlesInOrder
  EveryRecordDispatched
PROPERTIES FinalizedByDelivery RemovedAfterReplay SinkComesBack RescueEnds
CHECK_DEADLOCK FALSE
