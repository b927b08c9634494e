SPECIFICATION Spec
CONSTANTS
  Script <- MCScript
  Bytes <- MCBytes
  Burst = 1
  MaxBytes = 2
  CoalesceTrigger = 2
  CoalesceMax = 2
  MaxBackoff = 4
  ChanCap = 1
  Limits = {2, 99}
  MaxCmds = 1
  MaxReloads = 1
  Second = 10
  LeaseHits = 2
  MaxLease = 3
  MinRps = 2
  MaxRps = 12
  IncreasePct = 25
  DecreasePct = 85
  StartupPct = 100
  MinStep = 1
  StartupStep = 2
  LowBytes = 3
  HighBytes = 7
  RssGrowth = 3
  RssMax = 20
  Rates = {1, 3, 7}
  Pickers = {1, 2}
  Calls <- MCCalls
  MaxCalls = 4
  Samples <- MCSamples
  MaxSamples = 3
INVARIANTS NothingLeaksFromPending PendingBounded FixedRateHeld AutoRateYields
PROPERTIES HandsOverInOrder TakenIsPosted
CHECK_DEADLOCK FALSE
