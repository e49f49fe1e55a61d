SPECIFICATION FairSpec
CONSTANTS
  a = a
  b = b
  wa = wa
  NoHook = NoHook
  Jobs = {a, wa}
  Hook <- HookA
  ExecuteBefore <- DeadlineA
  MaxRetries <- RetriesA
  QueuedTTL = 3
  Delays = {1}
  ConfiguredMaxConc = 1
  ConcSignals = {0, 2}
  DeadAfter = 0
  SweepEvery = 0
  CmdsCap = 1
  DoneCap = 1
  Horizon = 3
  AcceptUntil = 1
PROPERTIES
  EveryJobEnds
  StopReturns
