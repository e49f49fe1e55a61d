SPECIFICATION Spec
CONSTANTS
  a = a
  b = b
  wa = wa
  NoHook = NoHook
  Jobs = {a, b}
  Hook <- NoHooks
  ExecuteBefore <- DeadlineB
  MaxRetries <- RetriesAB
  QueuedTTL = 3
  Delays = {1}
  ConfiguredMaxConc = 2
  ConcSignals = {0, 1}
  DeadAfter = 1
  SweepEvery = 1
  CmdsCap = 1
  DoneCap = 1
  Horizon = 3
  AcceptUntil = 1
INVARIANTS
  CountsExact
  JobsHeld
  TimersArmed
PROPERTY ImplementsLifecycle
