SPECIFICATION FairSpec
CONSTANTS
  None = None
  Nodes = {a, b}
  MaxEntries = 3
  MaxPending = 2
  BatchSize = 2
  ReceiverMax = 1
  Huge = {2}
  GrowAfter = 2
  MaxFaults = 2
INVARIANT NothingMissed
PROPERTY Exported
CHECK_DEADLOCK FALSE
