SPECIFICATION FairSpec
CONSTANTS
  Sessions = {a, b}
  MaxClients = 2
  MaxUpstreams = 2
  MaxWaiting = 2
  Advertised = {1}
  MaxTries = 1
INVARIANTS
  ActiveExact
  LineExact
PROPERTIES
  SlotUsed
  CloseEnds
CHECK_DEADLOCK FALSE
