SPECIFICATION FairSpec
CONSTANTS
  a = a
  b = b
  c = c
  ka = ka
  kb = kb
  ua = ua
  ub = ub
  Jobs = {a, b, c}
  Keys = {ka, kb}
  SharedKey = ka
  KeyOf <- KeyOfABC
  MaxWorkers = 3
  None = None
  NodeDefault = FALSE
  Asks = {b}
  Deliveries = {c}
  Users = {ua, ub}
  UserOf <- UserOfABC
  Owed <- OwedA
  WebhookLimit = 1
  NodeBudget = 2
  Budgets = {1, 2}
  CeilingNum = 3
  CeilingDen = 2
  StartNum = 7
  StartDen = 10
INVARIANTS
  OneLiveWorker
  NoJobStranded
  AdmittedBounded
  LoadExact
PROPERTY CallsReturn
CHECK_DEADLOCK FALSE
