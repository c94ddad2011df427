CONSTANTS
  Monitors = {m1}
  Configs = {a, b}
  Runs = {r1, r2}
  Requests = {q1}
  Saves = {s1}
  Concurrency = 1
  ReceiptLimit = 1
  MaxEdits = 2
  MaxHalts = 2
  LoadMayFail = TRUE
  None = None
SPECIFICATION Spec
SYMMETRY Symmetry
INVARIANTS
  TypeOK
  QueueIsOwned
  UncancelledIsCurrent
  ReceiptsBounded
  CompletedIsPersisted
PROPERTIES
  CompletedWhileCurrent
  ReceiptsSettleOnce
