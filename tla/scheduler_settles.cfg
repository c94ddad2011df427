CONSTANTS
  Monitors = {m1, m2}
  Configs = {a}
  Runs = {r1}
  Requests = {q1}
  Saves = {s1}
  Concurrency = 1
  ReceiptLimit = 1
  MaxEdits = 1
  MaxHalts = 0
  LoadMayFail = FALSE
  None = None
SPECIFICATION FairSpec
INVARIANT WithinCapacity
PROPERTY QueuedSettles
