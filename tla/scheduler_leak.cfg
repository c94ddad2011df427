CONSTANTS
  Monitors = {m1}
  Configs = {a, b}
  Runs = {r1, r2}
  Requests = {q1}
  Saves = {s1}
  Concurrency = 1
  ReceiptLimit = 1
  MaxEdits = 1
  MaxHalts = 0
  LoadMayFail = FALSE
  None = None
SPECIFICATION Spec
INVARIANT UnavailableAfterCancellation
