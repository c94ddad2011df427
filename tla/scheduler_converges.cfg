CONSTANTS
  Monitors = {m1}
  Configs = {a, b}
  Runs = {r1}
  Requests = {q1}
  Saves = {s1}
  Concurrency = 1
  ReceiptLimit = 1
  MaxEdits = 1
  MaxHalts = 0
  LoadMayFail = TRUE
  None = None
SPECIFICATION RecoveringSpec
PROPERTY Converges
