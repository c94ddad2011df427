CONSTANTS
  Handlers = {h1, h2}
  Executions = {}
  Clients = {c1}
  HistoryLimit = 3
  BufferLimit = 1
  MaxRevision = 3
SPECIFICATION Spec
INVARIANT NothingTruncated
