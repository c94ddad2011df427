CONSTANTS
  Handlers = {h1}
  Executions = {e1}
  Clients = {c1}
  HistoryLimit = 2
  BufferLimit = 2
  MaxRevision = 5
SPECIFICATION FairSpec
INVARIANTS TypeOK NothingMissed JournalIsTrue
PROPERTY KeepsPromise
