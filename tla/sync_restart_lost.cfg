CONSTANTS
  Maps = {home}
  Requests = {refresh, load}
  Refresh = refresh
  None = None
  MaxRevision = 1
  MaxRestarts = 1
  MaxTickets = 0
  LoadsMayFail = TRUE
  MaxLoads = 2
  MaxFailures = 1
SPECIFICATION FairSpec
PROPERTY ShowsCurrentProcess
CHECK_DEADLOCK FALSE
