CONSTANTS
  Maps = {home}
  Requests = {refresh, load}
  Refresh = refresh
  None = None
  MaxRevision = 1
  MaxRestarts = 1
  MaxTickets = 0
  LoadsMayFail = TRUE
  MaxLoads = 2
  MaxFailures = 3
SPECIFICATION FairSpec
INVARIANT TypeOK
INVARIANT AppliedIsShown
INVARIANT RecoveryIsScheduled
PROPERTY DisposedStaysQuiet
PROPERTY RevisionNeverGoesBack
PROPERTY RestartNotUndone
PROPERTY Recovers
CHECK_DEADLOCK FALSE
