CONSTANTS
  Monitors = {m1, m2}
  Initial = {m1}
  MaxClicks = 2
  MaxEdits = 2
  MaxMoves = 2
  MaxOthers = 1
  MaxFailures = 1
  MaxEvents = 4
SPECIFICATION FairSpec
INVARIANTS TypeOK RunsAreFollowed FormAgrees
PROPERTIES DraftSurvivesRefresh RunningSettles
CHECK_DEADLOCK FALSE
