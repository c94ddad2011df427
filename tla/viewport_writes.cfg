CONSTANTS
  MaxMoves = 4
  MaxExits = 2
  MaxFailures = 2
SPECIFICATION FairSpec
INVARIANTS TypeOK NewestWins
PROPERTIES EarlierNeverWins Drains
CHECK_DEADLOCK FALSE
