CONSTANTS
  Nodes = {n1}
  Spots = {1}
  GroupSpots = {2}
  MaxDrops = 3
  MaxGroupDrags = 1
  MaxFailures = 2
  MaxEvents = 4
SPECIFICATION FairSpec
INVARIANTS TypeOK ReportIsTrue
PROPERTIES MembersFollow ShownConverges
CHECK_DEADLOCK FALSE
