CONSTANTS
  Nodes = {n1, n2, n3}
  Links = {l1, l2}
  Groups = {g1}
  FirstNodes = {n1, n2}
  FirstGroups = {g1}
  MaxClicks = 3
  MaxOps = 2
  MaxEvents = 4
  MaxElsewhere = 2
  MaxFailures = 1
SPECIFICATION FairSpec
INVARIANTS TypeOK DeleteHitsInspected CanvasIsSound
PROPERTIES ConnectEnds TypedIsKept SavingEnds
CHECK_DEADLOCK FALSE
