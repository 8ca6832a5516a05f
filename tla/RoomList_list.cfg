CONSTANTS
  g1 = g1
  g2 = g2
  g3 = g3
  g4 = g4
  Groups = {g1, g2, g3, g4}
  Silent = {g4}
  Nothing = Nothing
  Live = Live
  Out = Out
  Unsure = Unsure
  MaxTime = 2
  MaxEvents = 2
  MaxRequests = 1
  MaxOpens = 2
  MaxSaves = 1
SPECIFICATION Spec
INVARIANTS TypeOK GroupsOnce ListFollowsNews NoDataIsEmpty
CHECK_DEADLOCK FALSE
SYMMETRY Alike
