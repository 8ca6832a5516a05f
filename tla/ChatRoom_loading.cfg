CONSTANTS
  r1 = r1
  r2 = r2
  Rooms = {r1, r2}
  Direct = {r2}
  NoRoom = NoRoom
  None = None
  Page = 2
  FirstPosts <- MCEmpty
  LastPost = 3
  Busy = {}
  MaxOpens = 2
  MaxLoads = 1
  MaxSends = 0
  MaxEdits = 0
  MaxDrops = 0
  MaxLate = 2
SPECIFICATION Spec
PROPERTY LoadingEnds
INVARIANT LoadingFlags
CHECK_DEADLOCK FALSE
