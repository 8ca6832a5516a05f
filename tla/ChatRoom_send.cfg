CONSTANTS
  r1 = r1
  r2 = r2
  Rooms = {r1, r2}
  Direct = {r2}
  NoRoom = NoRoom
  None = None
  Page = 2
  FirstPosts <- MCLong
  LastPost = 3
  Busy = {r1}
  MaxOpens = 1
  MaxLoads = 1
  MaxSends = 1
  MaxEdits = 1
  MaxDrops = 0
  MaxLate = 0
SPECIFICATION Spec
INVARIANTS TypeOK NewestFirst
CHECK_DEADLOCK FALSE
