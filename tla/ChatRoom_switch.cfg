CONSTANTS
  r1 = r1
  r2 = r2
  Rooms = {r1, r2}
  Direct = {r2}
  NoRoom = NoRoom
  None = None
  Page = 2
  FirstPosts <- MCLong
  LastPost = 3
  Busy = {r1, r2}
  MaxOpens = 2
  MaxLoads = 0
  MaxSends = 0
  MaxEdits = 0
  MaxDrops = 1
  MaxLate = 1
SPECIFICATION Spec
INVARIANTS OwnMessagesOnce ScreenMatchesList
CHECK_DEADLOCK FALSE
