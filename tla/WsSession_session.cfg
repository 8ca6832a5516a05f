CONSTANTS
  u1 = u1
  u2 = u2
  Users = {u1, u2}
  NoUser = NoUser
  Blank = Blank
  MaxFrames = 1
  MaxDrops = 2
  MaxLogins = 1
  MaxLogouts = 2
  MaxLate = 1
SPECIFICATION Spec
INVARIANTS TypeOK ConnectedIsCurrent LoginAfterConnect
PROPERTIES StaysLoggedOut KeepsSession LoginIsAnswered SessionHeals SplashLeft
CHECK_DEADLOCK FALSE
