CONSTANTS
  u1 = u1
  u2 = u2
  u3 = u3
  Users = {u1, u2, u3}
  Creator = u1
  First = {u1, u2}
  None = None
  MaxScreens = 2
  MaxFaults = 1
SPECIFICATION Spec
INVARIANT LeavingKeepsGroup
CHECK_DEADLOCK FALSE
