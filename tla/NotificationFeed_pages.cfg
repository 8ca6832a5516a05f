CONSTANTS
  PerPage = 1
  None = None
  MaxCreated = 3
  MaxRequests = 4
  MaxReads = 0
  MaxLogouts = 0
SPECIFICATION Spec
INVARIANT NextPageOnce
CHECK_DEADLOCK FALSE
