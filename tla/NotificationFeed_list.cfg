CONSTANTS
  PerPage = 1
  None = None
  MaxCreated = 2
  MaxRequests = 3
  MaxReads = 1
  MaxLogouts = 1
SPECIFICATION Spec
INVARIANTS TypeOK Paged OneNextPage LoadingHasRequest
PROPERTY LoadingEnds
CHECK_DEADLOCK FALSE
