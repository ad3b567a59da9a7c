SPECIFICATION FairSpec
CONSTANTS
  COUNT_THRESHOLD = 2
  BACKLOG = 2
  MaxRequests = 3
  MaxFailures = 1
CHECK_DEADLOCK FALSE
INVARIANTS
  OneDogPerBreed
PROPERTIES
  EveryStartAnswered
