\* Three players, two buckets of a token and a half each, three updates, two to a poll.
SPECIFICATION FairSpec
CONSTANTS
  Users = {1, 2, 3}
  Capacity = 3
  Cost = 2
  MaxBuckets = 2
  MaxUpdates = 3
  Limit = 2
  MaxFailures = 2
  MaxEnds = 1
  MaxBlocked = 1
  MayRevoke = TRUE
CONSTRAINT
  SendersInOrder
INVARIANTS
  HandledOncePerProcess
  BucketsMatchEagerOnes
PROPERTIES
  StopsWhenAsked
  EveryUpdateIsHandled
  DeadEndpointIsReported
