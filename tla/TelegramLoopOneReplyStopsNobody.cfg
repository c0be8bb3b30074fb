\* Two players, one of whom may block the bot while the token stays good.
SPECIFICATION Spec
CONSTANTS
  Users = {1, 2}
  Capacity = 3
  Cost = 2
  MaxBuckets = 1
  MaxUpdates = 2
  Limit = 2
  MaxFailures = 2
  MaxEnds = 1
  MaxBlocked = 1
  MayRevoke = TRUE
CONSTRAINT
  SendersInOrder
INVARIANT
  OneReplyStopsNobody
