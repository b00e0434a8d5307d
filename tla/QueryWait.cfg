\* Two queries, waits with and without a timeout, a connection that may stall.
CONSTANTS
  q1 = q1
  q2 = q2
  Query = {q1, q2}
  Sets <- MCSets
  Ids <- MCIds
  Catalog <- OneCard
  IdOf <- MCIdOf
  Serves <- MCServes
  Targets <- OneSet
  BucketSize = 1
  NetworkFails = TRUE
  Disciplined = TRUE
  Forever = Forever
  Timeouts = {1, Forever}
SPECIFICATION WaitSpec
INVARIANTS
  WaitTypeOK
PROPERTIES
  QueryCompletes
  WaitEnds
