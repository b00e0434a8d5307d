\* A transfer fails: the assertion of sfc_query_update_parse_result.
CONSTANTS
  q1 = q1
  q2 = q2
  Query = {q1, q2}
  Sets <- MCSets
  Ids <- MCIds
  Catalog <- OneCard
  IdOf <- MCIdOf
  Serves <- HonestServes
  Targets <- SetOrCard
  BucketSize = 1
  NetworkFails = TRUE
  Disciplined = TRUE
SPECIFICATION Spec
SYMMETRY Perms
INVARIANTS
  ParseHasData
