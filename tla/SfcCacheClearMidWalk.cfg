\* The application clears the cache during a set walk.
CONSTANTS
  q1 = q1
  q2 = q2
  Query = {q1, q2}
  Sets <- MCSets
  Ids <- MCIds
  Catalog <- TestCatalog
  IdOf <- MCIdOf
  Serves <- HonestServes
  Targets <- SetAndCards
  BucketSize = 1
  NetworkFails = TRUE
  Disciplined = FALSE
SPECIFICATION Spec
SYMMETRY Perms
INVARIANTS
  FullSetSound
