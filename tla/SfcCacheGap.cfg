\* A set whose collector numbers have a gap.
CONSTANTS
  q1 = q1
  q2 = q2
  Query = {q1, q2}
  Sets <- MCSets
  Ids <- MCIds
  Catalog <- GapCatalog
  IdOf <- MCIdOf
  Serves <- HonestServes
  Targets <- SetAndCards
  BucketSize = 1
  NetworkFails = TRUE
  Disciplined = TRUE
SPECIFICATION Spec
SYMMETRY Perms
INVARIANTS
  FullSetSound
