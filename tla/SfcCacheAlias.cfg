\* A server that answers a key with a card of another version, and an
\* application that clears and destroys the cache whenever it likes.
CONSTANTS
  q1 = q1
  q2 = q2
  Query = {q1, q2}
  Sets <- MCSets
  Ids <- MCIds
  Catalog <- AliasCatalog
  IdOf <- MCIdOf
  Serves <- AliasServes
  Targets <- AliasTargets
  BucketSize = 1
  NetworkFails = TRUE
  Disciplined = FALSE
SPECIFICATION Spec
SYMMETRY Perms
INVARIANTS
  StoreCoherent
  RequestsMatchQueries
  VersionServed
