\* Two queries on a small enumerable catalog, a network that fails, an
\* application that behaves as test.c does.
CONSTANTS
  q1 = q1
  q2 = q2
  Query = {q1, q2}
  Sets <- MCSets
  Ids <- MCIds
  Catalog <- TestCatalog
  IdOf <- MCIdOf
  Serves <- HonestServes
  Targets <- SetAndCards
  BucketSize = 1
  NetworkFails = TRUE
  Disciplined = TRUE
SPECIFICATION Spec
SYMMETRY Perms
INVARIANTS
  TypeOK
  FullSetSound
  NegativeCacheSound
  StoreCoherent
  ResultsLive
  RequestsMatchQueries
  TeardownClean
  PassInOrder
PROPERTIES
  KeepsPromise
