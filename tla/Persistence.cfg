\* rename() replaces a file or does not; any step may fail or be the last.
CONSTANTS
  c1 = c1
  c2 = c2
  Cards = {c1, c2}
  Sets = {"test"}
  SetOf <- OneSet
  Urls = {"url"}
  Platforms = {TRUE, FALSE}
  FlushFails = FALSE
SPECIFICATION Spec
INVARIANTS
  TypeOK
  FullSetSound
  SavedIsWhole
PROPERTIES
  SaveIsAtomic
  RemovedLast
