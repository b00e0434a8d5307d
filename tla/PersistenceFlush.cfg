\* The disk is full when fclose writes the rest.
CONSTANTS
  c1 = c1
  c2 = c2
  Cards = {c1, c2}
  Sets = {"test"}
  SetOf <- OneSet
  Urls = {"url"}
  Platforms = {TRUE}
  FlushFails = TRUE
SPECIFICATION Spec
INVARIANTS
  SavedIsWhole
