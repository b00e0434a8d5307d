\* One card from the response over saves and loads under changing filters.
CONSTANTS
  Responses <- MCResponses
  StringEntries <- MCStringEntries
  Filters <- MCFilters
  Times <- MCTimes
  NoOffset = NoOffset
  StaticSize = 24
  Page = 8
SPECIFICATION Spec
INVARIANTS
  TypeOK
  StringsRight
  CardRight
  CutRejected
  LoadsBack
  NumberKept
  NotFoundSaid
PROPERTIES
  StringsMoveOnce
