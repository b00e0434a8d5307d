\* The same responses: every number that is accepted prints back.
CONSTANTS
  Responses <- MCResponses
  StringEntries <- MCStringEntries
  Filters <- MCFilters
  Times <- MCTimes
  NoOffset = NoOffset
  StaticSize = 24
  Page = 8
SPECIFICATION Spec
INVARIANTS
  NumberPrintsBack
