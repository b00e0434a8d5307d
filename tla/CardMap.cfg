\* Hashes that differ only in high bits, so that growing fails, is tried again and
\* may be given up, in a word so narrow that the size wraps to 0 and that the table
\* can reach the assertion of grow, which ends the program (hence no deadlock check).
CONSTANTS
  c1 = c1
  c2 = c2
  Cards = {c1, c2}
  NoCard = NoCard
  Keys <- CrowdedKeys
  Hash <- CrowdedHash
  MaxProbes = 2
  Attempts = 2
  Word = 32
SPECIFICATION FairSpec
INVARIANTS
  TypeOK
  ProbesReach
PROPERTIES
  IsIdMap
  SetEnds
  NoSlotsNoEnd
CHECK_DEADLOCK FALSE
