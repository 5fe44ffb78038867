SPECIFICATION Spec
CONSTANTS
  Null = Null
  MaxRows = 4
  MaxZoneLen = 3
  Bound = 1
  Septet = 6
  NumberBits = 8
  ShortBytes = 1
  LongBytes = 2
  ProtoLimit = 8
  FieldLimit = 8
  MaxTag = 15
  IdOf <- MCIdOf
  Layouts <- MCLayouts
  Entries <- MCEntries
  Preds <- MCPreds
  Values <- MCValues
INVARIANTS
  FindsItsStatistics
  SkipIsSound
  SkipIsComplete
PROPERTY
  StaysInZone
\* A scan ends at the last row.
CHECK_DEADLOCK FALSE
