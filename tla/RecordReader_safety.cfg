SPECIFICATION DrainSpec
CONSTANTS
  Null = Null
  Rows = 7
  BatchSize = 4
  NumCols = 2
  Pieces <- MCPieces
  Zones <- MCZones
  Checks <- MCChecks
  Wanted <- MCWanted
  Faults = {"failed"}
  MaxHeld = 2
  MaxRefs = 2
INVARIANTS
  TypeOK
  RefcountExact
  FalseReleasesAll
  SliceInBounds
  NoGapNoStall
  NoWantedRowLost
  PruningExact
PROPERTIES
  StatsNeverFatal
  ImplementsRowStream
  NextReturns
  DrainFreesAll
