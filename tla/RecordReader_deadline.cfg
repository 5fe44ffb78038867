SPECIFICATION Spec
CONSTANTS
  Null = Null
  Rows = 7
  BatchSize = 4
  NumCols = 2
  Pieces <- MCPieces
  Zones <- MCZones
  Checks <- MCChecks
  Wanted <- MCWanted
  Faults = {"deadline"}
  MaxHeld = 0
  MaxRefs = 1
PROPERTY
  StatsNeverFatal
