SPECIFICATION FairSpec
CONSTANTS
  Size = 5
  MaxRead = 2
  Limit = 4
  Offsets <- MCOffsets
  Lengths <- MCLengths
  Width = 4
INVARIANTS
  ReadsInsideFile
  ReadWhole
  FailsOnlyIfSourceDid
PROPERTY
  ReadReturns
