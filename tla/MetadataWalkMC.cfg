SPECIFICATION FairSpec
CONSTANTS
  Graphs <- MCGraphs
  MaxDepth = 3
  MaxNodes = 8
  Encodings = 1
  Targets = 1
INVARIANTS
  WorkBounded
  EveryNumberResolves
  ParsesTheUnfolding
PROPERTY
  ParsingEnds
\* Parsing stops once it ended.
CHECK_DEADLOCK FALSE
