SPECIFICATION Spec
CONSTANTS
  Files <- MCFiles
  Half = 32
  MaxMetadata = 8
INVARIANTS
  OpensExactly
  SegmentsReadable
\* Open returns once.
CHECK_DEADLOCK FALSE
