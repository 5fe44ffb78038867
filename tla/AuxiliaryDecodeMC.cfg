SPECIFICATION Spec
CONSTANTS
  Trees <- MCTrees
  MaxRows = 7
  Half = 8
INVARIANTS
  OwnershipExact
  DecodesItsRows
\* Decoding stops once it gave its result.
CHECK_DEADLOCK FALSE
