SPECIFICATION Spec
CONSTANTS
  Null = Null
  Trees <- MCTrees
  Fields <- MCFields
  Half = 8
INVARIANTS
  PlanTilesRows
  EveryRowItsLeaf
  ZonesDescribeValues
  RefusesExactly
CHECK_DEADLOCK FALSE
