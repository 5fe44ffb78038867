SPECIFICATION Spec
CONSTANTS
  Inputs <- MCInputs
  Modulus = 8191
  Base <- MCBase
  Delta <- MCDelta
  DeltaValid <- MCDeltaValid
INVARIANTS
  UnpacksWhatWasPacked
  SumsItsRun
\* A decoder returns once.
CHECK_DEADLOCK FALSE
