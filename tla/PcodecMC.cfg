SPECIFICATION PcoSpec
CONSTANTS
  ByteBits = 8
  AnsLanes = 2
  Batch = 4
  MaxPage = 12
  IndexWidth = 3
  ConvWidth = 3
  BiasWidth = 8
  WeightWidth = 7
  Precision = 2
  Streams <- MCStreams
  FloatMultiplier <- MCFloatMultiplier
  FloatOf <- MCFloatOf
  FloatTimes <- MCFloatTimes
INVARIANTS
  DecodesWhatWasEncoded
  StatesInTable
  RefusesTheDamaged
CHECK_DEADLOCK FALSE
