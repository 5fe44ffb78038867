SPECIFICATION FlatSpec
CONSTANTS
  Segments <- MCSegments
  SoundSegment <- MCSound
  Arrays <- MCArrays
  MaxSegment = 8
  DecodeTree <- DecodeArray
  Null = Null
  Septet = 6
  NumberBits = 8
  ShortBytes = 1
  LongBytes = 2
  ProtoLimit = 8
  FieldLimit = 8
  MaxTag = 15
  Width = 3
  LeftWidth = 2
  Block = 2
  ByteBits = 2
  NarrowLog = 1
  WideLog = 2
  NarrowPrecision = 3
  WidePrecision = 7
  Radix = 2
  MaxDecode = 512
  Inline = 2
  Prefix = 1
  SymbolSize = 2
  Escape = 3
  WordBytes = 2
  DaySeconds = 2
  UnitRadix = 2
  MaxPage = 3
  AlpLimit = 2
  MaxDepth = 3
  IsUtf8 <- MCIsUtf8
  AlpFloat <- MCAlpFloat
INVARIANTS
  BuffersExact
  DecodesItsMeaning
  RefusesTheUnsound
  SharesOneBudget
\* decodeFlat returns once.
CHECK_DEADLOCK FALSE
