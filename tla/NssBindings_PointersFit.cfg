SPECIFICATION ConversionSpec
CONSTANTS
  NIL = NIL
  Conversions <- MCConversions
  Bases = {8, 9, 10, 11}
  Sizes <- MCSizes
  PTR = 8
  SIZE_MAX = 63
INVARIANT PointersFit
CHECK_DEADLOCK FALSE
