\* The texts of CJsonText.cfg: a text is rejected without an error pointer.
SPECIFICATION TextSpec
CONSTANTS
  NULL = NULL
  NUL = NUL
  JUNK = JUNK
  INT_MAX = 24
  Initial = 6
  Sizes <- MCSizes
  Symbols <- MCSymbols
  Trees <- MCTrees
  MaxTokens = 6
  MaxItems = 5
  MaxStrings = 4
INVARIANT ErrorPointerIsSet
CHECK_DEADLOCK FALSE
