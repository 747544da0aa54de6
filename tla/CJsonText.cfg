\* All trees of MCTrees in buffers of all sizes, printed and parsed again; all
\* texts of up to six tokens; every allocation failing.  A parser that has
\* answered stops, and so does a printer that has left its buffer.
SPECIFICATION TextSpec
CONSTANTS
  NULL = NULL
  NUL = NUL
  JUNK = JUNK
  INT_MAX = 24
  Initial = 6
  Sizes <- MCSizes
  Symbols <- MCSymbols
  Trees <- MCTrees
  MaxTokens = 6
  MaxItems = 5
  MaxStrings = 4
INVARIANTS
  WritesStayInside OnlyTheTextIsLeft PrintsTheTree
  EverythingIsHeldOnce AnswerIsRight
PROPERTY EveryTextIsAnswered
CHECK_DEADLOCK FALSE
