\* Trees of up to four items, or of fewer with strings, held as one or two.
\* That is all the memory there is, so that a copy of more than two items fails.
\* A client that has used NULL stops.
SPECIFICATION Spec
CONSTANTS
  NULL = NULL
  LITERAL = LITERAL
  Items = {p1, p2, p3, p4}
  Texts = {s1, s2}
  Budgets = {0, 1, 2, 3}
  MaxLive = 4
  MaxRoots = 2
  MaxCount = 2
SYMMETRY Symmetry
INVARIANTS ListsAreSound EveryItemIsOwned EveryTextIsOwned CopyIsIdentical
CHECK_DEADLOCK FALSE
