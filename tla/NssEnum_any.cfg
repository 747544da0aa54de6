\* Any sequence of calls on both databases.  A process that has read freed
\* memory stops.
SPECIFICATION Spec
CONSTANTS
  NULL = NULL
  Strings <- MCStrings
  INT_MAX = 3
  NOBODY = 2
  Docs <- FewDocs
  Ptr = {p1, p2, p3, p4, p5}
  HandlerStatuses = {"SUCCESS"}
SYMMETRY PtrSymmetry
INVARIANTS LeaksOnlyReferences OpenMatchesAreReadable FaultOnlyAfterEnd
CHECK_DEADLOCK FALSE
