\* Two threads without a lock between them.  A process that has read freed
\* memory stops, and so does one that has used up its time or its memory.
SPECIFICATION Spec
CONSTANTS
  NULL = NULL
  Thread = {t1, t2}
  Ptr = {p1, p2, p3, p4}
  INTERVAL = 2
  MaxCpu = 4
SYMMETRY Symmetry
INVARIANTS TypeOK NoFaultUnlessRaced NoLeakUnlessRaced LatestFetchUnlessRaced PrivateCopies
PROPERTIES FetchSpacing
CHECK_DEADLOCK FALSE
