\* One database at a time, as the test driver does it.
SPECIFICATION FairPairedSpec
CONSTANTS
  NULL = NULL
  Strings <- MCStrings
  INT_MAX = 3
  NOBODY = 2
  Docs <- AllDocs
  Ptr = {p1, p2, p3, p4}
  HandlerStatuses = {"SUCCESS", "NOTFOUND"}
INVARIANTS TypeOK NoFault NoLeak
PROPERTIES KeepsPromise RunsDry
