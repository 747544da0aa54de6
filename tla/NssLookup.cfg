\* Keyed calls on one document after another; and every small record and
\* every buffer up to one that is large enough, at each alignment.  A
\* conversion that has ended stays where it is.
SPECIFICATION MCSpec
CONSTANTS
  NULL = NULL
  Strings <- MCStrings
  INT_MAX = 1
  NOBODY = 0
  Docs <- MCDocs
  HandlerStatuses = {"SUCCESS", "NOTFOUND"}
  NIL = NIL
  Conversions <- MCConversions
  Bases = {8, 9, 10, 11}
  Sizes <- MCSizes
  PTR = 8
  SIZE_MAX = 63
INVARIANTS FoundIffListedOnce RoundTrip SafeUnlessTight SucceedsIffItFits
CHECK_DEADLOCK FALSE
