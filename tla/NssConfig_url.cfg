SPECIFICATION Spec
CONSTANTS
  NULL = NULL
  HASHMAX = 73
  Keys <- MCKeys
  CharSum <- MCCharSum
  Values <- MCValues
  Files <- MCFiles
  Ptr = {p1, p2, p3}
  Thread = {t1, t2}
  MaxReads = 2
SYMMETRY Symmetry
INVARIANT UrlIsTheUrl
CHECK_DEADLOCK FALSE
