\* Requests of two threads while the file is edited; and two requests of each
\* kind with documents of up to six bytes in all pieces that may arrive, and
\* buffers of read_data in steps of three.  A process that has left its memory
\* or exited stops, and so do the requests.
SPECIFICATION MCSpec
CONSTANTS
  NULL = NULL
  HASHMAX = 73
  Keys <- MCKeys
  CharSum <- MCCharSum
  Values <- MCValues
  Files <- MCFiles
  Ptr = {p1, p2, p3}
  Thread = {t1, t2}
  MaxReads = 2
  NIL = NIL
  NEWLINE = n
  Chars = {x, n}
  NUL = NUL
  JUNK = JUNK
  BUFSIZE = 3
  MaxLength = 6
  MaxRequests = 2
SYMMETRY Symmetry
INVARIANTS
  OnlyTheTableIsUsed NothingIsLeft FollowsTheFile
  DocumentIsWhole StaysInside OnlyFailuresLoseTheBuffer
CHECK_DEADLOCK FALSE
