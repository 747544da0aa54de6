\* Each step may make 0, 1, 2 or enough allocations.  Without a tree to build
\* on, and at the end, a process stops.
SPECIFICATION TaskSpec
CONSTANTS
  NULL = NULL
  LITERAL = LITERAL
  Items = {p1, p2, p3, p4, p5, p6, p7, p8, p9, p10, p11}
  Texts = {s1, s2, s3, s4, s5, s6, s7, s8, s9}
  Tasks <- MCTasks
  Budgets = {0, 1, 2, 9}
INVARIANTS NothingIsLost ResultIsRight
CHECK_DEADLOCK FALSE
