\* Stop() while connections are open.
SPECIFICATION Spec
CONSTANTS
  MaxThreads = 2
  MaxNext = 4
  Conns = {c1, c2}
  Fds = {3, 4, 5}
  NULL = NULL
  MaxOthers = 0
  StopInUse = TRUE
  MaxTasks = 2
INVARIANT DestroyedInLoop
SYMMETRY Symmetry
CHECK_DEADLOCK FALSE
