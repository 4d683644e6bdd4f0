\* Two connections, three descriptors of which one is the idle one, no to two loops.
SPECIFICATION FairSpec
CONSTANTS
  MaxThreads = 2
  MaxNext = 4
  Conns = {c1, c2}
  Fds = {3, 4, 5}
  NULL = NULL
  MaxOthers = 1
  StopInUse = FALSE
  MaxTasks = 2
INVARIANTS ListConsistent FreedClean DownOnce IdleOwned
PROPERTIES RemovalCompletes BacklogServed
CHECK_DEADLOCK FALSE
