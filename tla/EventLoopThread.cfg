\* Start, use and stop of an event loop thread by two threads.
SPECIFICATION FairThreadSpec
CONSTANTS
  Owner = owner
  Starter = main
  Others = {main, user}
  Tasks = {ta, tb}
  Signals = {}
  OwnerQueuesIdle = FALSE
  StopWhenLooping = TRUE
INVARIANTS PointerValid StopDrains
PROPERTIES QueuedTaskRuns StopLoopReturns
