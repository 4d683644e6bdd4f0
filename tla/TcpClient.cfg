SPECIFICATION FairSpec
CONSTANTS
  Socks = {s1, s2}
  NULL = NULL
  InitDelay = 1
  MaxDelay = 3
  StopInCallback = FALSE
  MaxTasks = 2
INVARIANTS AssertsHold SocketsOwned StoppedQuiet KeepsTrying
PROPERTIES DisconnectCloses DisconnectEnds
