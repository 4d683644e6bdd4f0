\* Calls from Owner, inside callbacks, and from two other threads; SIGINT and SIGQUIT.
SPECIFICATION FairSpec
CONSTANTS
  Owner = owner
  Others = {th1, th2}
  Tasks = {ta, tb}
  Signals = {2, 3}
  OwnerQueuesIdle = FALSE
INVARIANTS NoLostWakeup DrainOnReturn
PROPERTIES QuitEndsLoop SignalHandled ImplementsTaskQueue
