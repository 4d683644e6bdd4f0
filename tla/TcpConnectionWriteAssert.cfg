SPECIFICATION Spec
CONSTANTS
  short = short
  long = long
  Others = {t1}
  Msgs = {short, long}
  MsgLen <- MCMsgLen
  SndBuf = 2
  MaxIn = 1
  MaxTasks = 2
INVARIANT WriteAssertHolds
CHECK_DEADLOCK FALSE
