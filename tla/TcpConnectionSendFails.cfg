SPECIFICATION FairSpec
CONSTANTS
  short = short
  long = long
  Others = {t1}
  Msgs = {short, long}
  MsgLen <- MCMsgLen
  SndBuf = 2
  MaxIn = 1
  MaxTasks = 2
PROPERTY SendFailureCloses
CHECK_DEADLOCK FALSE
