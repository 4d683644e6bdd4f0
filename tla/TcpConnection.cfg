SPECIFICATION FairSpec
CONSTANTS
  short = short
  long = long
  Others = {t1}
  Msgs = {short, long}
  MsgLen <- MCMsgLen
  SndBuf = 2
  MaxIn = 1
  MaxTasks = 2
INVARIANTS StreamIntact WritingMatches DownOnce
PROPERTIES OutputDrains CloseCompletes
CHECK_DEADLOCK FALSE
