SPECIFICATION Spec
CONSTANTS
  t1 = t1
  a1 = a1
  a2 = a2
  Others = {t1}
  Addrs = {a1, a2}
  Whens = {1, 2}
  Intervals = {0, 1}
  MinDelay = 1
  MaxTime = 3
  MaxTimers = 3
  MaxPending = 2
INVARIANTS SetsAgree Ownership CancelSticks TimerfdArmed
SYMMETRY Symmetry
CHECK_DEADLOCK FALSE
