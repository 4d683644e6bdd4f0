\* Channels share descriptors and descriptors leave gaps.
SPECIFICATION Spec
CONSTANTS
  c1 = c1
  c2 = c2
  c3 = c3
  Chans = {c1, c2, c3}
  Tied = {c1}
  NULL = NULL
  MaxFd = 3
  InitSize = 2
SYMMETRY ChanSymmetry
INVARIANTS AssertsHold KernelMatches TableConsistent ActiveValid
CHECK_DEADLOCK FALSE
