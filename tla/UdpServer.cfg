\* One, two or three workers, three datagrams, a receive buffer of two.
SPECIFICATION FairSpec
CONSTANTS
  Workers = {w1, w2, w3}
  NoPacket = NoPacket
  MaxPackets = 3
  RcvBuf = 2
INVARIANTS PacketsOnce NoSleepOverPacket
PROPERTY PacketsHandled
CHECK_DEADLOCK FALSE
