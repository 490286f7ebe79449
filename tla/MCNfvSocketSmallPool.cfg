SPECIFICATION SocketSpec
CONSTANTS
  SockTypes = {"dpdk"}
  BurstSize = 2
  HowMany = {2}
  Sockets = {s1, s2}
  Senders = {s1}
  Receivers = {s2}
  Mbufs = {m1, m2, m3, m4}
  NULL = NULL
  TxRing = 1
  RxRing = 1
  Modes <- UdpAndRaw
  Tags = {a}
  Foreign = FALSE
  RxQueue = 0
SYMMETRY Perms
INVARIANT NeverFaults
