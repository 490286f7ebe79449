SPECIFICATION SocketSpec
CONSTANTS
  SockTypes = {"dgram", "raw", "dpdk"}
  BurstSize = 2
  HowMany = {0, 1, 2, 3}
  Sockets = {s1}
  Senders = {s1}
  Receivers = {s1}
  Mbufs = {m1, m2, m3, m4}
  NULL = NULL
  TxRing = 1
  RxRing = 2
  Modes <- UdpAndRaw
  Tags = {a, b}
  Foreign = FALSE
  RxQueue = 2
SYMMETRY Perms
INVARIANTS TypeOK Conservation SendsOnlyOutgoing ReceivesOnlyIncoming
INVARIANTS SimpleTypeOK HandsOverWhatCame EchoesInOrder SimpleSendsOnlyOutgoing
PROPERTIES HonoursContract ContractUntilSendmmsgRepeats
CHECK_DEADLOCK FALSE
