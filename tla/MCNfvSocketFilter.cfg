SPECIFICATION SocketSpec
CONSTANTS
  SockTypes = {"raw"}
  BurstSize = 2
  HowMany = {1, 2, 3}
  Sockets = {s1}
  Senders = {s1}
  Receivers = {s1}
  Mbufs = {m1}
  NULL = NULL
  TxRing = 1
  RxRing = 1
  Modes <- UdpAndRaw
  Tags = {a, b}
  Foreign = TRUE
  RxQueue = 2
INVARIANT HandsOverWhatCame
