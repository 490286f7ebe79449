SPECIFICATION Spec
CONSTANTS
  Mbufs = {m1, m2, m3, m4}
  BurstSize = 2
  TxRing = 1
  RxRing = 2
  AdvPeriod = 2
  MaxCount = 2
  Transports = {"udp", "raw", "dpdk"}
  Second = 6
  MaxDelay = 3
  MaxGap = 2
  MaxTime = 13
  QueueLen = 2
  PoolSize = 4
  TxDescriptors = 1
  Peers = {"a", "b"}
  BurstMsgs = 2
  RcvQueue = 2
  MaxFrames = 4
SYMMETRY Perms
INVARIANTS OnlyAdvertisementsLeak SendsOwnFrames
INVARIANTS CountsTheLastRequest ClientstKeepsMbufs
INVARIANTS SocketAccounts RepliesToSenders WholeFramesMeasuredOnce
CHECK_DEADLOCK FALSE
