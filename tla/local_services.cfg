SPECIFICATION ServicesSpec
CONSTANTS
  NoPeer = NoPeer
  Peers = {"p1", "p2"}
  MASTER_MAX_NUM = 2
  SLAVE_MAX_NUM = 2
  SlaveMacs = {"m1", "m2", "m3", "m4"}
  Blank = Blank
  Erased = Erased
  Unknown = Unknown
  UNITS = 8
  USER_PAIR_SLAVE_MAX_NUM = 3
  SdpPeers = {"a", "b"}
  AttHandles = {"x", "y"}
  SDP_UNITS = 3
  CallBacks = {"led", "audio"}
  MAX_TIMER_NUM = 3
  ClockVals = 36
  COMPARE_RANGE = 9
  SAFE_MARGIN_PRE = 1
  SAFE_MARGIN_POST = 4
  WAKEUP_RANGE = 3
  Intervals = {2, 4}
  Gap = 1
  VolumeKeys = {"CR_VOL_UP", "CR_VOL_DN"}
  PairKeys = {"BTN_PAIR"}
  ScanPin <- MCScanPin
  RELEASE_SCANS = 6
  Keys = {"a"}
  MediaKeys = {"mute"}
  NoKey = "none"
  USB_FIFO_NUM = 2
  FifoPtrVals = 4
  OTA_PDU_LENGTH = 4
  ALIGNMENT = 2
  FW_SIZE_MIN = 4
  FW_SIZE_MAX = 11
  TX_FIFO_LIMIT = 2
  OtaBuilds <- MCOtaBuilds
  NewFwAddrs = {512, 768}
  FwSizes = {3, 5, 11}
  MaxOtas = 3
  BufNum <- MCBufNum
  MaxDepth = 2
INVARIANTS
  DevTypeOK
  CountsMatch
  TypeOK
  NeverHangs
  TableIsFlash
  FoundIsDiscovered
  TimersInOrder
  NeverMissed
  WakeupIsFront
  KeysFollow
  ScansEndReleased
  PairingNeedsKey
  NoKeySticks
  SequenceKept
  PoolsIntact
  InterruptsBack
PROPERTIES
  EntriesNotOverwritten
  ImplementsBondList
  FifoKeepsNewest
  SuccessIsWhole
CHECK_DEADLOCK FALSE
