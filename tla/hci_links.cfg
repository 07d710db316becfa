SPECIFICATION LinksSpec
CONSTANTS
  SEQ_NUM = 2
  U8 = 4
  HCI_TX_FIFO_NUM = 2
  slidWinSize = 1
  HostWindow = 1
  ChannelSize = 2
  MaxPackets = 3
  MaxEvents = 1
  MaxSends = 2
  MaxRestarts = 1
  Prompt = FALSE
  HCI_H4_TR_RX_BUF_NUM = 2
  HCI_RX_FIFO_NUM = 2
  PtrVals = 4
  CntVals = 7
  H4BufSize = 6
  HostCredits = 2
  Shapes <- MCShapes
  Payload = 1
  MaxSent = 2
  MaxSessions = 2
  MaxUartErrors = 1
INVARIANTS
  TypeOK
  InOrderOnce
  AckedIsReceived
  NoLateSync
  PacketsAsSent
  NothingLeftBehind
CHECK_DEADLOCK FALSE
