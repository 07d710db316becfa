SPECIFICATION H4Spec
CONSTANTS
  HCI_H4_TR_RX_BUF_NUM = 4
  HCI_RX_FIFO_NUM = 8
  PtrVals = 256
  CntVals = 256
  H4BufSize = 572
  HostCredits = 1
  Shapes <- LongestPacket
  Payload = 1
  MaxSent = 1
  MaxSessions = 1
  MaxUartErrors = 0
CONSTRAINT Halves
INVARIANT NothingLeftBehind
CHECK_DEADLOCK FALSE
