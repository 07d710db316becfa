SPECIFICATION Spec
CONSTANTS
  SEQ_NUM = 8
  U8 = 256
  HCI_TX_FIFO_NUM = 8
  slidWinSize = 1
  HostWindow = 1
  ChannelSize = 2
  MaxPackets = 0
  MaxEvents = 2
  MaxSends = 3
  MaxRestarts = 0
  Prompt = FALSE
INVARIANT
  SentWasQueued
CHECK_DEADLOCK FALSE
