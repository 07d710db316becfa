SPECIFICATION FairSpec
CONSTANTS
  SEQ_NUM = 2
  U8 = 4
  HCI_TX_FIFO_NUM = 2
  slidWinSize = 1
  HostWindow = 1
  ChannelSize = 2
  MaxPackets = 1
  MaxEvents = 1
  MaxSends = 1
  MaxRestarts = 1
  Prompt = TRUE
PROPERTY
  LinkComesUp
CHECK_DEADLOCK FALSE
