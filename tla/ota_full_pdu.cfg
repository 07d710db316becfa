SPECIFICATION OtaSpec
CONSTANTS
  OTA_PDU_LENGTH = 4
  ALIGNMENT = 2
  FW_SIZE_MIN = 4
  FW_SIZE_MAX = 11
  TX_FIFO_LIMIT = 2
  OtaBuilds <- MCOtaBuilds
  NewFwAddrs = {512, 768}
  FwSizes = {8}
  MaxOtas = 1
PROPERTY
  DataIsFirmware
CHECK_DEADLOCK FALSE
