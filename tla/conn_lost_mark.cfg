SPECIFICATION Spec
CONSTANTS
  p1 = p1
  p2 = p2
  NoPeer = NoPeer
  Peers <- MCPeers
  MASTER_MAX_NUM = 2
  SLAVE_MAX_NUM = 0
  SmpEnable = TRUE
  USER_PAIR_SLAVE_MAX_NUM = 1
  Keys = {"pair", "unpair"}
  DrainsEvents = TRUE
  ATT_DB_UUID16_NUM = 1
  LowBits <- MCLowBits
  UnaskedAnswers = FALSE
  MaxEvents = 2
SYMMETRY Symmetry
PROPERTIES
  MarkClearedByOwner
