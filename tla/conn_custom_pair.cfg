SPECIFICATION FairSpec
CONSTANTS
  p1 = p1
  p2 = p2
  NoPeer = NoPeer
  Peers <- OnePeer
  MASTER_MAX_NUM = 1
  SLAVE_MAX_NUM = 1
  SmpEnable = FALSE
  USER_PAIR_SLAVE_MAX_NUM = 1
  Keys = {"pair", "unpair", "volume"}
  DrainsEvents = TRUE
  ATT_DB_UUID16_NUM = 1
  LowBits <- MCLowBits
  UnaskedAnswers = TRUE
  MaxEvents = 1
INVARIANTS
  PendingIsConnected
  ListTracksController
PROPERTIES
  DiscoveryEnds
  UnpairFlowEnds
