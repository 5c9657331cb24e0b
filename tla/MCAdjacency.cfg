SPECIFICATION AdjSpec
CONSTANTS
  own_router = own_router
  own_network = own_network
  nbr_router = nbr_router
  nbr_network = nbr_network
  RouterId = 2
  NbrIds = {1, 3}
  MaxSeq = 2
  Swap <- MCSwap
  LSAs = {own_router, nbr_router, nbr_network}
  ReqKey <- DistinctKeys
  SelfRouter = own_router
  SelfNetwork = own_router
  HostIsDR = FALSE
  DDLimit = 1
  CanExit = TRUE
  MaxThreads = 1
  MaxReq = 2
  MaxRxmt = 4
  MaxNegotiations = 1
  MaxLSU = 1
  PeerLSAs <- MCPeerLSAs
  PeerStarts = {"fresh", "remembers"}
  PeerSeq <- MCPeerSeq
  ChanCap = 3
  MaxLosses = 2
INVARIANTS
  AdjTypeOK
  NeverCrashes
  FullMeansEqual
  DescribedMasterIsLast

  
CONSTRAINT Explored
CHECK_DEADLOCK FALSE
