SPECIFICATION Spec
CONSTANTS
  own_router = own_router
  own_network = own_network
  nbr_router = nbr_router
  nbr_network = nbr_network
  RouterId = 2
  NbrIds = {1, 3}
  MaxSeq = 2
  Swap <- MCSwap
  LSAs = {own_router, nbr_router}
  ReqKey <- DistinctKeys
  SelfRouter = own_router
  SelfNetwork = own_router
  HostIsDR = FALSE
  DDLimit = 1
  CanExit = FALSE
  MaxThreads = 99
  MaxReq = 2
  MaxRxmt = 3
  MaxNegotiations = 2
  MaxLSU = 1
CHECK_DEADLOCK FALSE
VIEW ExchangeView
INVARIANTS
  TypeOK
  RoleFollowsIds
  FullMeansSynced
  RequestedOrStored
  OneOutstandingDD
  SomeoneLoads
PROPERTIES
  AbsorbedInOrder
  ImplementsExchange
